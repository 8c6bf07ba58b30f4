---------------------------- MODULE AIAllowance ----------------------------
(***************************************************************************)
(* The allowance ledger that all worker processes of a host share: an     *)
(* SQLite file with one row per admitted request and per reserved provider *)
(* call.  Request windows roll with each client; the cost limit is per UTC *)
(* day.  Time is the wall clock, which may be set back; one unit of time   *)
(* is the resolution of a stamp.                                           *)
(***************************************************************************)
EXTENDS Integers, FiniteSets, FiniteSetsExt

CONSTANTS
    Process, Address,
    Salt,           \* the random salts that may be drawn
    None,
    PerMinute, PerDay,
    DailyLimit,     \* public_daily_cost_usd, in parts of a micro-dollar
    Amount,         \* what one provider call may cost, in the same parts
    Fraction,       \* parts of a micro-dollar
    Minute, Day, Keep,  \* 60, 86400 and 172800 seconds
    MaxSetback,     \* how far the clock may be set back
    MaxTime, MaxRows    \* bounds of the model

ASSUME AllowanceAssumption ==
    /\ {PerMinute, PerDay, Minute, Day, Fraction} \subseteq Nat \ {0}
    /\ {Keep, MaxSetback, MaxTime, MaxRows, DailyLimit} \subseteq Nat
    /\ Amount \subseteq Nat
    /\ Minute <= Day /\ MaxSetback + Day <= Keep
    /\ None \notin Salt

VARIABLES
    now, high,      \* the clock, and the latest time it has shown
    ledger, salt,   \* the tables `calls` and `identity`
    pc, key,        \* each process: what it does, and its copy of the salt
    op, at, seen,   \* the call it makes, and the time and rows read under the write lock
    admitted,       \* the process handles a metered request (active_allowance)
    retryAt,        \* when a client that was refused was told to come back
    history         \* every row ever committed

clock == <<now, high>>
vars == <<now, high, ledger, salt, pc, key, op, at, seen, admitted, retryAt, history>>

Client == [salt : Salt, address : Address]

\* Mutant of Units: rounded down.
UnitsDown(amount) == amount \div Fraction

\* A provider call is charged in whole micro-dollars, rounded up; the limit is rounded down.
Units(amount) == (amount + Fraction - 1) \div Fraction
Ceiling == DailyLimit \div Fraction

Operation == [type : {"admit", "peek"}, address : Address, amount : {0}]
                 \cup [type : {"reserve"}, address : {None}, amount : Amount \cup {0}]

Init ==
    /\ now = 0 /\ high = 0
    /\ ledger = {} /\ salt = None
    /\ pc = [p \in Process |-> "down"] /\ key = [p \in Process |-> None]
    /\ op = [p \in Process |-> None] /\ at = [p \in Process |-> 0]
    /\ seen = [p \in Process |-> {}] /\ admitted = [p \in Process |-> FALSE]
    /\ retryAt = [c \in Client |-> None]
    /\ history = {}

-----------------------------------------------------------------------------
(* What a locked transaction reads. *)

Recent(rows, c, t, span) == {r \in rows : r.kind = "request" /\ r.client = c /\ r.stamp > t - span}

MinuteFull(rows, c, t) == Cardinality(Recent(rows, c, t, Minute)) >= PerMinute
DayFull(rows, c, t) == Cardinality(Recent(rows, c, t, Day)) >= PerDay
Allowed(rows, c, t) == ~MinuteFull(rows, c, t) /\ ~DayFull(rows, c, t)

\* Seconds until the oldest request leaves its window, at least one.
ResetSeconds(window, t, span) ==
    IF window = {} THEN 0
    ELSE LET left == Min({r.stamp : r \in window}) + span - t IN IF left < 1 THEN 1 ELSE left

\* Mutant of RetryAfter: the longer window is forgotten.
RetryAfterMinute(rows, c, t) ==
    IF MinuteFull(rows, c, t) THEN ResetSeconds(Recent(rows, c, t, Minute), t, Minute) ELSE 1

RetryAfter(rows, c, t) ==
    LET minute == IF MinuteFull(rows, c, t) THEN ResetSeconds(Recent(rows, c, t, Minute), t, Minute) ELSE 0
        day == IF DayFull(rows, c, t) THEN ResetSeconds(Recent(rows, c, t, Day), t, Day) ELSE 0
    IN  IF minute < day THEN day ELSE minute

\* Every decision first forgets the rows of two days ago.
Pruned(rows, t) == {r \in rows : r.stamp > t - Keep}

StartOfDay(t) == (t \div Day) * Day
Spent(rows, t) == MapThenSumSet(LAMBDA r : r.units,
                                {r \in rows : r.kind = "openai" /\ r.stamp >= StartOfDay(t)})

-----------------------------------------------------------------------------
(* A process, and the calls of its requests. *)

\* __init__(): the first process draws the salt, the others read it.
Start(p) ==
    /\ pc[p] = "down"
    /\ \E s \in Salt : salt' = IF salt = None THEN s ELSE salt
    /\ key' = [key EXCEPT ![p] = salt'] /\ pc' = [pc EXCEPT ![p] = "idle"]
    /\ UNCHANGED <<clock, ledger, op, at, seen, admitted, retryAt, history>>

\* Mutant of Begin: a transaction that takes no lock before it reads.
BeginDeferred(p, o) ==
    /\ pc[p] = "idle"
    /\ (o.type = "admit" => ~admitted[p])
    /\ (o.type = "reserve" => admitted[p] \/ o.amount = 0)
    /\ pc' = [pc EXCEPT ![p] = "inside"] /\ op' = [op EXCEPT ![p] = o]
    /\ at' = [at EXCEPT ![p] = now] /\ seen' = [seen EXCEPT ![p] = ledger]
    /\ UNCHANGED <<clock, ledger, salt, key, admitted, retryAt, history>>

\* BEGIN IMMEDIATE waits for the write lock; the clock and the rows are read under it.  A
\* request is admitted before its body is read; what it reserves then is its provider
\* calls, any number of them.  Anyone may look at the limits.
Begin(p, o) ==
    /\ pc[p] = "idle" /\ \A q \in Process : pc[q] # "inside"
    /\ (o.type = "admit" => ~admitted[p])
    /\ (o.type = "reserve" => admitted[p] \/ o.amount = 0)
    /\ pc' = [pc EXCEPT ![p] = "inside"] /\ op' = [op EXCEPT ![p] = o]
    /\ at' = [at EXCEPT ![p] = now] /\ seen' = [seen EXCEPT ![p] = ledger]
    /\ UNCHANGED <<clock, ledger, salt, key, admitted, retryAt, history>>

\* A transaction is over.
Leave(p, next) ==
    /\ pc' = [pc EXCEPT ![p] = next] /\ op' = [op EXCEPT ![p] = None] 
    /\ at' = [at EXCEPT ![p] = 0] /\ seen' = [seen EXCEPT ![p] = {}]

\* The file cannot be read or written: nothing was changed, and the request is refused,
\* as it is when the wait for the lock times out.
Unavailable(p) ==
    /\ pc[p] = "inside"
    /\ Leave(p, "idle")
    /\ UNCHANGED <<clock, ledger, salt, key, admitted, retryAt, history>>

Insert(rows, row) ==
    /\ Cardinality(history) < MaxRows
    /\ ledger' = rows \cup {row} /\ history' = history \cup {row}

Me(p) == [salt |-> key[p], address |-> op[p].address]

\* _rate(): the decision on one client, and the row of an admitted request.
CommitRate(p) ==
    LET c == Me(p)
        rows == Pruned(seen[p], at[p])
        consumes == op[p].type = "admit" /\ Allowed(rows, c, at[p])
    IN  /\ pc[p] = "inside" /\ op[p].type \in {"admit", "peek"}
        /\ IF consumes
           THEN /\ Insert(Pruned(ledger, at[p]), [id |-> Cardinality(history), kind |-> "request", client |-> c,
                                 stamp |-> at[p], amount |-> 0, units |-> 0])
                /\ admitted' = [admitted EXCEPT ![p] = TRUE]
           ELSE ledger' = Pruned(ledger, at[p]) /\ UNCHANGED <<history, admitted>>
        \* the answer, when no request of this client is stamped later than the clock
        /\ retryAt' = [retryAt EXCEPT ![c] =
               IF consumes THEN None
               ELSE IF ~Allowed(rows, c, at[p]) /\ \A r \in Recent(rows, c, at[p], Day) : r.stamp <= at[p]
               THEN at[p] + RetryAfter(rows, c, at[p]) ELSE @]
        /\ Leave(p, "idle")
        /\ UNCHANGED <<clock, salt, key>>

\* _cost(): a reservation that fits the rest of the day; an amount of zero only reads.
CommitCost(p) ==
    LET units == Units(op[p].amount)
    IN  /\ pc[p] = "inside" /\ op[p].type = "reserve"
        /\ IF units > 0 /\ Spent(seen[p], at[p]) + units <= Ceiling
           THEN Insert(ledger, [id |-> Cardinality(history), kind |-> "openai", client |-> None,
                                stamp |-> at[p], amount |-> op[p].amount, units |-> units])
           ELSE UNCHANGED <<ledger, history>>
        /\ Leave(p, "idle")
        /\ UNCHANGED <<clock, salt, key, admitted, retryAt>>

\* The response is complete; nothing is refunded.
EndRequest(p) ==
    /\ pc[p] = "idle" /\ admitted[p] /\ admitted' = [admitted EXCEPT ![p] = FALSE]
    /\ UNCHANGED <<clock, ledger, salt, pc, key, op, at, seen, retryAt, history>>

\* An open transaction of a dead process is rolled back.
Crash(p) ==
    /\ pc[p] # "down"
    /\ Leave(p, "down") /\ key' = [key EXCEPT ![p] = None]
    /\ admitted' = [admitted EXCEPT ![p] = FALSE]
    /\ UNCHANGED <<clock, ledger, salt, retryAt, history>>

SetClock(t) ==
    /\ t # now /\ t >= high - MaxSetback /\ now' = t
    /\ high' = IF t > high THEN t ELSE high
    /\ UNCHANGED <<ledger, salt, pc, key, op, at, seen, admitted, retryAt, history>>

Step(p) ==
    \/ Start(p) \/ Unavailable(p) \/ CommitRate(p) \/ CommitCost(p)
    \/ EndRequest(p) \/ Crash(p) \/ \E o \in Operation : Begin(p, o)

Next == (\E p \in Process : Step(p)) \/ \E t \in 0..MaxTime : SetClock(t)
Spec == Init /\ [][Next]_vars

-----------------------------------------------------------------------------
(* Properties. *)

Row == [id : Nat, kind : {"request", "openai"}, client : Client \cup {None},
        stamp : Nat, amount : Nat, units : Nat]

\* Every variable keeps its type.
TypeOK ==
    /\ now \in Nat /\ high \in Nat
    /\ ledger \subseteq Row /\ history \subseteq Row
    /\ salt \in Salt \cup {None}
    /\ pc \in [Process -> {"down", "idle", "inside"}]
    /\ key \in [Process -> Salt \cup {None}]
    /\ op \in [Process -> Operation \cup {None}]
    /\ at \in [Process -> Nat] /\ seen \in [Process -> SUBSET Row]
    /\ admitted \in [Process -> BOOLEAN]
    /\ retryAt \in [Client -> Nat \cup {None}]

\* The requests of one address in the window of that length which ends with row r.
Window(r, span) ==
    {x \in history : /\ x.kind = "request" /\ x.client.address = r.client.address
                     /\ r.stamp - span < x.stamp /\ x.stamp <= r.stamp}

\* Whatever the processes, their restarts and the clock do: no address was ever admitted
\* more often than the limits say within a minute or a day of the ledger's clock.
WindowsHold ==
    \A r \in history : r.kind = "request" =>
        /\ Cardinality(Window(r, Minute)) <= PerMinute
        /\ Cardinality(Window(r, Day)) <= PerDay

\* The provider calls reserved on one UTC day never cost more than the daily limit.
DailyCostHolds ==
    \A r \in history : r.kind = "openai" =>
        MapThenSumSet(LAMBDA x : x.amount,
                      {x \in history : x.kind = "openai" /\ StartOfDay(x.stamp) = StartOfDay(r.stamp)})
            <= DailyLimit

\* Retry-After is honest: a refused client that waits that long, and sends nothing else
\* that is admitted, is admitted.
RetryAfterSuffices ==
    \A c \in Client : retryAt[c] # None /\ now >= retryAt[c] => Allowed(ledger, c, now)
=============================================================================
