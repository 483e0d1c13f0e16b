---------------------------- MODULE UsagePeriods ----------------------------
(***************************************************************************)
(* The table usage_periods of one tenant: one row of counters per calendar *)
(* month (app/services/usage_service.py, app/models/usage.py).             *)
(*                                                                         *)
(* Every function of the service runs in a database transaction of its own *)
(* (READ COMMITTED) that has two points other transactions can fall        *)
(* between: the read of the clock and of the previous month's storage, and *)
(* the INSERT ... ON CONFLICT DO NOTHING that starts the writing part.     *)
(* From the INSERT on, the row lock or the pending unique key keeps every  *)
(* other writer of the row waiting until the commit, so the INSERT, the    *)
(* SELECT, the UPDATE and the commit are one step.                         *)
(***************************************************************************)
EXTENDS Integers, FiniteSets

CONSTANTS
  MaxMonth,   \* bound: the number of calendar months of a behaviour
  Limit       \* the package's limit of each counter (-1 is unlimited)

VARIABLES
  now,        \* the calendar month the clock shows
  rows,       \* the months that have a committed row
  used        \* used[m][k]: counter k of month m's row (zero without a row)

periodVars == <<now, rows, used>>

UNLIMITED == -1
CountedKinds == {"upload", "search"}
Kinds == CountedKinds \cup {"storage"}
Months == 1..MaxMonth

ASSUME MaxMonthAssumption == MaxMonth \in Nat \ {0}
ASSUME LimitAssumption == Limit \in [Kinds -> Nat \cup {UNLIMITED}]

EmptyRow == [k \in Kinds |-> 0]

\* An open usage transaction remembers the month it started in and the storage
\* of the month before; start = 0 says that no transaction is open.
OpenTx == [start : Months, prev : Nat]
NoTx == [start |-> 0, prev |-> 0]

PeriodsTypeOK ==
  /\ now \in Months
  /\ rows \in SUBSET Months
  /\ used \in [Months -> [Kinds -> Nat]]

PeriodsInit ==
  /\ now = 1
  /\ rows = {}
  /\ used = [m \in Months |-> EmptyRow]

-----------------------------------------------------------------------------
\* ORDER BY period_start DESC LIMIT 1 over the rows before start, or 0.
PrevStorage(start) ==
  LET earlier == {m \in rows : m < start}
      latest  == {m \in earlier : \A n \in earlier : n <= m}
  IN  IF earlier = {} THEN {0} ELSE {used[m]["storage"] : m \in latest}

\* Mutant: period_start is the end of the current month.
OpenedTxAhead == {[start |-> now + 1, prev |-> s] : s \in PrevStorage(now)}

\* The first half of get_or_create_period: the clock, then the carried storage.
OpenedTx == {[start |-> now, prev |-> s] : s \in PrevStorage(now)}

\* Mutant: a new month's row starts with no storage.
RowOfEmpty(t) == IF t.start \in rows THEN used[t.start] ELSE EmptyRow

\* The row the transaction t works on: the one that is there, else the one its
\* INSERT adds, which inherits the storage t read.
RowOf(t) ==
  IF t.start \in rows THEN used[t.start]
  ELSE [k \in Kinds |-> IF k = "storage" THEN t.prev ELSE 0]

WriteRow(t, row) ==
  /\ rows' = rows \cup {t.start}
  /\ used' = [used EXCEPT ![t.start] = row]
  /\ UNCHANGED now

\* get_or_create_period alone, as the usage page calls it.
TouchRow(t) == WriteRow(t, RowOf(t))

\* Mutant: the UPDATE compares the counter before the increment.
GrantedOneOver(t, kind, quantity) ==
  \/ Limit[kind] = UNLIMITED
  \/ RowOf(t)[kind] <= Limit[kind]

\* The condition of reserve's UPDATE.
Granted(t, kind, quantity) ==
  \/ Limit[kind] = UNLIMITED
  \/ RowOf(t)[kind] + quantity <= Limit[kind]

Reserve(t, kind, quantity) ==
  IF Granted(t, kind, quantity)
  THEN WriteRow(t, [RowOf(t) EXCEPT ![kind] = @ + quantity])
  ELSE TouchRow(t)

AtLeastZero(n) == IF n < 0 THEN 0 ELSE n

Release(t, kind, quantity) ==
  WriteRow(t, [RowOf(t) EXCEPT ![kind] = AtLeastZero(@ - quantity)])

\* The clock reaches the next month.
NextMonth ==
  /\ now < MaxMonth
  /\ now' = now + 1
  /\ UNCHANGED <<rows, used>>
=============================================================================
