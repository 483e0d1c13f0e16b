-------------------------- MODULE QuotaLedgerProofs --------------------------
(***************************************************************************)
(* Theorems about QuotaLedger for every set of requests, limit, size and   *)
(* number of months: the types, and, while no month ends under a running   *)
(* request, that the counters are exact and that a month's successes stay  *)
(* within the limit whatever else fails.                                   *)
(***************************************************************************)
EXTENDS QuotaLedger, FiniteSetTheorems, TLAPS

\* What the types need of the control: a reservation of "reserve" is of a
\* counted kind.
ControlOK ==
  \A r \in Requests : pc[r] = "reserve" => op[r] \in CountedKinds

TypeInv == TypeOK /\ ControlOK

-----------------------------------------------------------------------------
(* The usage_periods rows.                                                 *)

LEMMA OpenedTxType ==
  ASSUME PeriodsTypeOK, NEW t \in OpenedTx
  PROVE  t \in OpenTx /\ t.start = now
BY DEF OpenedTx, PrevStorage, OpenTx, PeriodsTypeOK, Kinds

LEMMA RowOfType ==
  ASSUME PeriodsTypeOK, NEW t \in OpenTx
  PROVE  RowOf(t) \in [Kinds -> Nat]
BY DEF RowOf, OpenTx, PeriodsTypeOK

LEMMA WriteRowType ==
  ASSUME PeriodsTypeOK, NEW t \in OpenTx, NEW row \in [Kinds -> Nat],
         WriteRow(t, row)
  PROVE  PeriodsTypeOK'
BY DEF WriteRow, OpenTx, PeriodsTypeOK

LEMMA ReserveType ==
  ASSUME PeriodsTypeOK, NEW t \in OpenTx, NEW k \in Kinds, NEW q \in Nat,
         Reserve(t, k, q)
  PROVE  PeriodsTypeOK'
<1>1. RowOf(t) \in [Kinds -> Nat]
  BY RowOfType
<1>2. [RowOf(t) EXCEPT ![k] = @ + q] \in [Kinds -> Nat]
  BY <1>1
<1>3. QED
  BY <1>1, <1>2, WriteRowType DEF Reserve, TouchRow

LEMMA ReleaseType ==
  ASSUME PeriodsTypeOK, NEW t \in OpenTx, NEW k \in Kinds, NEW q \in Nat,
         Release(t, k, q)
  PROVE  PeriodsTypeOK'
<1>1. RowOf(t) \in [Kinds -> Nat]
  BY RowOfType
<1>2. [RowOf(t) EXCEPT ![k] = AtLeastZero(@ - q)] \in [Kinds -> Nat]
  BY <1>1 DEF AtLeastZero
<1>3. QED
  BY <1>2, WriteRowType DEF Release

-----------------------------------------------------------------------------
(* Types.                                                                  *)

LEMMA TypeInit == Init => TypeInv
BY MaxMonthAssumption
   DEF Init, TypeInv, TypeOK, ControlOK, PeriodsInit, PeriodsTypeOK, EmptyRow,
       Months, Kinds, CountedKinds, NothingHeld, NoCharge, Ops

LEMMA TypeStep == TypeInv /\ [Next]_vars => TypeInv'
<1> SUFFICES ASSUME TypeInv, [Next]_vars
             PROVE  TypeInv'
  OBVIOUS
<1> USE DEF TypeInv, TypeOK, ControlOK
<1>1. ASSUME NEW r \in Requests, Arrive(r)
      PROVE  TypeInv'
  <2>1. PICK o \in OpsOf[r] \ {"delete"} :
          /\ op' = [op EXCEPT ![r] = o]
          /\ pc' = [pc EXCEPT ![r] = IF o = "report" THEN "report" ELSE "reserve"]
    BY <1>1 DEF Arrive, Goto
  <2>2. o \in Ops /\ (o # "report" => o \in CountedKinds)
    BY OpsAssumption DEF Ops, CountedKinds
  <2>3. op' \in [Requests -> Ops]
    BY <2>1, <2>2
  <2>4. pc' \in [Requests -> {"idle"} \cup Running \cup Finished]
    BY <2>1 DEF Running, Reserving
  <2>5. ControlOK'
    BY <1>1, <2>1, <2>2 DEF Arrive
  <2>6. QED
    BY <1>1, <2>3, <2>4, <2>5 DEF Arrive, PeriodsTypeOK, periodVars
<1>2. ASSUME NEW r \in Requests, ArriveDelete(r)
      PROVE  TypeInv'
  <2>1. PICK S \in Deletable : todo' = [todo EXCEPT ![r] = S]
    BY <1>2 DEF ArriveDelete
  <2>2. S \in SUBSET Requests
    BY DEF Deletable
  <2>3. QED
    BY <1>2, <2>1, <2>2 DEF ArriveDelete, Goto, PeriodsTypeOK, periodVars, Running, Ops
<1>3. ASSUME NEW r \in Requests, Open(r)
      PROVE  TypeInv'
  <2>1. PICK t \in OpenedTx : tx' = [tx EXCEPT ![r] = t]
    BY <1>3 DEF Open
  <2>2. t \in OpenTx
    BY <2>1, OpenedTxType
  <2>3. QED
    BY <1>3, <2>1, <2>2 DEF Open, PeriodsTypeOK, periodVars
<1>4. ASSUME NEW r \in Requests, ReserveCall(r)
      PROVE  TypeInv'
  <2>1. tx[r] \in OpenTx /\ pc[r] \in Reserving
    BY <1>4 DEF ReserveCall, Opened, NoTx
  <2>2. KindOf(r) \in Kinds
    BY <2>1 DEF KindOf, Reserving, Kinds, CountedKinds
  <2>3. Quantity(r, KindOf(r)) \in Nat
    BY SizeAssumption DEF Quantity
  <2>4. PeriodsTypeOK'
    BY <1>4, <2>1, <2>2, <2>3, ReserveType DEF ReserveCall
  <2>5. /\ held' \in [Requests -> SUBSET Kinds]
        /\ charge' \in [Requests -> [Kinds -> Months \cup {0}]]
    <3>1. tx[r].start \in Months
      BY <2>1 DEF OpenTx
    <3>2. CASE ReserveGranted(r)
      <4>1. /\ held' = [held EXCEPT ![r] = held[r] \cup {KindOf(r)}]
            /\ charge' = [charge EXCEPT ![r][KindOf(r)] = tx[r].start]
        BY <3>2 DEF ReserveGranted
      <4>2. QED
        BY <4>1, <3>1, <2>2
    <3>3. CASE ReserveDenied(r)
      BY <3>3 DEF ReserveDenied
    <3>4. QED
      BY <1>4, <3>2, <3>3 DEF ReserveCall
  <2>6. \E p \in {"register", "validate", "rank", "release"} :
          pc' = [pc EXCEPT ![r] = p]
    BY <1>4, <2>2 DEF ReserveCall, ReserveGranted, ReserveDenied, Goto,
                      AfterGrant, Kinds, CountedKinds
  <2>7. QED
    BY <1>4, <2>4, <2>5, <2>6
       DEF ReserveCall, CloseTx, Running, Working, Reserving
<1>5. ASSUME NEW r \in Requests, ReleaseCall(r)
      PROVE  TypeInv'
  <2>1. PICK k \in held[r] :
          /\ Release(tx[r], k, Quantity(r, k))
          /\ held' = [held EXCEPT ![r] = @ \ {k}]
          /\ charge' = [charge EXCEPT ![r][k] = 0]
    BY <1>5 DEF ReleaseCall
  <2>2. tx[r] \in OpenTx /\ k \in Kinds /\ Quantity(r, k) \in Nat
    BY <1>5, SizeAssumption DEF ReleaseCall, Opened, NoTx, Quantity
  <2>3. PeriodsTypeOK'
    BY <2>1, <2>2, ReleaseType
  <2>4. QED
    BY <1>5, <2>1, <2>2, <2>3 DEF ReleaseCall, CloseTx
<1>6. ASSUME NEW r \in Requests, ReleaseDone(r)
      PROVE  TypeInv'
  BY <1>6 DEF ReleaseDone, Goto, PeriodsTypeOK, periodVars, Finished
<1>7. ASSUME NEW r \in Requests, FreeCall(r)
      PROVE  TypeInv'
  <2>1. PICK i \in todo[r] :
          /\ Release(tx[r], "storage", Size[i])
          /\ charge' = [charge EXCEPT ![i]["storage"] = 0]
          /\ todo' = [todo EXCEPT ![r] = @ \ {i}]
          /\ freed' = [freed EXCEPT ![r] = @ \cup {i}]
          /\ Goto(r, IF todo[r] = {i} THEN "commit" ELSE "free")
    BY <1>7 DEF FreeCall
  <2>2. tx[r] \in OpenTx /\ i \in Requests
    BY <1>7, <2>1 DEF FreeCall, Opened, NoTx
  <2>3. "storage" \in Kinds /\ Size[i] \in Nat
    BY <2>2, SizeAssumption DEF Kinds
  <2>4. PeriodsTypeOK'
    BY <2>1, <2>2, <2>3, ReleaseType
  <2>5. \E p \in {"commit", "free"} : pc' = [pc EXCEPT ![r] = p]
    BY <2>1 DEF Goto
  <2>6. QED
    BY <1>7, <2>1, <2>2, <2>3, <2>4, <2>5 DEF FreeCall, CloseTx, Running
<1>8. ASSUME NEW r \in Requests, ReportCall(r)
      PROVE  TypeInv'
  <2>1. tx[r] \in OpenTx
    BY <1>8 DEF ReportCall, Opened, NoTx
  <2>2. PeriodsTypeOK'
    BY <1>8, <2>1, RowOfType, WriteRowType DEF ReportCall, TouchRow
  <2>3. QED
    BY <1>8, <2>2 DEF ReportCall, CloseTx, Goto, Finished
<1>9. ASSUME NEW r \in Requests,
             Validate(r) \/ Register(r) \/ Rank(r) \/ Settle(r)
      PROVE  TypeInv'
  <2>1. \E p \in {"reserveStorage", "commit", "settle"} :
          pc' = [pc EXCEPT ![r] = p]
    BY <1>9 DEF Validate, Register, Rank, Settle, Goto
  <2>2. held' \in [Requests -> SUBSET Kinds]
    BY <1>9 DEF Validate, Register, Rank, Settle, NothingHeld
  <2>3. UNCHANGED <<now, rows, used, op, tx, todo, freed, stored, charge, struck>>
    BY <1>9 DEF Validate, Register, Rank, Settle, periodVars
  <2>4. pc' \in [Requests -> {"idle"} \cup Running \cup Finished]
    BY <2>1 DEF Running, Reserving
  <2>5. ControlOK'
    BY <2>1, <2>3
  <2>6. QED
    BY <2>2, <2>3, <2>4, <2>5 DEF PeriodsTypeOK
<1>10. ASSUME NEW r \in Requests, Commit(r)
       PROVE  TypeInv'
  BY <1>10 DEF Commit, Goto, PeriodsTypeOK, periodVars, Finished
<1>11. ASSUME NEW r \in Requests, Fail(r) \/ Abandon(r)
       PROVE  TypeInv'
  <2>1. \E p \in {"release", "failed"} : pc' = [pc EXCEPT ![r] = p]
    BY <1>11 DEF Fail, Abandon, Goto
  <2>2. tx' = [tx EXCEPT ![r] = NoTx]
    BY <1>11 DEF Fail, Abandon, CloseTx
  <2>3. /\ UNCHANGED <<now, rows, used, op, held, freed, stored, charge, struck>>
        /\ todo' \in {todo, [todo EXCEPT ![r] = {}]}
    BY <1>11 DEF Fail, Abandon, periodVars
  <2>4. QED
    BY <2>1, <2>2, <2>3 DEF PeriodsTypeOK, Finished, Running
<1>12. ASSUME NEW r \in Requests, FailLate(r) \/ ReleaseFails(r) \/ Crash(r)
       PROVE  TypeInv'
  <2>1. \E p \in Finished : pc' = [pc EXCEPT ![r] = p]
    BY <1>12 DEF FailLate, ReleaseFails, Crash, Goto, Finished
  <2>2. \E fault : Struck(r, fault)
    BY <1>12 DEF FailLate, ReleaseFails, Crash
  <2>3. QED
    BY <2>1, <2>2
       DEF Struck, CloseTx, NothingHeld, PeriodsTypeOK, periodVars, Finished
<1>13. CASE Tick
  BY <1>13, MaxMonthAssumption
     DEF Tick, NextMonth, requestVars, PeriodsTypeOK, Months
<1>14. CASE UNCHANGED vars
  BY <1>14 DEF vars, periodVars, requestVars, PeriodsTypeOK
<1>15. QED
  BY <1>1, <1>2, <1>3, <1>4, <1>5, <1>6, <1>7, <1>8, <1>9, <1>10, <1>11,
     <1>12, <1>13, <1>14 DEF Next, Step

\* Every variable keeps its type, with every fault and the month ending anywhere.
THEOREM TypeCorrect == Spec => []TypeOK
<1>1. TypeInv => TypeOK
  BY DEF TypeInv
<1>2. QED
  BY <1>1, TypeInit, TypeStep, PTL DEF Spec

-----------------------------------------------------------------------------
(* The counters, when every request ends in the month it began.            *)

\* A usage transaction works on the current month's row, for a request that has
\* a use for it.
TxCurrent ==
  \A r \in Requests : tx[r] # NoTx => tx[r].start = now /\ WantsTx(r)

\* A request that has not reserved yet is not charged.
UnreservedUncharged ==
  \A r \in Requests : pc[r] \in {"idle", "reserve"} =>
    \A k \in CountedKinds : charge[r][k] = 0

\* HeldIsCharged for the counted kinds.
CountedHeld ==
  \A r \in Requests : \A k \in held[r] \cap CountedKinds :
    charge[r][k] = now /\ pc[r] \in Holding

\* A month without a row has counted nothing.
NoRowNoCount ==
  \A m \in Months \ rows : \A k \in CountedKinds : used[m][k] = 0

\* No counter is above its limit.
LimitKept ==
  \A k \in CountedKinds, m \in Months :
    Limit[k] # UNLIMITED => used[m][k] <= Limit[k]

LedgerInv ==
  /\ TypeInv
  /\ TxCurrent
  /\ UnreservedUncharged
  /\ CountedHeld
  /\ NoRowNoCount
  /\ CountersExact
  /\ LimitKept

\* A row's counted kinds before a transaction writes it, new or not.
LEMMA RowOfCounts ==
  ASSUME PeriodsTypeOK, NoRowNoCount, NEW t \in OpenTx, NEW k \in CountedKinds
  PROVE  RowOf(t)[k] = used[t.start][k]
BY DEF RowOf, NoRowNoCount, PeriodsTypeOK, OpenTx, Kinds, CountedKinds

\* What reserve does to the counted kinds.
LEMMA ReserveCounts ==
  ASSUME PeriodsTypeOK, NoRowNoCount, LimitKept,
         NEW t \in OpenTx, NEW kind \in Kinds, NEW q \in Nat,
         Reserve(t, kind, q)
  PROVE  /\ NoRowNoCount'
         /\ LimitKept'
         /\ \A k \in CountedKinds, m \in Months :
              used'[m][k] = IF m = t.start /\ k = kind /\ Granted(t, kind, q)
                            THEN used[m][k] + q ELSE used[m][k]
<1> DEFINE row == IF Granted(t, kind, q)
                  THEN [RowOf(t) EXCEPT ![kind] = @ + q] ELSE RowOf(t)
<1>1. RowOf(t) \in [Kinds -> Nat] /\ t.start \in Months
  BY RowOfType DEF OpenTx
<1>2. \A k \in CountedKinds : RowOf(t)[k] = used[t.start][k]
  BY RowOfCounts
<1>3. rows' = rows \cup {t.start} /\ used' = [used EXCEPT ![t.start] = row]
  BY DEF Reserve, TouchRow, WriteRow
<1>4. \A m \in Months : used'[m] = IF m = t.start THEN row ELSE used[m]
  BY <1>1, <1>3 DEF PeriodsTypeOK
<1>5. \A k \in CountedKinds :
        row[k] = IF k = kind /\ Granted(t, kind, q)
                 THEN used[t.start][k] + q ELSE used[t.start][k]
  BY <1>1, <1>2 DEF CountedKinds, Kinds
<1> HIDE DEF row
<1>6. \A k \in CountedKinds, m \in Months :
        used'[m][k] = IF m = t.start /\ k = kind /\ Granted(t, kind, q)
                      THEN used[m][k] + q ELSE used[m][k]
  BY <1>4, <1>5
<1>7. NoRowNoCount'
  BY <1>3, <1>6 DEF NoRowNoCount
<1>8. LimitKept'
  <2> SUFFICES ASSUME NEW k \in CountedKinds, NEW m \in Months,
                      Limit[k] # UNLIMITED
               PROVE  used'[m][k] <= Limit[k]
    BY DEF LimitKept
  <2>1. CASE m = t.start /\ k = kind /\ Granted(t, kind, q)
    BY <2>1, <1>2, <1>6 DEF Granted
  <2>2. CASE ~(m = t.start /\ k = kind /\ Granted(t, kind, q))
    BY <2>2, <1>6 DEF LimitKept
  <2>3. QED
    BY <2>1, <2>2
<1>9. QED
  BY <1>6, <1>7, <1>8

\* What release does to the counted kinds.
LEMMA ReleaseCounts ==
  ASSUME PeriodsTypeOK, NoRowNoCount, LimitKept,
         NEW t \in OpenTx, NEW kind \in Kinds, NEW q \in Nat,
         Release(t, kind, q)
  PROVE  /\ NoRowNoCount'
         /\ LimitKept'
         /\ \A k \in CountedKinds, m \in Months :
              used'[m][k] = IF m = t.start /\ k = kind
                            THEN AtLeastZero(used[m][k] - q) ELSE used[m][k]
<1> DEFINE row == [RowOf(t) EXCEPT ![kind] = AtLeastZero(@ - q)]
<1>1. RowOf(t) \in [Kinds -> Nat] /\ t.start \in Months
  BY RowOfType DEF OpenTx
<1>2. \A k \in CountedKinds : RowOf(t)[k] = used[t.start][k]
  BY RowOfCounts
<1>3. rows' = rows \cup {t.start} /\ used' = [used EXCEPT ![t.start] = row]
  BY DEF Release, WriteRow
<1>4. \A m \in Months : used'[m] = IF m = t.start THEN row ELSE used[m]
  BY <1>1, <1>3 DEF PeriodsTypeOK
<1>5. \A k \in CountedKinds :
        row[k] = IF k = kind THEN AtLeastZero(used[t.start][k] - q)
                 ELSE used[t.start][k]
  BY <1>1, <1>2 DEF CountedKinds, Kinds
<1> HIDE DEF row
<1>6. \A k \in CountedKinds, m \in Months :
        used'[m][k] = IF m = t.start /\ k = kind
                      THEN AtLeastZero(used[m][k] - q) ELSE used[m][k]
  BY <1>4, <1>5
<1>7. NoRowNoCount'
  BY <1>3, <1>6 DEF NoRowNoCount
<1>8. \A n \in Nat : AtLeastZero(n - q) <= n
  BY DEF AtLeastZero
<1>9. LimitKept'
  <2> SUFFICES ASSUME NEW k \in CountedKinds, NEW m \in Months,
                      Limit[k] # UNLIMITED
               PROVE  used'[m][k] <= Limit[k]
    BY DEF LimitKept
  <2>1. used[m][k] \in Nat /\ Limit[k] \in Int
    BY LimitAssumption DEF PeriodsTypeOK, Kinds, CountedKinds, UNLIMITED
  <2>2. used'[m][k] <= used[m][k] /\ used'[m][k] \in Nat
    BY <2>1, <1>6, <1>8 DEF AtLeastZero
  <2>3. used[m][k] <= Limit[k]
    BY DEF LimitKept
  <2>4. QED
    BY <2>1, <2>2, <2>3
<1>10. QED
  BY <1>6, <1>7, <1>9

\* get_or_create_period counts nothing.
LEMMA TouchCounts ==
  ASSUME PeriodsTypeOK, NoRowNoCount, LimitKept, NEW t \in OpenTx, TouchRow(t)
  PROVE  /\ NoRowNoCount'
         /\ LimitKept'
         /\ \A k \in CountedKinds, m \in Months : used'[m][k] = used[m][k]
<1>1. t.start \in Months
  BY DEF OpenTx
<1>2. \A k \in CountedKinds, m \in Months : used'[m][k] = used[m][k]
  BY <1>1, RowOfCounts DEF TouchRow, WriteRow, PeriodsTypeOK
<1>3. rows' = rows \cup {t.start}
  BY DEF TouchRow, WriteRow
<1>4. QED
  BY <1>2, <1>3 DEF NoRowNoCount, LimitKept

-----------------------------------------------------------------------------
(* The set of charged requests.                                            *)

LEMMA ChargedFinite ==
  ASSUME NEW k, NEW m
  PROVE  IsFiniteSet(Charged(k, m)) /\ Cardinality(Charged(k, m)) \in Nat
<1>1. Charged(k, m) \in SUBSET Requests
  BY DEF Charged
<1>2. QED
  BY <1>1, RequestsAssumption, FS_Subset, FS_CardinalityType

\* Nothing counted changes when neither the counters nor the charges do.
LEMMA NothingCounted ==
  ASSUME CountersExact,
         \A k \in CountedKinds, m \in Months : used'[m][k] = used[m][k],
         \A r \in Requests : \A k \in CountedKinds : charge'[r][k] = charge[r][k]
  PROVE  CountersExact'
<1> SUFFICES ASSUME NEW k \in CountedKinds, NEW m \in Months
             PROVE  used'[m][k] = Cardinality(Charged(k, m)')
  BY DEF CountersExact
<1>1. Charged(k, m)' = Charged(k, m)
  BY DEF Charged
<1>2. QED
  BY <1>1 DEF CountersExact

\* A charge and its increment go together.
LEMMA OneMoreCounted ==
  ASSUME TypeOK, CountersExact, NEW r \in Requests, NEW kind \in CountedKinds,
         NEW start \in Months,
         charge[r][kind] = 0,
         charge' = [charge EXCEPT ![r][kind] = start],
         \A k \in CountedKinds, m \in Months :
           used'[m][k] = IF m = start /\ k = kind THEN used[m][k] + 1
                         ELSE used[m][k]
  PROVE  CountersExact'
<1> SUFFICES ASSUME NEW k \in CountedKinds, NEW m \in Months
             PROVE  used'[m][k] = Cardinality(Charged(k, m)')
  BY DEF CountersExact
<1>1. \A q \in Requests : \A j \in CountedKinds :
        charge'[q][j] = IF q = r /\ j = kind THEN start ELSE charge[q][j]
  BY DEF TypeOK, CountedKinds, Kinds
<1>2. CASE m = start /\ k = kind
  <2>1. Charged(k, m)' = Charged(k, m) \cup {r} /\ r \notin Charged(k, m)
    <3>1. \A q \in Requests : charge'[q][k] = m <=> charge[q][k] = m \/ q = r
      BY <1>1, <1>2 DEF Months
    <3>2. charge[r][k] # m
      BY <1>2 DEF Months
    <3>3. r \notin Charged(k, m)
      BY <3>2 DEF Charged
    <3>4. \A q : q \in Charged(k, m)' <=> q \in Charged(k, m) \/ q = r
      BY <3>1 DEF Charged
    <3>5. QED
      BY <3>3, <3>4
  <2>2. Cardinality(Charged(k, m)') = Cardinality(Charged(k, m)) + 1
    <3>1. IsFiniteSet(Charged(k, m))
      BY ChargedFinite
    <3>2. Cardinality(Charged(k, m) \cup {r}) = Cardinality(Charged(k, m)) + 1
      BY <3>1, <2>1, FS_AddElement
    <3>3. QED
      BY <3>2, <2>1
  <2>3. QED
    BY <2>2, <1>2 DEF CountersExact
<1>3. CASE ~(m = start /\ k = kind)
  <2>1. Charged(k, m)' = Charged(k, m)
    BY <1>1, <1>3 DEF Charged, Months
  <2>2. QED
    BY <2>1, <1>3 DEF CountersExact
<1>4. QED
  BY <1>2, <1>3

\* So do a charge's removal and its decrement, which never meets the clamp.
LEMMA OneLessCounted ==
  ASSUME TypeOK, CountersExact, NEW r \in Requests, NEW kind \in CountedKinds,
         NEW start \in Months,
         charge[r][kind] = start,
         charge' = [charge EXCEPT ![r][kind] = 0],
         \A k \in CountedKinds, m \in Months :
           used'[m][k] = IF m = start /\ k = kind THEN AtLeastZero(used[m][k] - 1)
                         ELSE used[m][k]
  PROVE  CountersExact'
<1> SUFFICES ASSUME NEW k \in CountedKinds, NEW m \in Months
             PROVE  used'[m][k] = Cardinality(Charged(k, m)')
  BY DEF CountersExact
<1>1. \A q \in Requests : \A j \in CountedKinds :
        charge'[q][j] = IF q = r /\ j = kind THEN 0 ELSE charge[q][j]
  BY DEF TypeOK, CountedKinds, Kinds
<1>2. CASE m = start /\ k = kind
  <2>1. Charged(k, m)' = Charged(k, m) \ {r} /\ r \in Charged(k, m)
    BY <1>1, <1>2 DEF Charged, Months
  <2>2. Cardinality(Charged(k, m)') = Cardinality(Charged(k, m)) - 1
    <3>1. IsFiniteSet(Charged(k, m))
      BY ChargedFinite
    <3>2. Cardinality(Charged(k, m) \ {r}) = Cardinality(Charged(k, m)) - 1
      BY <3>1, <2>1, FS_RemoveElement
    <3>3. QED
      BY <3>2, <2>1
  <2>3. Cardinality(Charged(k, m)) # 0
    BY <2>1, ChargedFinite, FS_EmptySet
  <2>4. used[m][k] = Cardinality(Charged(k, m)) /\ used[m][k] \in Nat
    BY ChargedFinite DEF CountersExact
  <2>5. used'[m][k] = used[m][k] - 1
    BY <1>2, <2>3, <2>4 DEF AtLeastZero
  <2>6. QED
    BY <2>2, <2>4, <2>5
<1>3. CASE ~(m = start /\ k = kind)
  <2>1. Charged(k, m)' = Charged(k, m)
    BY <1>1, <1>3 DEF Charged, Months
  <2>2. QED
    BY <2>1, <1>3 DEF CountersExact
<1>4. QED
  BY <1>2, <1>3

-----------------------------------------------------------------------------
(* The inductive step.                                                     *)

\* A step of request r that reads and writes no counter and charges nothing.
LEMMA Bystander ==
  ASSUME LedgerInv, NEW r \in Requests,
         UNCHANGED <<periodVars, charge>>, TypeInv',
         \A q \in Requests \ {r} :
           pc'[q] = pc[q] /\ held'[q] = held[q] /\ tx'[q] = tx[q],
         held'[r] \subseteq held[r],
         tx'[r] \in {tx[r], NoTx} \cup OpenedTx,
         tx'[r] # NoTx => WantsTx(r)',
         held'[r] \cap CountedKinds # {} => pc'[r] \in Holding \/ pc'[r] = pc[r],
         pc'[r] \in {"idle", "reserve"} => pc[r] \in {"idle", "reserve"}
  PROVE  LedgerInv'
<1> USE DEF LedgerInv
<1>1. UNCHANGED <<now, rows, used, charge>>
  BY DEF periodVars
<1>2. CountersExact'
  BY <1>1, NothingCounted
<1>3. NoRowNoCount' /\ LimitKept'
  BY <1>1 DEF NoRowNoCount, LimitKept
<1>4. TxCurrent'
  <2>1. tx'[r] # NoTx => tx'[r].start = now
    BY OpenedTxType DEF TxCurrent, TypeInv, TypeOK
  <2>2. QED
    BY <2>1, <1>1 DEF TxCurrent, WantsTx
<1>5. UnreservedUncharged'
  BY <1>1 DEF UnreservedUncharged
<1>6. CountedHeld'
  BY <1>1 DEF CountedHeld
<1>7. QED
  BY <1>2, <1>3, <1>4, <1>5, <1>6

LEMMA LedgerInit == Init => LedgerInv
<1> SUFFICES ASSUME Init PROVE LedgerInv
  OBVIOUS
<1>1. TypeInv
  BY TypeInit
<1>2. TxCurrent /\ UnreservedUncharged /\ CountedHeld
  BY DEF Init, TxCurrent, UnreservedUncharged, CountedHeld, NothingHeld,
         NoCharge, Kinds
<1>3. \A k \in CountedKinds, m \in Months : used[m][k] = 0
  BY DEF Init, PeriodsInit, EmptyRow, Kinds
<1>4. NoRowNoCount
  BY <1>3 DEF NoRowNoCount
<1>5. LimitKept
  BY <1>3, LimitAssumption DEF LimitKept, Kinds, UNLIMITED
<1>6. CountersExact
  <2> SUFFICES ASSUME NEW k \in CountedKinds, NEW m \in Months
               PROVE  used[m][k] = Cardinality(Charged(k, m))
    BY DEF CountersExact
  <2>1. Charged(k, m) = {}
    BY DEF Init, Charged, NoCharge, Kinds, Months
  <2>2. QED
    BY <2>1, <1>3, FS_EmptySet
<1>7. QED
  BY <1>1, <1>2, <1>4, <1>5, <1>6 DEF LedgerInv

LEMMA ReserveKeepsLedger ==
  ASSUME LedgerInv, NEW r \in Requests, ReserveCall(r), TypeInv'
  PROVE  LedgerInv'
<1> USE DEF LedgerInv, TypeInv
<1> DEFINE k == KindOf(r)
           q == Quantity(r, k)
<1>1. /\ tx[r] \in OpenTx /\ tx[r].start = now /\ now \in Months
      /\ pc[r] \in Reserving
  BY DEF ReserveCall, Opened, NoTx, TypeOK, PeriodsTypeOK, TxCurrent
<1>2. k \in Kinds /\ q \in Nat
  BY <1>1, SizeAssumption
     DEF KindOf, Quantity, Reserving, Kinds, CountedKinds, ControlOK
<1>3. /\ NoRowNoCount' /\ LimitKept'
      /\ \A j \in CountedKinds, m \in Months :
           used'[m][j] = IF m = now /\ j = k /\ Granted(tx[r], k, q)
                         THEN used[m][j] + q ELSE used[m][j]
  BY <1>1, <1>2, ReserveCounts DEF ReserveCall, TypeOK
<1>4. now' = now /\ tx' = [tx EXCEPT ![r] = NoTx]
  BY DEF ReserveCall, Reserve, TouchRow, WriteRow, CloseTx
<1>5. CASE ReserveGranted(r)
  <2>1. /\ Granted(tx[r], k, q)
        /\ held' = [held EXCEPT ![r] = held[r] \cup {k}]
        /\ charge' = [charge EXCEPT ![r][k] = now]
    BY <1>1, <1>5 DEF ReserveGranted
  <2>2. /\ pc'[r] \in (Running \cap Holding) \ {"idle", "reserve"}
        /\ \A x \in Requests \ {r} : pc'[x] = pc[x]
    <3>1. AfterGrant[k] \in Working
      BY <1>2 DEF AfterGrant, Working, Kinds, CountedKinds
    <3>2. pc' = [pc EXCEPT ![r] = AfterGrant[k]]
      BY <1>5 DEF ReserveGranted, Goto
    <3>3. QED
      BY <3>1, <3>2 DEF TypeOK, Running, Working, Holding
  <2>3. TxCurrent'
    BY <1>4, <2>1, <2>2 DEF TxCurrent, WantsTx, TypeOK
  <2>4. \A x \in Requests \ {r} : charge'[x] = charge[x] /\ held'[x] = held[x]
                                 /\ pc'[x] = pc[x]
    BY <2>1, <2>2 DEF TypeOK
  <2>5. UnreservedUncharged'
    BY <2>2, <2>4 DEF UnreservedUncharged
  <2>6. /\ charge'[r][k] = now
        /\ \A j \in Kinds \ {k} : charge'[r][j] = charge[r][j]
        /\ held'[r] = held[r] \cup {k}
    BY <2>1, <1>2 DEF TypeOK
  <2>7. CountedHeld'
    BY <1>4, <2>2, <2>4, <2>6 DEF CountedHeld, Kinds, CountedKinds
  <2>8. CountersExact'
    <3>1. CASE pc[r] = "reserve"
      <4>1. k \in CountedKinds /\ charge[r][k] = 0 /\ q = 1
        BY <3>1 DEF KindOf, Quantity, ControlOK, UnreservedUncharged, CountedKinds
      <4>2. \A j \in CountedKinds, m \in Months :
              used'[m][j] = IF m = now /\ j = k THEN used[m][j] + 1
                            ELSE used[m][j]
        BY <4>1, <1>3, <2>1
      <4>3. QED
        BY <4>1, <4>2, <2>1, <1>1, OneMoreCounted
    <3>2. CASE pc[r] = "reserveStorage"
      <4>1. k = "storage" /\ k \notin CountedKinds
        BY <3>2 DEF KindOf, CountedKinds
      <4>2. \A j \in CountedKinds, m \in Months : used'[m][j] = used[m][j]
        BY <4>1, <1>3
      <4>3. \A x \in Requests : \A j \in CountedKinds : charge'[x][j] = charge[x][j]
        BY <4>1, <2>4, <2>6 DEF Kinds
      <4>4. QED
        BY <4>2, <4>3, NothingCounted
    <3>3. QED
      BY <1>1, <3>1, <3>2 DEF Reserving
  <2>9. QED
    BY <1>3, <2>3, <2>5, <2>7, <2>8
<1>6. CASE ReserveDenied(r)
  <2>1. /\ ~Granted(tx[r], k, q)
        /\ pc' = [pc EXCEPT ![r] = "release"]
        /\ UNCHANGED <<held, charge>>
    BY <1>6 DEF ReserveDenied, Goto
  <2>2. CountersExact'
    BY <1>3, <2>1, NothingCounted
  <2>3. \A x \in Requests : pc'[x] = IF x = r THEN "release" ELSE pc[x]
    BY <2>1 DEF TypeOK
  <2>4. TxCurrent'
    BY <1>4, <2>1, <2>3 DEF TxCurrent, WantsTx, TypeOK
  <2>5. UnreservedUncharged'
    BY <2>1, <2>3 DEF UnreservedUncharged
  <2>6. CountedHeld'
    BY <1>4, <2>1, <2>3 DEF CountedHeld, Holding
  <2>7. QED
    BY <1>3, <2>2, <2>4, <2>5, <2>6
<1>7. QED
  BY <1>5, <1>6 DEF ReserveCall

LEMMA ReleaseKeepsLedger ==
  ASSUME LedgerInv, NEW r \in Requests, ReleaseCall(r), TypeInv'
  PROVE  LedgerInv'
<1> USE DEF LedgerInv, TypeInv
<1>1. PICK k \in held[r] :
        /\ Release(tx[r], k, Quantity(r, k))
        /\ held' = [held EXCEPT ![r] = held[r] \ {k}]
        /\ charge' = [charge EXCEPT ![r][k] = 0]
  BY DEF ReleaseCall
<1>2. /\ tx[r] \in OpenTx /\ tx[r].start = now /\ now \in Months
      /\ pc[r] = "release"
      /\ k \in Kinds /\ Quantity(r, k) \in Nat
  BY SizeAssumption
     DEF ReleaseCall, Opened, NoTx, TypeOK, PeriodsTypeOK, TxCurrent, Quantity
<1>3. /\ NoRowNoCount' /\ LimitKept'
      /\ \A j \in CountedKinds, m \in Months :
           used'[m][j] = IF m = now /\ j = k
                         THEN AtLeastZero(used[m][j] - Quantity(r, k))
                         ELSE used[m][j]
  BY <1>1, <1>2, ReleaseCounts DEF TypeOK
<1>4. now' = now /\ tx' = [tx EXCEPT ![r] = NoTx] /\ pc' = pc
  BY <1>1 DEF ReleaseCall, Release, WriteRow, CloseTx
<1>5. /\ \A x \in Requests \ {r} : charge'[x] = charge[x] /\ held'[x] = held[x]
      /\ \A j \in Kinds : charge'[r][j] = IF j = k THEN 0 ELSE charge[r][j]
      /\ held'[r] = held[r] \ {k}
  BY <1>1, <1>2 DEF TypeOK
<1>6. TxCurrent'
  BY <1>4, <1>5 DEF TxCurrent, WantsTx, TypeOK
<1>7. UnreservedUncharged'
  BY <1>2, <1>4, <1>5 DEF UnreservedUncharged
<1>8. CountedHeld'
  BY <1>4, <1>5 DEF CountedHeld, Kinds
<1>9. CountersExact'
  <2>1. CASE k \in CountedKinds
    <3>1. charge[r][k] = now /\ Quantity(r, k) = 1
      BY <2>1 DEF CountedHeld, Quantity, CountedKinds
    <3>2. \A j \in CountedKinds, m \in Months :
            used'[m][j] = IF m = now /\ j = k THEN AtLeastZero(used[m][j] - 1)
                          ELSE used[m][j]
      BY <3>1, <1>3
    <3>3. QED
      BY <2>1, <3>1, <3>2, <1>1, <1>2, OneLessCounted
  <2>2. CASE k \notin CountedKinds
    BY <2>2, <1>3, <1>5, NothingCounted DEF Kinds
  <2>3. QED
    BY <2>1, <2>2
<1>10. QED
  BY <1>3, <1>6, <1>7, <1>8, <1>9

LEMMA FreeKeepsLedger ==
  ASSUME LedgerInv, NEW r \in Requests, FreeCall(r), TypeInv'
  PROVE  LedgerInv'
<1> USE DEF LedgerInv, TypeInv
<1>1. PICK i \in todo[r] :
        /\ Release(tx[r], "storage", Size[i])
        /\ charge' = [charge EXCEPT ![i]["storage"] = 0]
        /\ Goto(r, IF todo[r] = {i} THEN "commit" ELSE "free")
  BY DEF FreeCall
<1>a. /\ tx[r] \in OpenTx /\ i \in Requests
      /\ "storage" \in Kinds /\ Size[i] \in Nat
  BY SizeAssumption DEF FreeCall, Opened, NoTx, TypeOK, Kinds
<1>2. /\ NoRowNoCount' /\ LimitKept'
      /\ \A j \in CountedKinds, m \in Months : used'[m][j] = used[m][j]
  <2>1. "storage" \notin CountedKinds
    BY DEF CountedKinds
  <2>2. QED
    BY <1>1, <1>a, <2>1, ReleaseCounts DEF TypeOK
<1>3. /\ now' = now /\ tx' = [tx EXCEPT ![r] = NoTx] /\ held' = held
      /\ pc[r] = "free"
  BY <1>1 DEF FreeCall, Opened, Release, WriteRow, CloseTx
<1>4. \A x \in Requests : \A j \in CountedKinds : charge'[x][j] = charge[x][j]
  BY <1>1, <1>a DEF TypeOK, CountedKinds, Kinds
<1>5. /\ pc'[r] \in {"commit", "free"}
      /\ \A x \in Requests \ {r} : pc'[x] = pc[x]
  BY <1>1 DEF Goto, TypeOK
<1>6. CountersExact'
  BY <1>2, <1>4, NothingCounted
<1>7. TxCurrent'
  BY <1>3, <1>5 DEF TxCurrent, WantsTx, TypeOK
<1>8. UnreservedUncharged'
  BY <1>4, <1>5 DEF UnreservedUncharged
<1>9. CountedHeld'
  BY <1>3, <1>4, <1>5 DEF CountedHeld, Holding, Working
<1>10. QED
  BY <1>2, <1>6, <1>7, <1>8, <1>9

LEMMA ReportKeepsLedger ==
  ASSUME LedgerInv, NEW r \in Requests, ReportCall(r), TypeInv'
  PROVE  LedgerInv'
<1> USE DEF LedgerInv, TypeInv
<1>1. tx[r] \in OpenTx
  BY DEF ReportCall, Opened, NoTx, TypeOK
<1>2. /\ NoRowNoCount' /\ LimitKept'
      /\ \A j \in CountedKinds, m \in Months : used'[m][j] = used[m][j]
  BY <1>1, TouchCounts DEF ReportCall, TypeOK
<1>3. /\ now' = now /\ tx' = [tx EXCEPT ![r] = NoTx]
      /\ UNCHANGED <<held, charge>>
      /\ pc' = [pc EXCEPT ![r] = "done"] /\ pc[r] = "report"
  BY DEF ReportCall, Opened, TouchRow, WriteRow, CloseTx, Goto
<1>4. \A x \in Requests : pc'[x] = IF x = r THEN "done" ELSE pc[x]
  BY <1>3 DEF TypeOK
<1>5. CountersExact'
  BY <1>2, <1>3, NothingCounted
<1>6. TxCurrent'
  BY <1>3, <1>4 DEF TxCurrent, WantsTx, TypeOK
<1>7. UnreservedUncharged'
  BY <1>3, <1>4 DEF UnreservedUncharged
<1>8. CountedHeld'
  BY <1>3, <1>4 DEF CountedHeld, Holding, Working
<1>9. QED
  BY <1>2, <1>5, <1>6, <1>7, <1>8

LEMMA LedgerStep ==
  ASSUME "rollover" \notin Faults
  PROVE  LedgerInv /\ [Next]_vars => LedgerInv'
<1> SUFFICES ASSUME LedgerInv, [Next]_vars
             PROVE  LedgerInv'
  OBVIOUS
<1>0. TypeInv'
  BY TypeStep DEF LedgerInv
<1>a. TypeOK
  BY DEF LedgerInv, TypeInv
<1>1. ASSUME NEW r \in Requests, Arrive(r)
      PROVE  LedgerInv'
  <2>1. /\ pc[r] = "idle"
        /\ pc'[r] \in {"report", "reserve"}
        /\ \A x \in Requests \ {r} : pc'[x] = pc[x]
        /\ UNCHANGED <<periodVars, charge, held, tx>>
    BY <1>1, <1>a DEF Arrive, Goto, TypeOK
  <2>3. held[r] \cap CountedKinds = {}
    BY <2>1 DEF LedgerInv, CountedHeld, Holding, Working
  <2>4. TxCurrent' /\ UnreservedUncharged' /\ CountedHeld'
    <3>1. TxCurrent'
      BY <2>1 DEF LedgerInv, TxCurrent, WantsTx, Reserving, periodVars
    <3>2. UnreservedUncharged'
      BY <2>1 DEF LedgerInv, UnreservedUncharged
    <3>3. CountedHeld'
      BY <2>1, <2>3 DEF LedgerInv, CountedHeld, periodVars
    <3>4. QED
      BY <3>1, <3>2, <3>3
  <2>5. NoRowNoCount' /\ LimitKept' /\ CountersExact'
    BY <2>1, NothingCounted
       DEF LedgerInv, NoRowNoCount, LimitKept, periodVars
  <2>6. QED
    BY <1>0, <2>4, <2>5 DEF LedgerInv
<1>2. ASSUME NEW r \in Requests, ArriveDelete(r)
      PROVE  LedgerInv'
  <2>1. /\ pc[r] = "idle" /\ pc'[r] = "free"
        /\ \A x \in Requests \ {r} : pc'[x] = pc[x]
        /\ UNCHANGED <<periodVars, charge, held, tx>>
    BY <1>2, <1>a DEF ArriveDelete, Goto, TypeOK
  <2>3. held[r] \cap CountedKinds = {}
    BY <2>1 DEF LedgerInv, CountedHeld, Holding, Working
  <2>4. TxCurrent'
    BY <2>1 DEF LedgerInv, TxCurrent, WantsTx, Reserving, periodVars
  <2>5. UnreservedUncharged'
    BY <2>1 DEF LedgerInv, UnreservedUncharged
  <2>6. CountedHeld'
    BY <2>1, <2>3 DEF LedgerInv, CountedHeld, periodVars
  <2>7. NoRowNoCount' /\ LimitKept' /\ CountersExact'
    BY <2>1, NothingCounted
       DEF LedgerInv, NoRowNoCount, LimitKept, periodVars
  <2>8. QED
    BY <1>0, <2>4, <2>5, <2>6, <2>7 DEF LedgerInv
<1>3. ASSUME NEW r \in Requests, Open(r)
      PROVE  LedgerInv'
  <2>1. PICK t \in OpenedTx : tx' = [tx EXCEPT ![r] = t]
    BY <1>3 DEF Open
  <2>2. /\ UNCHANGED <<periodVars, charge, pc, held>>
        /\ tx'[r] = t
        /\ \A x \in Requests \ {r} : tx'[x] = tx[x]
        /\ WantsTx(r)'
    BY <1>3, <1>a, <2>1 DEF Open, WantsTx, TypeOK
  <2>3. QED
    BY <1>0, <2>2, Bystander
<1>4. ASSUME NEW r \in Requests, ReserveCall(r)
      PROVE  LedgerInv'
  BY <1>0, <1>4, ReserveKeepsLedger
<1>5. ASSUME NEW r \in Requests, ReleaseCall(r)
      PROVE  LedgerInv'
  BY <1>0, <1>5, ReleaseKeepsLedger
<1>6. ASSUME NEW r \in Requests, FreeCall(r)
      PROVE  LedgerInv'
  BY <1>0, <1>6, FreeKeepsLedger
<1>7. ASSUME NEW r \in Requests, ReportCall(r)
      PROVE  LedgerInv'
  BY <1>0, <1>7, ReportKeepsLedger
<1>8. ASSUME NEW r \in Requests, Validate(r) \/ Rank(r)
      PROVE  LedgerInv'
  <2>1. /\ UNCHANGED <<periodVars, charge, held, tx>>
        /\ pc[r] \in {"validate", "rank"}
        /\ pc'[r] \in {"reserveStorage", "settle"}
        /\ \A x \in Requests \ {r} : pc'[x] = pc[x]
    BY <1>8, <1>a DEF Validate, Rank, Goto, TypeOK
  <2>2. tx[r] = NoTx
    BY <2>1 DEF LedgerInv, TxCurrent, WantsTx, Reserving
  <2>3. QED
    BY <1>0, <2>1, <2>2, Bystander DEF Holding
<1>9. ASSUME NEW r \in Requests, Register(r) \/ Settle(r)
      PROVE  LedgerInv'
  <2>1. /\ UNCHANGED <<periodVars, charge, tx>>
        /\ pc[r] \in {"register", "settle"}
        /\ pc'[r] = "commit" /\ held'[r] = {}
        /\ \A x \in Requests \ {r} : pc'[x] = pc[x] /\ held'[x] = held[x]
    BY <1>9, <1>a DEF Register, Settle, Goto, TypeOK, NothingHeld
  <2>2. tx[r] = NoTx
    BY <2>1 DEF LedgerInv, TxCurrent, WantsTx, Reserving
  <2>3. QED
    BY <1>0, <2>1, <2>2, Bystander
<1>10. ASSUME NEW r \in Requests, Commit(r) \/ ReleaseDone(r)
       PROVE  LedgerInv'
  <2>1. /\ UNCHANGED <<periodVars, charge, tx, held>>
        /\ pc[r] \in {"commit", "release"} /\ pc'[r] \in {"done", "failed"}
        /\ pc[r] = "release" => held[r] = {}
        /\ \A x \in Requests \ {r} : pc'[x] = pc[x]
    BY <1>10, <1>a DEF Commit, ReleaseDone, Goto, TypeOK
  <2>2. tx[r] = NoTx
    BY <2>1 DEF LedgerInv, TxCurrent, WantsTx, Reserving
  <2>3. held[r] \cap CountedKinds = {}
    BY <2>1 DEF LedgerInv, CountedHeld, Holding, Working
  <2>4. QED
    BY <1>0, <2>1, <2>2, <2>3, Bystander
<1>11. ASSUME NEW r \in Requests, Fail(r) \/ Abandon(r)
       PROVE  LedgerInv'
  <2>1. /\ UNCHANGED <<periodVars, charge, held>>
        /\ tx'[r] = NoTx
        /\ \/ pc'[r] = "release"
           \/ pc[r] \in {"free", "report", "commit"} /\ pc'[r] = "failed"
        /\ \A x \in Requests \ {r} : pc'[x] = pc[x] /\ tx'[x] = tx[x]
    BY <1>11, <1>a DEF Fail, Abandon, Goto, CloseTx, TypeOK
  <2>2. pc[r] \in {"free", "report", "commit"} => held[r] \cap CountedKinds = {}
    BY <2>1 DEF LedgerInv, CountedHeld, Holding, Working
  <2>3. QED
    BY <1>0, <2>1, <2>2, Bystander DEF Holding
<1>12. ASSUME NEW r \in Requests, FailLate(r) \/ ReleaseFails(r) \/ Crash(r)
       PROVE  LedgerInv'
  <2>1. PICK fault : Struck(r, fault)
    BY <1>12 DEF FailLate, ReleaseFails, Crash
  <2>2. /\ UNCHANGED <<periodVars, charge>>
        /\ tx'[r] = NoTx /\ held'[r] = {}
        /\ \A x \in Requests \ {r} : held'[x] = held[x] /\ tx'[x] = tx[x]
    BY <2>1, <1>a DEF Struck, CloseTx, NothingHeld, TypeOK
  <2>3. /\ pc'[r] \in {"failed", "dead"}
        /\ \A x \in Requests \ {r} : pc'[x] = pc[x]
    BY <1>12, <1>a DEF FailLate, ReleaseFails, Crash, Goto, TypeOK
  <2>4. QED
    BY <1>0, <2>2, <2>3, Bystander
<1>13. CASE Tick
  <2>1. /\ Quiet /\ UNCHANGED <<rows, used>> /\ UNCHANGED requestVars
    BY <1>13 DEF Tick, NextMonth
  <2>2. \A r \in Requests : tx[r] = NoTx /\ held[r] \cap CountedKinds = {}
    <3> SUFFICES ASSUME NEW r \in Requests
                 PROVE  tx[r] = NoTx /\ held[r] \cap CountedKinds = {}
      OBVIOUS
    <3>1. pc[r] \notin Running
      BY <2>1 DEF Quiet
    <3>2. tx[r] = NoTx
      BY <3>1 DEF LedgerInv, TxCurrent, WantsTx, Running, Reserving
    <3>3. held[r] \cap CountedKinds = {}
      BY <3>1 DEF LedgerInv, CountedHeld, Holding, Running, Reserving
    <3>4. QED
      BY <3>2, <3>3
  <2>3. TxCurrent' /\ CountedHeld'
    BY <2>1, <2>2 DEF TxCurrent, CountedHeld, requestVars
  <2>4. UnreservedUncharged'
    BY <2>1 DEF LedgerInv, UnreservedUncharged, requestVars
  <2>5. NoRowNoCount' /\ LimitKept'
    BY <2>1 DEF LedgerInv, NoRowNoCount, LimitKept
  <2>6. CountersExact'
    BY <2>1, NothingCounted DEF LedgerInv, requestVars
  <2>7. QED
    BY <1>0, <2>3, <2>4, <2>5, <2>6 DEF LedgerInv
<1>14. CASE UNCHANGED vars
  <2>1. UNCHANGED <<now, rows, used>> /\ UNCHANGED requestVars
    BY <1>14 DEF vars, periodVars
  <2>2. TxCurrent' /\ CountedHeld' /\ UnreservedUncharged'
    BY <2>1
       DEF LedgerInv, TxCurrent, WantsTx, CountedHeld, UnreservedUncharged,
           requestVars
  <2>3. NoRowNoCount' /\ LimitKept'
    BY <2>1 DEF LedgerInv, NoRowNoCount, LimitKept
  <2>4. CountersExact'
    BY <2>1, NothingCounted DEF LedgerInv, requestVars
  <2>5. QED
    BY <1>0, <2>2, <2>3, <2>4 DEF LedgerInv
<1>15. QED
  BY <1>1, <1>2, <1>3, <1>4, <1>5, <1>6, <1>7, <1>8, <1>9, <1>10, <1>11,
     <1>12, <1>13, <1>14 DEF Next, Step

LEMMA LedgerAlways ==
  ASSUME "rollover" \notin Faults
  PROVE  Spec => []LedgerInv
<1>1. Init => LedgerInv
  BY LedgerInit
<1>2. LedgerInv /\ [Next]_vars => LedgerInv'
  BY LedgerStep
<1>3. QED
  BY <1>1, <1>2, PTL DEF Spec

\* Every month's upload and search counters are exactly the operations counted
\* and not given back, whatever crashes, fails late or is deleted again, as long
\* as no month ends under a running request.
THEOREM CountersAlwaysExact ==
  ASSUME "rollover" \notin Faults
  PROVE  Spec => []CountersExact
<1>1. LedgerInv => CountersExact
  BY DEF LedgerInv
<1>2. Spec => []LedgerInv
  BY LedgerAlways
<1>3. QED
  BY <1>1, <1>2, PTL

\* Under the same condition the successes of a month never exceed the package's
\* limit: concurrent requests cannot overspend it.
THEOREM NoOverspend ==
  ASSUME "rollover" \notin Faults
  PROVE  Spec => []SuccessesWithinLimit
<1>1. LedgerInv => SuccessesWithinLimit
  <2> SUFFICES ASSUME LedgerInv, NEW k \in CountedKinds, NEW m \in Months,
                      Limit[k] # UNLIMITED
               PROVE  Cardinality({r \in Charged(k, m) : pc[r] = "done"})
                        <= Limit[k]
    BY DEF SuccessesWithinLimit
  <2> DEFINE succeeded == {r \in Charged(k, m) : pc[r] = "done"}
  <2>1. /\ Cardinality(succeeded) \in Nat
        /\ Cardinality(succeeded) <= Cardinality(Charged(k, m))
        /\ Cardinality(Charged(k, m)) \in Nat
    <3>1. succeeded \in SUBSET Charged(k, m)
      OBVIOUS
    <3>2. QED
      BY <3>1, ChargedFinite, FS_Subset, FS_CardinalityType
  <2>2. Cardinality(Charged(k, m)) <= Limit[k]
    BY DEF LedgerInv, CountersExact, LimitKept
  <2>3. Limit[k] \in Int
    BY LimitAssumption DEF Kinds, CountedKinds, UNLIMITED
  <2>4. QED
    BY <2>1, <2>2, <2>3
<1>2. Spec => []LedgerInv
  BY LedgerAlways
<1>3. QED
  BY <1>1, <1>2, PTL
-----------------------------------------------------------------------------
(* The ledger implements its promise.                                      *)

\* What a request of QuotaPromise stands granted for.
GrantedIn == [r \in Requests |-> [k \in CountedKinds |-> charge[r][k]]]

\* Steps that charge nothing counted are stutters of the promise.
LEMMA SameGrants ==
  ASSUME now' = now,
         \A r \in Requests : \A k \in CountedKinds : charge'[r][k] = charge[r][k]
  PROVE  UNCHANGED Promise!vars
<1>1. GrantedIn' = GrantedIn
  BY DEF GrantedIn
<1>2. QED
  BY <1>1 DEF Promise!vars, GrantedIn

\* A change of one counted charge is the promise's change of one grant.
LEMMA OneGrantChanged ==
  ASSUME TypeOK, NEW r \in Requests, NEW k \in CountedKinds, NEW m,
         charge' = [charge EXCEPT ![r][k] = m]
  PROVE  GrantedIn' = [GrantedIn EXCEPT ![r][k] = m]
<1>1. \A q \in Requests : \A j \in CountedKinds :
        charge'[q][j] = IF q = r /\ j = k THEN m ELSE charge[q][j]
  BY DEF TypeOK, CountedKinds, Kinds
<1>2. GrantedIn' = [q \in Requests |-> [j \in CountedKinds |->
                      IF q = r /\ j = k THEN m ELSE charge[q][j]]]
  BY <1>1 DEF GrantedIn
<1>3. [GrantedIn EXCEPT ![r][k] = m] =
        [q \in Requests |-> [j \in CountedKinds |->
           IF q = r /\ j = k THEN m ELSE charge[q][j]]]
  BY DEF GrantedIn
<1>4. QED
  BY <1>2, <1>3

LEMMA ReserveIsGrant ==
  ASSUME LedgerInv, NEW r \in Requests, ReserveCall(r)
  PROVE  [Promise!Next]_(Promise!vars)
<1> USE DEF LedgerInv, TypeInv
<1>1. /\ tx[r] \in OpenTx /\ tx[r].start = now /\ now \in Months
      /\ pc[r] \in Reserving /\ now' = now
  BY DEF ReserveCall, Opened, NoTx, TypeOK, PeriodsTypeOK, TxCurrent,
         Reserve, TouchRow, WriteRow
<1>2. CASE ReserveDenied(r)
  BY <1>1, <1>2, SameGrants DEF ReserveDenied
<1>3. CASE ReserveGranted(r) /\ pc[r] = "reserveStorage"
  <2>1. charge' = [charge EXCEPT ![r]["storage"] = now]
    BY <1>1, <1>3 DEF ReserveGranted, KindOf
  <2>2. \A x \in Requests : \A j \in CountedKinds : charge'[x][j] = charge[x][j]
    BY <2>1 DEF TypeOK, CountedKinds, Kinds
  <2>3. QED
    BY <1>1, <2>2, SameGrants
<1>4. CASE ReserveGranted(r) /\ pc[r] = "reserve"
  <2>0. PICK k \in CountedKinds : k = KindOf(r)
    BY <1>4 DEF KindOf, ControlOK
  <2>1. /\ charge[r][k] = 0 /\ Quantity(r, k) = 1
        /\ charge' = [charge EXCEPT ![r][k] = now]
        /\ Granted(tx[r], k, 1)
    BY <1>1, <1>4, <2>0
       DEF Quantity, UnreservedUncharged, CountedKinds, ReserveGranted
  <2>2. GrantedIn' = [GrantedIn EXCEPT ![r][k] = now]
    BY <2>1, OneGrantChanged
  <2>3. Limit[k] = UNLIMITED \/ Cardinality(Charged(k, now)) < Limit[k]
    <3>1. RowOf(tx[r])[k] = used[now][k]
      BY <1>1, <2>1, RowOfCounts DEF TypeOK
    <3>2. used[now][k] = Cardinality(Charged(k, now)) /\ used[now][k] \in Nat
      BY <1>1, <2>1, ChargedFinite DEF CountersExact
    <3>3. Limit[k] \in Int
      BY <2>1, LimitAssumption DEF Kinds, CountedKinds, UNLIMITED
    <3>4. QED
      BY <2>1, <3>1, <3>2, <3>3 DEF Granted
  <2>4. Charged(k, now) = {q \in Requests : GrantedIn[q][k] = now}
    BY <2>1 DEF Charged, GrantedIn
  <2>5. GrantedIn[r][k] = 0
    BY <2>1 DEF GrantedIn
  <2>6. Promise!Grant(r, k)
    BY <1>1, <2>2, <2>3, <2>4, <2>5 DEF Promise!Grant, Promise!Standing, GrantedIn, Promise!Cardinality, Cardinality
  <2>7. QED
    BY <2>6 DEF Promise!Next
<1>5. QED
  BY <1>1, <1>2, <1>3, <1>4 DEF ReserveCall, Reserving

LEMMA ReleaseIsGiveBack ==
  ASSUME LedgerInv, NEW r \in Requests, ReleaseCall(r)
  PROVE  [Promise!Next]_(Promise!vars)
<1> USE DEF LedgerInv, TypeInv
<1>1. PICK k \in held[r] :
        /\ Release(tx[r], k, Quantity(r, k))
        /\ charge' = [charge EXCEPT ![r][k] = 0]
  BY DEF ReleaseCall
<1>2. k \in Kinds /\ now' = now
  BY <1>1 DEF TypeOK, Release, WriteRow
<1>3. CASE k \in CountedKinds
  <2>1. charge[r][k] = now
    BY <1>3 DEF CountedHeld
  <2>2. GrantedIn' = [GrantedIn EXCEPT ![r][k] = 0]
    BY <1>1, <1>3, OneGrantChanged
  <2>a. GrantedIn[r][k] = now
    BY <1>3, <2>1 DEF GrantedIn
  <2>3. Promise!GiveBack(r, k)
    BY <1>2, <2>2, <2>a DEF Promise!GiveBack, GrantedIn
  <2>4. QED
    BY <1>3, <2>3 DEF Promise!Next
<1>4. CASE k \notin CountedKinds
  <2>1. \A x \in Requests : \A j \in CountedKinds : charge'[x][j] = charge[x][j]
    BY <1>1, <1>2, <1>4 DEF TypeOK, Kinds
  <2>2. QED
    BY <1>2, <2>1, SameGrants
<1>5. QED
  BY <1>3, <1>4

LEMMA StepKeepsPromise ==
  LedgerInv /\ [Next]_vars => [Promise!Next]_(Promise!vars)
<1> SUFFICES ASSUME LedgerInv, [Next]_vars
             PROVE  [Promise!Next]_(Promise!vars)
  OBVIOUS
<1>a. TypeOK
  BY DEF LedgerInv, TypeInv
<1>1. ASSUME NEW r \in Requests, ReserveCall(r)
      PROVE  [Promise!Next]_(Promise!vars)
  BY <1>1, ReserveIsGrant
<1>2. ASSUME NEW r \in Requests, ReleaseCall(r)
      PROVE  [Promise!Next]_(Promise!vars)
  BY <1>2, ReleaseIsGiveBack
<1>3. ASSUME NEW r \in Requests, FreeCall(r)
      PROVE  [Promise!Next]_(Promise!vars)
  <2>1. PICK i \in todo[r] :
          charge' = [charge EXCEPT ![i]["storage"] = 0] /\ i \in Requests /\ now' = now
    BY <1>3, <1>a DEF FreeCall, Release, WriteRow, TypeOK
  <2>2. \A x \in Requests : \A j \in CountedKinds : charge'[x][j] = charge[x][j]
    BY <1>a, <2>1 DEF TypeOK, CountedKinds, Kinds
  <2>3. QED
    BY <2>1, <2>2, SameGrants
<1>4. CASE Tick
  <2>1. now' = now + 1 /\ now' \in Months /\ charge' = charge
    BY <1>4, <1>a, MaxMonthAssumption
       DEF Tick, NextMonth, requestVars, Months, TypeOK, PeriodsTypeOK
  <2>2. Promise!Turn
    BY <2>1 DEF Promise!Turn
  <2>3. QED
    BY <2>2 DEF Promise!Next
<1>5. ASSUME NEW r \in Requests,
             \/ Arrive(r) \/ ArriveDelete(r) \/ Open(r) \/ ReleaseDone(r)
             \/ ReportCall(r) \/ Validate(r) \/ Register(r) \/ Rank(r)
             \/ Settle(r) \/ Commit(r) \/ Fail(r) \/ Abandon(r)
      PROVE  [Promise!Next]_(Promise!vars)
  <2>1. now' = now /\ charge' = charge
    BY <1>5 DEF Arrive, ArriveDelete, Open, ReleaseDone, ReportCall, TouchRow,
                WriteRow, Validate, Register, Rank, Settle, Commit, Fail,
                Abandon, periodVars
  <2>2. QED
    BY <2>1, SameGrants
<1>6. ASSUME NEW r \in Requests, FailLate(r) \/ ReleaseFails(r) \/ Crash(r)
      PROVE  [Promise!Next]_(Promise!vars)
  <2>1. now' = now /\ charge' = charge
    BY <1>6 DEF FailLate, ReleaseFails, Crash, Struck, periodVars
  <2>2. QED
    BY <2>1, SameGrants
<1>7. CASE UNCHANGED vars
  <2>1. now' = now /\ charge' = charge
    BY <1>7 DEF vars, periodVars, requestVars
  <2>2. QED
    BY <2>1, SameGrants
<1>8. QED
  BY <1>1, <1>2, <1>3, <1>4, <1>5, <1>6, <1>7 DEF Next, Step

\* The counters of usage_periods, kept by transactions of two parts, implement
\* the promise for every number of requests and every fault, as long as no month
\* ends under a running request.
THEOREM PromiseKept ==
  ASSUME "rollover" \notin Faults
  PROVE  Spec => KeepsPromise
<1>1. Init => Promise!Init
  BY DEF Init, PeriodsInit, NoCharge, Promise!Init, Kinds
<1>2. Spec => []LedgerInv
  BY LedgerAlways
<1>3. LedgerInv /\ [Next]_vars => [Promise!Next]_(Promise!vars)
  BY StepKeepsPromise
<1>4. QED
  BY <1>1, <1>2, <1>3, PTL DEF Spec, KeepsPromise, Promise!Spec
==============================================================================
