-------------------------- MODULE QuotaStorageProofs -------------------------
(***************************************************************************)
(* Theorems about the storage counter of QuotaLedger, which is a sum over  *)
(* images and is carried from one month's row to the next: while no month  *)
(* ends under a running request and no image is deleted twice, the newest  *)
(* row counts exactly the bytes that are reserved or stored, and they stay *)
(* within the limit.                                                       *)
(***************************************************************************)
EXTENDS QuotaHandlerProofs

-----------------------------------------------------------------------------
(* Sums of sizes.  Bytes is a fold over a set; what it computes is shown   *)
(* from a smallest set that would be an exception.                         *)

Chosen(s) == CHOOSE r \in s : TRUE

\* g sums the sizes of every subset of S, one chosen element after the other.
Sums(g, S) ==
  g = [s \in SUBSET S |->
         IF s = {} THEN 0 ELSE Size[Chosen(s)] + g[s \ {Chosen(s)}]]

SumsOf(S) == CHOOSE g : Sums(g, S)

LEMMA BytesIsSum == ASSUME NEW S PROVE Bytes(S) = SumsOf(S)[S]
BY DEF Bytes, MapThenSumSet, MapThenFoldSet, Sums, SumsOf, Chosen

\* Every nonempty set of sets of requests has a smallest one.
LEMMA Smallest ==
  ASSUME NEW T, T \subseteq SUBSET Requests, T # {}
  PROVE  \E s \in T : \A t \in SUBSET s : t # s => t \notin T
<1>1. FiniteSubsetsOf(Requests) = SUBSET Requests
  BY RequestsAssumption, FS_FiniteSubsetsOfFinite
<1>2. IsWellFoundedOn(StrictSubsetOrdering(Requests), SUBSET Requests)
  BY <1>1, FS_StrictSubsetOrderingWellFounded
<1>3. PICK s \in T : \A t \in T : <<t, s>> \notin StrictSubsetOrdering(Requests)
  BY <1>2, WFMin
<1>4. QED
  BY <1>3 DEF StrictSubsetOrdering

LEMMA ChosenIn ==
  ASSUME NEW s, s # {}
  PROVE  Chosen(s) \in s /\ s \ {Chosen(s)} # s
BY DEF Chosen

LEMMA SumsAt ==
  ASSUME NEW g, NEW S, Sums(g, S), NEW s \in SUBSET S
  PROVE  g[s] = IF s = {} THEN 0 ELSE Size[Chosen(s)] + g[s \ {Chosen(s)}]
BY DEF Sums

\* Two functions that sum agree where both are defined.
LEMMA SumsAgree ==
  ASSUME NEW g, NEW h, NEW S \in SUBSET Requests, NEW T \in SUBSET Requests,
         Sums(g, S), Sums(h, T), NEW s \in SUBSET (S \cap T)
  PROVE  g[s] = h[s]
<1> DEFINE Apart == {t \in SUBSET (S \cap T) : g[t] # h[t]}
<1>1. SUFFICES ASSUME Apart # {}
               PROVE  FALSE
  OBVIOUS
<1>2. PICK t \in Apart : \A u \in SUBSET t : u # t => u \notin Apart
  BY <1>1, Smallest
<1>3. /\ g[t] = IF t = {} THEN 0 ELSE Size[Chosen(t)] + g[t \ {Chosen(t)}]
      /\ h[t] = IF t = {} THEN 0 ELSE Size[Chosen(t)] + h[t \ {Chosen(t)}]
  BY SumsAt
<1>4. t # {} => g[t \ {Chosen(t)}] = h[t \ {Chosen(t)}]
  BY <1>2, ChosenIn
<1>5. QED
  BY <1>3, <1>4

\* Every set of requests has a function that sums: one for s is put together
\* from those of the smaller sets.
LEMMA SumsExist ==
  ASSUME NEW S \in SUBSET Requests
  PROVE  Sums(SumsOf(S), S)
<1> DEFINE Bare == {s \in SUBSET Requests : ~ \E g : Sums(g, s)}
<1>1. SUFFICES ASSUME Bare # {}
               PROVE  FALSE
  BY DEF SumsOf
<1>2. PICK s \in Bare : \A t \in SUBSET s : t # s => t \notin Bare
  BY <1>1, Smallest
<1> DEFINE Rest(t) == t \ {Chosen(t)}
           Value(t) == IF t = {} THEN 0 ELSE Size[Chosen(t)] + SumsOf(Rest(t))[Rest(t)]
           whole == [t \in SUBSET s |-> Value(t)]
<1>3. ASSUME NEW t \in SUBSET s, t # s
      PROVE  Sums(SumsOf(t), t)
  BY <1>2, <1>3 DEF SumsOf
<1>4. ASSUME NEW t \in SUBSET s, t # s
      PROVE  SumsOf(t)[t] = Value(t)
  <2>1. Sums(SumsOf(t), t)
    BY <1>3, <1>4
  <2>2. SumsOf(t)[t] = IF t = {} THEN 0 ELSE Size[Chosen(t)] + SumsOf(t)[Rest(t)]
    BY <2>1, SumsAt
  <2>3. t # {} => SumsOf(t)[Rest(t)] = SumsOf(Rest(t))[Rest(t)]
    <3> SUFFICES ASSUME t # {}
                 PROVE  SumsOf(t)[Rest(t)] = SumsOf(Rest(t))[Rest(t)]
      OBVIOUS
    <3>1. Rest(t) \in SUBSET s /\ Rest(t) # s
      BY <1>4, ChosenIn
    <3>2. Sums(SumsOf(Rest(t)), Rest(t))
      BY <1>3, <3>1
    <3>3. /\ t \in SUBSET Requests /\ Rest(t) \in SUBSET Requests
          /\ Rest(t) \in SUBSET (t \cap Rest(t))
      OBVIOUS
    <3> HIDE DEF Rest
    <3>4. QED
      BY <2>1, <3>2, <3>3, SumsAgree
  <2>4. QED
    BY <2>2, <2>3
<1>5. \A t \in SUBSET s : t # {} => whole[Rest(t)] = SumsOf(Rest(t))[Rest(t)]
  BY <1>4, ChosenIn
<1>6. Sums(whole, s)
  BY <1>5 DEF Sums
<1>7. QED
  BY <1>2, <1>6

\* Bytes as the recursion its definition means.
LEMMA BytesRecursion ==
  ASSUME NEW S \in SUBSET Requests
  PROVE  Bytes(S) = IF S = {} THEN 0 ELSE Size[Chosen(S)] + Bytes(S \ {Chosen(S)})
<1> DEFINE T == S \ {Chosen(S)}
<1>1. Sums(SumsOf(S), S) /\ Sums(SumsOf(T), T)
  BY SumsExist
<1>2. SumsOf(S)[T] = SumsOf(T)[T]
  BY <1>1, SumsAgree
<1>3. SumsOf(S)[S] = IF S = {} THEN 0 ELSE Size[Chosen(S)] + SumsOf(S)[T]
  BY <1>1, SumsAt
<1>4. QED
  BY <1>2, <1>3, BytesIsSum

LEMMA BytesOfNone == Bytes({}) = 0
BY BytesRecursion

LEMMA BytesType ==
  ASSUME NEW S \in SUBSET Requests
  PROVE  Bytes(S) \in Nat
<1> DEFINE Wrong == {s \in SUBSET Requests : Bytes(s) \notin Nat}
<1>1. SUFFICES ASSUME Wrong # {}
               PROVE  FALSE
  OBVIOUS
<1>2. PICK s \in Wrong : \A t \in SUBSET s : t # s => t \notin Wrong
  BY <1>1, Smallest
<1>3. s # {}
  <2>1. Bytes(s) # 0
    BY <1>2
  <2>2. QED
    BY <2>1, BytesOfNone
<1>4. Chosen(s) \in s /\ s \ {Chosen(s)} # s
  BY <1>3, ChosenIn
<1>5. Bytes(s \ {Chosen(s)}) \in Nat /\ Size[Chosen(s)] \in Nat
  BY <1>2, <1>4, SizeAssumption
<1>6. Bytes(s) = Size[Chosen(s)] + Bytes(s \ {Chosen(s)})
  BY <1>3, BytesRecursion
<1>7. QED
  BY <1>2, <1>5, <1>6

\* One element more or less counts its size, whichever it is.
LEMMA BytesOfOne ==
  ASSUME NEW S \in SUBSET Requests, NEW r \in S
  PROVE  Bytes(S) = Size[r] + Bytes(S \ {r})
<1> DEFINE Wrong == {s \in SUBSET Requests : \E x \in s : Bytes(s) # Size[x] + Bytes(s \ {x})}
<1>1. SUFFICES ASSUME Wrong # {}
               PROVE  FALSE
  OBVIOUS
<1>2. PICK s \in Wrong : \A t \in SUBSET s : t # s => t \notin Wrong
  BY <1>1, Smallest
<1>3. PICK x \in s : Bytes(s) # Size[x] + Bytes(s \ {x})
  OBVIOUS
<1> DEFINE y == Chosen(s)
           rest == (s \ {y}) \ {x}
<1>4. y \in s /\ Bytes(s) = Size[y] + Bytes(s \ {y})
  BY <1>3, ChosenIn, BytesRecursion
<1>5. x # y
  BY <1>3, <1>4
<1>6. Bytes(s \ {y}) = Size[x] + Bytes(rest)
  BY <1>2, <1>4, <1>5
<1>7. Bytes(s \ {x}) = Size[y] + Bytes(rest)
  <2>1. rest = (s \ {x}) \ {y}
    OBVIOUS
  <2>2. s \ {x} \in SUBSET s /\ s \ {x} # s /\ y \in s \ {x}
    BY <1>3, <1>4, <1>5
  <2>3. \A z \in s \ {x} : Bytes(s \ {x}) = Size[z] + Bytes((s \ {x}) \ {z})
    BY <1>2, <2>2
  <2>4. QED
    BY <2>1, <2>2, <2>3
<1>8. Size[x] \in Nat /\ Size[y] \in Nat /\ Bytes(rest) \in Nat
  BY <1>3, <1>4, BytesType, SizeAssumption
<1>9. QED
  BY <1>3, <1>4, <1>6, <1>7, <1>8

\* Fewer images have no more bytes.
LEMMA BytesOfFewer ==
  ASSUME NEW S \in SUBSET Requests, NEW T \in SUBSET S
  PROVE  Bytes(T) <= Bytes(S)
<1> DEFINE Wrong == {s \in SUBSET Requests : \E t \in SUBSET s : ~ (Bytes(t) <= Bytes(s))}
<1>1. SUFFICES ASSUME Wrong # {}
               PROVE  FALSE
  OBVIOUS
<1>2. PICK s \in Wrong : \A t \in SUBSET s : t # s => t \notin Wrong
  BY <1>1, Smallest
<1>3. PICK t \in SUBSET s : ~ (Bytes(t) <= Bytes(s))
  OBVIOUS
<1>4. Bytes(t) \in Nat /\ Bytes(s) \in Nat
  BY BytesType
<1>5. PICK x \in s : x \notin t
  BY <1>3, <1>4
<1>6. Bytes(t) <= Bytes(s \ {x}) /\ Bytes(s \ {x}) \in Nat /\ Size[x] \in Nat
  BY <1>2, <1>5, BytesType, SizeAssumption
<1>7. Bytes(s) = Size[x] + Bytes(s \ {x})
  BY <1>5, BytesOfOne
<1>8. QED
  BY <1>3, <1>4, <1>6, <1>7

-----------------------------------------------------------------------------
(* Deletions, when no image is deleted twice.                              *)

\* The images whose bytes are counted.
Paying == {r \in Requests : charge[r]["storage"] # 0}

OneDeletion ==
  \A d, e \in Requests : d # e => Deleting(d) \cap Deleting(e) = {}

\* What a deletion has yet to free is counted.
FreesCharged == \A d \in Requests : todo[d] \subseteq Paying

\* An upload that is about to reserve storage has none.
StorageOnce ==
  \A r \in Requests : pc[r] \in {"validate", "reserveStorage"} => "storage" \notin held[r]

DeletionInv == OneDeletion /\ FreesCharged /\ StorageOnce

\* A step that charges nothing and begins no deletion.
LEMMA DeletionBystander ==
  ASSUME DeletionInv, UNCHANGED <<freed, charge>>,
         \A x \in Requests :
           /\ todo'[x] \subseteq todo[x]
           /\ pc'[x] \in {"validate", "reserveStorage"} =>
                pc[x] \in {"validate", "reserveStorage"} /\ held'[x] = held[x]
  PROVE  DeletionInv'
<1>1. \A x \in Requests : Deleting(x)' \subseteq Deleting(x)
  BY DEF Deleting
<1>2. QED
  BY <1>1 DEF DeletionInv, OneDeletion, FreesCharged, StorageOnce, Paying

LEMMA ArriveKeepsDeletions ==
  ASSUME TypeOK, HandlerInv, DeletionInv, "redelete" \notin Faults, "retry" \notin Faults,
         NEW r \in Requests, ArriveDelete(r)
  PROVE  DeletionInv'
<1> USE DEF DeletionInv
<1>1. PICK S \in Deletable :
        /\ \A d \in Requests : S \cap Deleting(d) = {}
        /\ todo' = [todo EXCEPT ![r] = S]
  BY DEF ArriveDelete, Again
<1>2. S \subseteq stored /\ S \subseteq Requests
  BY DEF Deletable, TypeOK
<1>3. S \subseteq Paying
  BY <1>1, <1>2 DEF HandlerInv, LiveImagesCharged, Paying, Deleting
<1>4. /\ todo'[r] = S /\ UNCHANGED <<charge, held, freed>>
      /\ \A x \in Requests \ {r} : todo'[x] = todo[x] /\ pc'[x] = pc[x]
      /\ pc'[r] = "free"
  BY <1>1 DEF ArriveDelete, Goto, TypeOK
<1>5. OneDeletion'
  <2>1. \A x \in Requests \ {r} : Deleting(x)' = Deleting(x)
    BY <1>4 DEF Deleting
  <2>2. Deleting(r)' \subseteq Deleting(r) \cup S
    BY <1>4 DEF Deleting
  <2>3. QED
    BY <1>1, <2>1, <2>2 DEF OneDeletion
<1>6. FreesCharged'
  BY <1>3, <1>4 DEF FreesCharged, Paying
<1>7. StorageOnce'
  BY <1>4 DEF StorageOnce
<1>8. QED
  BY <1>5, <1>6, <1>7

LEMMA ReserveKeepsDeletions ==
  ASSUME LedgerInv, HandlerInv, DeletionInv, NEW r \in Requests, ReserveCall(r)
  PROVE  DeletionInv'
<1> USE DEF DeletionInv
<1>0. TypeOK /\ pc[r] \in Reserving
  BY DEF LedgerInv, TypeInv, ReserveCall, Opened
<1>1. CASE ReserveDenied(r)
  <2>1. UNCHANGED <<todo, freed, charge, held>> /\ pc' = [pc EXCEPT ![r] = "release"]
    BY <1>1 DEF ReserveCall, ReserveDenied, Goto
  <2>2. \A x \in Requests : pc'[x] = IF x = r THEN "release" ELSE pc[x]
    BY <1>0, <2>1 DEF TypeOK
  <2>3. QED
    BY <2>1, <2>2, DeletionBystander
<1>2. CASE ReserveGranted(r)
  <2> DEFINE k == KindOf(r)
  <2>1. k \in Kinds /\ tx[r].start = now /\ now # 0
    BY <1>0 DEF ReserveCall, Opened, KindOf, Reserving, LedgerInv, TypeInv, ControlOK, Kinds,
                TxCurrent, TypeOK, PeriodsTypeOK, Months
  <2>2. /\ UNCHANGED <<todo, freed>> /\ held'[r] = held[r] \cup {k} /\ charge'[r][k] = now
        /\ \A j \in Kinds \ {k} : charge'[r][j] = charge[r][j]
        /\ pc'[r] = AfterGrant[k]
        /\ \A x \in Requests \ {r} :
             pc'[x] = pc[x] /\ held'[x] = held[x] /\ charge'[x] = charge[x]
    BY <1>0, <1>2, <2>1 DEF ReserveCall, ReserveGranted, Goto, TypeOK
  <2>3. /\ pc'[r] \in Working
        /\ pc'[r] = "validate" => k = "upload" /\ pc[r] = "reserve"
    BY <1>0, <2>1, <2>2 DEF AfterGrant, Working, Kinds, CountedKinds, KindOf, Reserving
  <2>4. pc[r] = "reserve" => held[r] = {}
    BY DEF HandlerInv, HeldIsCharged, Holding, Working
  <2>5. OneDeletion'
    BY <2>2 DEF OneDeletion, Deleting
  <2>6. FreesCharged'
    <3>1. \A x \in Paying : x \in Paying'
      BY <2>1, <2>2 DEF Paying, Kinds
    <3>2. QED
      BY <2>2, <3>1 DEF FreesCharged
  <2>7. StorageOnce'
    BY <2>2, <2>3, <2>4 DEF StorageOnce, Working
  <2>8. QED
    BY <2>5, <2>6, <2>7
<1>3. QED
  BY <1>1, <1>2 DEF ReserveCall

LEMMA ReleaseKeepsDeletions ==
  ASSUME TypeOK, HandlerInv, DeletionInv, NEW r \in Requests, ReleaseCall(r)
  PROVE  DeletionInv'
<1> USE DEF DeletionInv
<1>1. PICK k \in held[r] :
        held' = [held EXCEPT ![r] = @ \ {k}] /\ charge' = [charge EXCEPT ![r][k] = 0]
  BY DEF ReleaseCall
<1>2. /\ pc[r] = "release" /\ k \in Kinds /\ UNCHANGED <<pc, todo, freed>>
      /\ held'[r] \subseteq held[r]
      /\ \A x \in Requests \ {r} : held'[x] = held[x] /\ charge'[x] = charge[x]
  BY <1>1 DEF ReleaseCall, Opened, TypeOK
<1>3. OneDeletion'
  BY <1>2 DEF OneDeletion, Deleting
<1>4. FreesCharged'
  <2>1. \A d \in Requests : r \notin todo[d]
    BY <1>2 DEF HandlerInv, DeletionsOK, Deleting
  <2>2. QED
    BY <1>2, <2>1 DEF FreesCharged, Paying
<1>5. StorageOnce'
  BY <1>2 DEF StorageOnce
<1>6. QED
  BY <1>3, <1>4, <1>5

LEMMA FreeKeepsDeletions ==
  ASSUME TypeOK, DeletionInv, NEW r \in Requests, FreeCall(r)
  PROVE  DeletionInv'
<1> USE DEF DeletionInv
<1>1. PICK i \in todo[r] :
        /\ charge' = [charge EXCEPT ![i]["storage"] = 0]
        /\ todo' = [todo EXCEPT ![r] = @ \ {i}]
        /\ freed' = [freed EXCEPT ![r] = @ \cup {i}]
        /\ Goto(r, IF todo[r] = {i} THEN "commit" ELSE "free")
  BY DEF FreeCall
<1>2. /\ held' = held /\ pc'[r] \in {"commit", "free"}
      /\ todo'[r] = todo[r] \ {i} /\ freed'[r] = freed[r] \cup {i}
      /\ \A x \in Requests \ {r} :
           pc'[x] = pc[x] /\ todo'[x] = todo[x] /\ freed'[x] = freed[x]
      /\ \A x \in Requests \ {i} : charge'[x] = charge[x]
  BY <1>1 DEF FreeCall, Goto, TypeOK
<1>3. \A x \in Requests : Deleting(x)' = Deleting(x)
  BY <1>2 DEF Deleting
<1>4. OneDeletion'
  BY <1>3 DEF OneDeletion
<1>5. FreesCharged'
  <2>1. \A d \in Requests : i \notin todo'[d]
    BY <1>2 DEF OneDeletion, Deleting
  <2>2. \A d \in Requests : todo'[d] \subseteq todo[d]
    BY <1>2
  <2>3. QED
    BY <1>2, <2>1, <2>2 DEF FreesCharged, Paying
<1>6. StorageOnce'
  BY <1>2 DEF StorageOnce
<1>7. QED
  BY <1>4, <1>5, <1>6

LEMMA DeletionStep ==
  ASSUME LedgerInv, HandlerInv, DeletionInv, "redelete" \notin Faults, "retry" \notin Faults,
         [Next]_vars
  PROVE  DeletionInv'
<1>0. TypeOK /\ ControlOK
  BY DEF LedgerInv, TypeInv
<1>1. ASSUME NEW r \in Requests, ReserveCall(r)
      PROVE  DeletionInv'
  BY <1>1, ReserveKeepsDeletions
<1>2. ASSUME NEW r \in Requests, ArriveDelete(r)
      PROVE  DeletionInv'
  BY <1>0, <1>2, ArriveKeepsDeletions
<1>3. ASSUME NEW r \in Requests, ReleaseCall(r)
      PROVE  DeletionInv'
  BY <1>0, <1>3, ReleaseKeepsDeletions
<1>4. ASSUME NEW r \in Requests, FreeCall(r)
      PROVE  DeletionInv'
  BY <1>0, <1>4, FreeKeepsDeletions
<1>5. ASSUME NEW r \in Requests,
             \/ Arrive(r) \/ ReleaseDone(r) \/ ReportCall(r) \/ Rank(r) \/ Register(r)
             \/ Settle(r) \/ Commit(r) \/ Fail(r) \/ Abandon(r)
             \/ FailLate(r) \/ ReleaseFails(r) \/ Crash(r)
      PROVE  DeletionInv'
  <2>1. /\ UNCHANGED <<freed, charge>>
        /\ \A x \in Requests : todo'[x] \subseteq todo[x]
        /\ pc'[r] \in {"report", "reserve", "settle", "commit", "release"} \cup Finished
        /\ \A x \in Requests \ {r} : pc'[x] = pc[x] /\ held'[x] = held[x]
    BY <1>0, <1>5
       DEF Arrive, ReleaseDone, ReportCall, Rank, Register, Settle, Commit, Fail, Abandon,
           FailLate, ReleaseFails, Crash, Struck, Goto, Finished, TypeOK
  <2>2. QED
    BY <2>1, DeletionBystander DEF Finished
<1>6. ASSUME NEW r \in Requests, Validate(r)
      PROVE  DeletionInv'
  <2>1. UNCHANGED <<todo, freed, charge, held>> /\ pc[r] = "validate"
    BY <1>6 DEF Validate
  <2>2. \A x \in Requests : pc'[x] = IF x = r THEN "reserveStorage" ELSE pc[x]
    BY <1>0, <1>6 DEF Validate, Goto, TypeOK
  <2>3. QED
    BY <2>1, <2>2, DeletionBystander
<1>7. ASSUME NEW r \in Requests, Open(r)
      PROVE  DeletionInv'
  BY <1>7, DeletionBystander DEF Open
<1>8. CASE Tick \/ UNCHANGED vars
  <2>1. UNCHANGED <<pc, held, todo, freed, charge>>
    BY <1>8 DEF Tick, vars, requestVars
  <2>2. QED
    BY <2>1, DeletionBystander
<1>9. QED
  BY <1>1, <1>2, <1>3, <1>4, <1>5, <1>6, <1>7, <1>8 DEF Next, Step

LEMMA DeletionAlways ==
  ASSUME "rollover" \notin Faults, "redelete" \notin Faults, "retry" \notin Faults
  PROVE  Spec => []DeletionInv
<1>1. Spec => []LedgerInv
  BY LedgerAlways
<1>2. Spec => []HandlerInv
  BY HandlerAlways
<1>3. Init => DeletionInv
  BY DEF Init, DeletionInv, OneDeletion, Deleting, FreesCharged, StorageOnce
<1>4. LedgerInv /\ HandlerInv /\ DeletionInv /\ [Next]_vars => DeletionInv'
  BY DeletionStep
<1>5. QED
  BY <1>1, <1>2, <1>3, <1>4, PTL DEF Spec

-----------------------------------------------------------------------------
(* The storage counter.                                                    *)

\* No row is ahead of the clock, and without a row nothing is counted.
RowsPast == rows \subseteq 1..now /\ (rows = {} => Paying = {})

\* What a usage transaction would carry into a new row is still the count.
CarriedExact ==
  \A r \in Requests : tx[r] # NoTx /\ now \notin rows => tx[r].prev = Bytes(Paying)

\* The bytes that are counted fit in the limit.
StorageKept == Limit["storage"] # UNLIMITED => Bytes(Paying) <= Limit["storage"]

StorageInv == RowsPast /\ CarriedExact /\ StorageExact /\ StorageKept

LEMMA StorageExactMeans ==
  StorageExact = \A m \in rows : (\A n \in rows : n <= m) =>
                   used[m]["storage"] = Bytes(Paying)
BY DEF StorageExact, Paying

LEMMA PayingType ==
  Paying \in SUBSET Requests /\ Bytes(Paying) \in Nat
<1>1. Paying \in SUBSET Requests
  BY DEF Paying
<1>2. QED
  BY <1>1, BytesType

\* A step that counts nothing and opens no transaction.
LEMMA StorageBystander ==
  ASSUME StorageInv, UNCHANGED <<now, rows, used, charge>>,
         \A x \in Requests : tx'[x] \in {tx[x], NoTx}
  PROVE  StorageInv'
<1>1. Paying' = Paying
  BY DEF Paying
<1>2. Bytes(Paying)' = Bytes(Paying)
  BY <1>1
<1>3. RowsPast' /\ CarriedExact' /\ StorageKept'
  BY <1>1, <1>2 DEF StorageInv, RowsPast, CarriedExact, StorageKept
<1>4. StorageExact'
  BY DEF StorageInv, StorageExact
<1>5. QED
  BY <1>3, <1>4 DEF StorageInv

\* The storage of the row a transaction works on, new or not.
LEMMA RowOfStorage ==
  ASSUME LedgerInv, StorageInv, NEW r \in Requests, tx[r] # NoTx
  PROVE  /\ tx[r] \in OpenTx /\ tx[r].start = now
         /\ RowOf(tx[r]) \in [Kinds -> Nat]
         /\ RowOf(tx[r])["storage"] = Bytes(Paying)
<1>1. PeriodsTypeOK /\ tx[r] \in OpenTx /\ tx[r].start = now
  BY DEF LedgerInv, TypeInv, TypeOK, TxCurrent
<1>2. CASE now \in rows
  <2>1. \A n \in rows : n <= now
    BY DEF StorageInv, RowsPast
  <2>2. used[now]["storage"] = Bytes(Paying)
    BY <1>2, <2>1, StorageExactMeans DEF StorageInv
  <2>3. QED
    BY <1>1, <1>2, <2>2, RowOfType DEF RowOf
<1>3. CASE now \notin rows
  <2>1. tx[r].prev = Bytes(Paying)
    BY <1>3 DEF StorageInv, CarriedExact
  <2>2. QED
    BY <1>1, <1>3, <2>1, RowOfType DEF RowOf, Kinds
<1>4. QED
  BY <1>2, <1>3

\* A transaction that writes the new count to its row.
LEMMA WriteKeepsStorage ==
  ASSUME LedgerInv, StorageInv, NEW r \in Requests, tx[r] # NoTx,
         NEW row \in [Kinds -> Nat], WriteRow(tx[r], row),
         row["storage"] = Bytes(Paying)', StorageKept'
  PROVE  StorageInv'
<1>1. PeriodsTypeOK /\ tx[r].start = now
  BY RowOfStorage DEF LedgerInv, TypeInv, TypeOK
<1>2. now' = now /\ now \in Months /\ rows' = rows \cup {now} /\ used'[now] = row
  BY <1>1 DEF WriteRow, PeriodsTypeOK
<1>3. RowsPast'
  BY <1>2 DEF StorageInv, RowsPast, Months
<1>4. CarriedExact'
  BY <1>2 DEF CarriedExact
<1>5. StorageExact'
  <2>1. \A m \in rows' : (\A n \in rows' : n <= m) => m = now
    BY <1>2, <1>3 DEF RowsPast, Months
  <2>2. \A m \in rows' : (\A n \in rows' : n <= m) => used'[m]["storage"] = Bytes(Paying)'
    BY <1>2, <2>1
  <2>3. QED
    BY <2>2 DEF StorageExact, Paying
<1>6. QED
  BY <1>3, <1>4, <1>5 DEF StorageInv

\* The first half of get_or_create_period reads what is counted.
LEMMA OpenKeepsStorage ==
  ASSUME LedgerInv, StorageInv, NEW r \in Requests, Open(r)
  PROVE  StorageInv'
<1>1. PICK t \in OpenedTx : tx' = [tx EXCEPT ![r] = t]
  BY DEF Open
<1>2. /\ UNCHANGED <<now, rows, used, charge>>
      /\ \A x \in Requests : tx'[x] = IF x = r THEN t ELSE tx[x]
  BY <1>1 DEF Open, periodVars, LedgerInv, TypeInv, TypeOK
<1>3. now \notin rows => t.prev = Bytes(Paying)
  <2> SUFFICES ASSUME now \notin rows
               PROVE  t.prev = Bytes(Paying)
    OBVIOUS
  <2>1. now \in Months /\ rows \subseteq Months /\ t.prev \in PrevStorage(now)
    BY <1>1 DEF OpenedTx, LedgerInv, TypeInv, TypeOK, PeriodsTypeOK
  <2>2. {m \in rows : m < now} = rows
    <3>1. \A m \in rows : m \in 1..now /\ m # now
      BY DEF StorageInv, RowsPast
    <3>2. \A m \in rows : m < now
      BY <2>1, <3>1 DEF Months
    <3>3. QED
      BY <3>2
  <2>3. CASE rows = {}
    BY <2>1, <2>2, <2>3, BytesOfNone DEF PrevStorage, StorageInv, RowsPast
  <2>4. CASE rows # {}
    <3>1. PICK m \in rows : (\A n \in rows : n <= m) /\ t.prev = used[m]["storage"]
      BY <2>1, <2>2, <2>4 DEF PrevStorage
    <3>2. QED
      BY <3>1, StorageExactMeans DEF StorageInv
  <2>5. QED
    BY <2>3, <2>4
<1>4. Paying' = Paying /\ Bytes(Paying)' = Bytes(Paying)
  BY <1>2 DEF Paying
<1>5. RowsPast' /\ StorageKept'
  BY <1>2, <1>4 DEF StorageInv, RowsPast, StorageKept
<1>6. StorageExact'
  BY <1>2 DEF StorageInv, StorageExact
<1>7. CarriedExact'
  BY <1>2, <1>3, <1>4 DEF StorageInv, CarriedExact
<1>8. QED
  BY <1>5, <1>6, <1>7 DEF StorageInv

\* What the counted images become when r's storage is counted, or no more.
LEMMA PayingMore ==
  ASSUME NEW r \in Requests, r \notin Paying, Paying' = Paying \cup {r}
  PROVE  Bytes(Paying)' = Bytes(Paying) + Size[r]
<1>1. Paying \cup {r} \in SUBSET Requests /\ (Paying \cup {r}) \ {r} = Paying
  BY PayingType
<1>2. Bytes(Paying \cup {r}) = Size[r] + Bytes(Paying)
  BY <1>1, BytesOfOne
<1>3. Bytes(Paying) \in Nat /\ Size[r] \in Nat
  BY PayingType, SizeAssumption
<1>4. QED
  BY <1>2, <1>3

LEMMA PayingLess ==
  ASSUME NEW r \in Paying, Paying' = Paying \ {r}
  PROVE  Bytes(Paying)' = AtLeastZero(Bytes(Paying) - Size[r])
<1>1. Bytes(Paying) = Size[r] + Bytes(Paying \ {r})
  BY PayingType, BytesOfOne
<1>2. Bytes(Paying \ {r}) \in Nat /\ Size[r] \in Nat
  BY PayingType, BytesType, SizeAssumption
<1>3. QED
  BY <1>1, <1>2 DEF AtLeastZero

LEMMA ReserveKeepsStorage ==
  ASSUME LedgerInv, HandlerInv, DeletionInv, StorageInv,
         NEW r \in Requests, ReserveCall(r)
  PROVE  StorageInv'
<1> DEFINE k == KindOf(r)
           q == Quantity(r, k)
           more == [RowOf(tx[r]) EXCEPT ![k] = @ + q]
<1>1. /\ TypeOK /\ pc[r] \in Reserving /\ tx[r] # NoTx /\ k \in Kinds /\ q \in Nat
      /\ (k = "storage") = (pc[r] = "reserveStorage")
      /\ now # 0 /\ tx[r].start = now
  BY SizeAssumption
     DEF ReserveCall, Opened, LedgerInv, TypeInv, ControlOK, KindOf, Quantity, Reserving, Kinds,
         CountedKinds, TxCurrent, TypeOK, PeriodsTypeOK, Months
<1>2. /\ RowOf(tx[r]) \in [Kinds -> Nat]
      /\ RowOf(tx[r])["storage"] = Bytes(Paying)
  BY <1>1, RowOfStorage
<1>3. CASE ReserveDenied(r)
  <2>1. Paying' = Paying /\ WriteRow(tx[r], RowOf(tx[r]))
    BY <1>3 DEF ReserveDenied, ReserveCall, Reserve, TouchRow, Paying
  <2>2. StorageKept' /\ RowOf(tx[r])["storage"] = Bytes(Paying)'
    BY <1>2, <2>1 DEF StorageInv, StorageKept
  <2>3. QED
    BY <1>1, <1>2, <2>1, <2>2, WriteKeepsStorage
<1>4. CASE ReserveGranted(r)
  <2>1. Granted(tx[r], k, q) /\ WriteRow(tx[r], more) /\ charge' = [charge EXCEPT ![r][k] = now]
    BY <1>1, <1>4 DEF ReserveGranted, ReserveCall, Reserve
  <2>2. more \in [Kinds -> Nat]
    BY <1>1, <1>2
  <2>3. CASE k = "storage"
    <3>1. charge[r]["storage"] = 0
      <4>1. r \notin struck /\ "storage" \notin held[r]
        BY <1>1, <2>3 DEF HandlerInv, StruckEnded, DeletionInv, StorageOnce
      <4>2. QED
        BY <1>1, <2>3, <4>1 DEF HandlerInv, ChargedHeld
    <3>2. r \notin Paying /\ Paying' = Paying \cup {r}
      BY <1>1, <2>1, <2>3, <3>1 DEF Paying, TypeOK
    <3>3. Bytes(Paying)' = Bytes(Paying) + Size[r]
      BY <3>2, PayingMore
    <3>4. q = Size[r]
      BY <2>3 DEF Quantity
    <3>5. more["storage"] = Bytes(Paying)'
      BY <1>1, <1>2, <2>3, <3>3, <3>4
    <3>6. StorageKept'
      BY <1>2, <2>1, <2>3, <3>3, <3>4 DEF StorageKept, Granted
    <3> HIDE DEF more
    <3>7. QED
      BY <1>1, <2>1, <2>2, <3>5, <3>6, WriteKeepsStorage
  <2>4. CASE k # "storage"
    <3>1. Paying' = Paying
      BY <1>1, <2>1, <2>4 DEF Paying, TypeOK
    <3>2. StorageKept' /\ more["storage"] = Bytes(Paying)'
      BY <1>1, <1>2, <2>4, <3>1 DEF StorageInv, StorageKept, Kinds
    <3> HIDE DEF more
    <3>3. QED
      BY <1>1, <2>1, <2>2, <3>2, WriteKeepsStorage
  <2>5. QED
    BY <2>3, <2>4
<1>5. QED
  BY <1>3, <1>4 DEF ReserveCall

\* A row that has given back i's storage.
LEMMA FreeingKeepsStorage ==
  ASSUME LedgerInv, StorageInv, NEW r \in Requests, tx[r] # NoTx,
         NEW i \in Paying, Release(tx[r], "storage", Size[i]),
         charge' = [charge EXCEPT ![i]["storage"] = 0]
  PROVE  StorageInv'
<1> DEFINE less == [RowOf(tx[r]) EXCEPT !["storage"] = AtLeastZero(@ - Size[i])]
<1>1. /\ RowOf(tx[r]) \in [Kinds -> Nat] /\ "storage" \in Kinds
      /\ RowOf(tx[r])["storage"] = Bytes(Paying)
  BY RowOfStorage DEF Kinds
<1>2. i \in Requests /\ Size[i] \in Nat
  BY SizeAssumption DEF Paying
<1>3. Paying' = Paying \ {i}
  BY <1>2 DEF Paying, LedgerInv, TypeInv, TypeOK, Kinds
<1>4. Bytes(Paying)' = AtLeastZero(Bytes(Paying) - Size[i])
  BY <1>3, PayingLess
<1>5. less \in [Kinds -> Nat] /\ less["storage"] = Bytes(Paying)' /\ WriteRow(tx[r], less)
  BY <1>1, <1>2, <1>4 DEF Release, AtLeastZero
<1>6. StorageKept'
  <2>1. Bytes(Paying)' \in Nat /\ Bytes(Paying)' <= Bytes(Paying) /\ Bytes(Paying) \in Nat
    BY <1>2, <1>4, PayingType DEF AtLeastZero
  <2>2. Limit["storage"] \in Int
    BY LimitAssumption DEF Kinds, UNLIMITED
  <2>3. QED
    BY <2>1, <2>2 DEF StorageInv, StorageKept
<1> HIDE DEF less
<1>7. QED
  BY <1>5, <1>6, WriteKeepsStorage

LEMMA ReleaseKeepsStorage ==
  ASSUME LedgerInv, HandlerInv, StorageInv, NEW r \in Requests, ReleaseCall(r)
  PROVE  StorageInv'
<1>1. PICK k \in held[r] :
        /\ Release(tx[r], k, Quantity(r, k))
        /\ charge' = [charge EXCEPT ![r][k] = 0]
  BY DEF ReleaseCall
<1>2. /\ TypeOK /\ tx[r] # NoTx /\ k \in Kinds /\ Quantity(r, k) \in Nat
      /\ charge[r][k] # 0
  <2>1. TypeOK /\ tx[r] # NoTx
    BY DEF ReleaseCall, Opened, LedgerInv, TypeInv
  <2>2. k \in Kinds /\ now # 0 /\ Quantity(r, k) \in Nat
    BY <2>1, SizeAssumption DEF TypeOK, PeriodsTypeOK, Months, Quantity
  <2>3. QED
    BY <2>1, <2>2 DEF HandlerInv, HeldIsCharged
<1>3. CASE k = "storage"
  <2>1. r \in Paying
    BY <1>2, <1>3 DEF Paying
  <2>2. QED
    BY <1>1, <1>2, <1>3, <2>1, FreeingKeepsStorage DEF Quantity
<1>4. CASE k # "storage"
  <2> DEFINE less == [RowOf(tx[r]) EXCEPT ![k] = AtLeastZero(@ - Quantity(r, k))]
  <2>1. Paying' = Paying
    BY <1>1, <1>2, <1>4 DEF Paying, TypeOK
  <2>2. /\ RowOf(tx[r]) \in [Kinds -> Nat]
        /\ RowOf(tx[r])["storage"] = Bytes(Paying)
    BY <1>2, RowOfStorage
  <2>3. less \in [Kinds -> Nat] /\ less["storage"] = Bytes(Paying)' /\ WriteRow(tx[r], less)
    BY <1>1, <1>2, <1>4, <2>1, <2>2 DEF Release, AtLeastZero, Kinds
  <2>4. StorageKept'
    BY <2>1 DEF StorageInv, StorageKept
  <2> HIDE DEF less
  <2>5. QED
    BY <1>2, <2>3, <2>4, WriteKeepsStorage
<1>5. QED
  BY <1>3, <1>4

LEMMA ReportKeepsStorage ==
  ASSUME LedgerInv, StorageInv, NEW r \in Requests, ReportCall(r)
  PROVE  StorageInv'
<1>1. tx[r] # NoTx /\ WriteRow(tx[r], RowOf(tx[r])) /\ Paying' = Paying
  BY DEF ReportCall, Opened, TouchRow, Paying
<1>2. RowOf(tx[r]) \in [Kinds -> Nat] /\ RowOf(tx[r])["storage"] = Bytes(Paying)'
  BY <1>1, RowOfStorage
<1>3. StorageKept'
  BY <1>1 DEF StorageInv, StorageKept
<1>4. QED
  BY <1>1, <1>2, <1>3, WriteKeepsStorage

\* A month begins while no transaction is open: its first one will carry the
\* newest row's storage.
LEMMA TickKeepsStorage ==
  ASSUME LedgerInv, StorageInv, "rollover" \notin Faults, Tick
  PROVE  StorageInv'
<1>1. Quiet /\ now' = now + 1 /\ now \in Nat /\ UNCHANGED <<rows, used, tx, charge>>
  BY DEF Tick, NextMonth, requestVars, LedgerInv, TypeInv, TypeOK, PeriodsTypeOK, Months
<1>2. \A r \in Requests : tx[r] = NoTx
  BY <1>1 DEF Quiet, LedgerInv, TxCurrent, WantsTx, Running, Reserving
<1>3. Paying' = Paying /\ Bytes(Paying)' = Bytes(Paying)
  BY <1>1 DEF Paying
<1>4. RowsPast' /\ StorageKept'
  BY <1>1, <1>3 DEF StorageInv, RowsPast, StorageKept
<1>5. CarriedExact'
  BY <1>1, <1>2 DEF CarriedExact
<1>6. StorageExact'
  BY <1>1 DEF StorageInv, StorageExact
<1>7. QED
  BY <1>4, <1>5, <1>6 DEF StorageInv

LEMMA StorageStep ==
  ASSUME LedgerInv, HandlerInv, DeletionInv, StorageInv, "rollover" \notin Faults,
         [Next]_vars
  PROVE  StorageInv'
<1>0. TypeOK
  BY DEF LedgerInv, TypeInv
<1>1. ASSUME NEW r \in Requests, Open(r)
      PROVE  StorageInv'
  BY <1>1, OpenKeepsStorage
<1>2. ASSUME NEW r \in Requests, ReserveCall(r)
      PROVE  StorageInv'
  BY <1>2, ReserveKeepsStorage
<1>3. ASSUME NEW r \in Requests, ReleaseCall(r)
      PROVE  StorageInv'
  BY <1>3, ReleaseKeepsStorage
<1>4. ASSUME NEW r \in Requests, FreeCall(r)
      PROVE  StorageInv'
  <2>1. PICK i \in todo[r] :
          Release(tx[r], "storage", Size[i]) /\ charge' = [charge EXCEPT ![i]["storage"] = 0]
    BY <1>4 DEF FreeCall
  <2>2. i \in Paying
    BY DEF DeletionInv, FreesCharged
  <2>3. QED
    BY <1>4, <2>1, <2>2, FreeingKeepsStorage DEF FreeCall, Opened
<1>5. ASSUME NEW r \in Requests, ReportCall(r)
      PROVE  StorageInv'
  BY <1>5, ReportKeepsStorage
<1>6. ASSUME NEW r \in Requests,
             \/ Arrive(r) \/ ArriveDelete(r) \/ ReleaseDone(r) \/ Validate(r) \/ Register(r)
             \/ Rank(r) \/ Settle(r) \/ Commit(r) \/ Fail(r) \/ Abandon(r)
             \/ FailLate(r) \/ ReleaseFails(r) \/ Crash(r)
      PROVE  StorageInv'
  <2>1. UNCHANGED <<now, rows, used, charge>> /\ (tx' = tx \/ CloseTx(r))
    BY <1>6
       DEF Arrive, ArriveDelete, ReleaseDone, Validate, Register, Rank, Settle, Commit, Fail,
           Abandon, FailLate, ReleaseFails, Crash, Struck, periodVars
  <2>2. \A x \in Requests : tx'[x] \in {tx[x], NoTx}
    BY <1>0, <2>1 DEF CloseTx, TypeOK
  <2>3. QED
    BY <2>1, <2>2, StorageBystander
<1>7. CASE Tick
  BY <1>7, TickKeepsStorage
<1>8. CASE UNCHANGED vars
  BY <1>8, StorageBystander DEF vars, periodVars, requestVars
<1>9. QED
  BY <1>1, <1>2, <1>3, <1>4, <1>5, <1>6, <1>7, <1>8 DEF Next, Step

LEMMA StorageStart == Init => StorageInv
<1> SUFFICES ASSUME Init
             PROVE  StorageInv
  OBVIOUS
<1>1. Paying = {} /\ rows = {} /\ \A r \in Requests : tx[r] = NoTx
  BY DEF Init, PeriodsInit, Paying, NoCharge, Kinds
<1>2. Bytes(Paying) = 0
  BY <1>1, BytesOfNone
<1>3. StorageKept
  BY <1>2, LimitAssumption DEF StorageKept, Kinds, UNLIMITED
<1>4. QED
  BY <1>1, <1>3 DEF StorageInv, RowsPast, CarriedExact, StorageExact

LEMMA StorageAlways ==
  ASSUME "rollover" \notin Faults, "redelete" \notin Faults, "retry" \notin Faults
  PROVE  Spec => []StorageInv
<1>1. Spec => []LedgerInv
  BY LedgerAlways
<1>2. Spec => []HandlerInv
  BY HandlerAlways
<1>3. Spec => []DeletionInv
  BY DeletionAlways
<1>4. Init => StorageInv
  BY StorageStart
<1>5. LedgerInv /\ HandlerInv /\ DeletionInv /\ StorageInv /\ [Next]_vars => StorageInv'
  BY StorageStep
<1>6. QED
  BY <1>1, <1>2, <1>3, <1>4, <1>5, PTL DEF Spec

\* The newest row's storage_used is exactly the bytes of the images that are
\* reserved or stored and not freed, whatever crashes or fails late: a new
\* month's row inherits it even when another request has inserted the row first.
THEOREM StorageAlwaysExact ==
  ASSUME "rollover" \notin Faults, "redelete" \notin Faults, "retry" \notin Faults
  PROVE  Spec => []StorageExact
<1>1. StorageInv => StorageExact
  BY DEF StorageInv
<1>2. Spec => []StorageInv
  BY StorageAlways
<1>3. QED
  BY <1>1, <1>2, PTL

\* The bytes that are counted never exceed the storage limit, whatever else
\* fails: concurrent uploads cannot overspend it.
THEOREM StorageNeverOverspent ==
  ASSUME "rollover" \notin Faults, "redelete" \notin Faults, "retry" \notin Faults
  PROVE  Spec => []StorageKept
<1>1. StorageInv => StorageKept
  BY DEF StorageInv
<1>2. Spec => []StorageInv
  BY StorageAlways
<1>3. QED
  BY <1>1, <1>2, PTL

-----------------------------------------------------------------------------
(* What faults cost.                                                       *)

\* "Concurrent requests cannot overspend" the storage limit with live images,
\* whatever crashes or fails, beyond the images that deletions gave back before
\* they failed.  Only a month's end under a running request and a second deletion
\* of an image can make the rest exceed it.
THEOREM ImagesFit ==
  ASSUME "rollover" \notin Faults, "redelete" \notin Faults, "retry" \notin Faults
  PROVE  Spec => []StoredWithinLimit
<1>1. TypeOK /\ HandlerInv /\ StorageInv => StoredWithinLimit
  <2> SUFFICES ASSUME TypeOK, HandlerInv, StorageInv, Quiet, Limit["storage"] # UNLIMITED
               PROVE  Bytes(stored \ Refunded) <= Limit["storage"]
    BY DEF StoredWithinLimit
  <2>1. ASSUME NEW i \in stored, i \notin Paying
        PROVE  i \in Refunded
    <3>1. PICK d \in Requests : i \in freed[d] /\ pc[d] # "done"
      BY <2>1 DEF HandlerInv, LiveImagesCharged, Paying, TypeOK
    <3>2. pc[d] \in {"failed", "dead"}
      BY <3>1 DEF HandlerInv, DeletionsOK, Deleting, Quiet, Running, Finished
    <3>3. QED
      BY <3>1, <3>2 DEF Refunded
  <2>2. Bytes(stored \ Refunded) <= Bytes(Paying)
    <3>1. stored \ Refunded \in SUBSET Paying
      BY <2>1
    <3>2. QED
      BY <3>1, PayingType, BytesOfFewer
  <2>3. /\ Bytes(stored \ Refunded) \in Nat /\ Bytes(Paying) \in Nat
        /\ Limit["storage"] \in Int
    BY PayingType, BytesType, LimitAssumption DEF TypeOK, Kinds, UNLIMITED
  <2>4. QED
    BY <2>2, <2>3 DEF StorageInv, StorageKept
<1>2. Spec => []HandlerInv /\ []StorageInv
  BY HandlerAlways, StorageAlways
<1>3. QED
  BY <1>1, <1>2, TypeCorrect, PTL

\* A fault that leaves its request failed is a late failure or a failing release.
StruckDead == \A r \in struck : pc[r] = "dead"

LEMMA StruckStep ==
  ASSUME TypeOK, HandlerInv, StruckDead, "late" \notin Faults, "release" \notin Faults,
         [Next]_vars
  PROVE  StruckDead'
<1>1. ASSUME NEW r \in Requests, pc[r] # "dead", struck' = struck,
             \A x \in Requests \ {r} : pc'[x] = pc[x]
      PROVE  StruckDead'
  BY <1>1 DEF StruckDead, TypeOK
<1>2. ASSUME NEW r \in Requests,
             \/ Arrive(r) \/ ArriveDelete(r) \/ ReserveCall(r) \/ ReleaseCall(r)
             \/ ReleaseDone(r) \/ FreeCall(r) \/ ReportCall(r) \/ Validate(r) \/ Register(r)
             \/ Rank(r) \/ Settle(r) \/ Commit(r) \/ Fail(r) \/ Abandon(r)
      PROVE  StruckDead'
  <2>1. pc[r] # "dead" /\ struck' = struck
    BY <1>2
       DEF Arrive, ArriveDelete, ReserveCall, Opened, Reserving, ReleaseCall, ReleaseDone,
           FreeCall, ReportCall, Validate, Register, Rank, Settle, Commit, Fail, Abandon,
           Working
  <2>2. \A x \in Requests \ {r} : pc'[x] = pc[x]
    BY <1>2
       DEF Arrive, ArriveDelete, ReserveCall, ReserveGranted, ReserveDenied, ReleaseCall,
           ReleaseDone, FreeCall, ReportCall, Validate, Register, Rank, Settle, Commit, Fail,
           Abandon, Goto, TypeOK
  <2>3. QED
    BY <1>1, <2>1, <2>2
<1>3. ASSUME NEW r \in Requests, FailLate(r) \/ ReleaseFails(r) \/ Crash(r)
      PROVE  StruckDead'
  <2>1. Crash(r)
    BY <1>3 DEF FailLate, ReleaseFails, Struck
  <2>2. /\ struck' = struck \cup {r} /\ pc'[r] = "dead"
        /\ \A x \in Requests \ {r} : pc'[x] = pc[x]
    BY <2>1 DEF Crash, Struck, Goto, TypeOK
  <2>3. QED
    BY <2>2 DEF StruckDead, TypeOK
<1>4. ASSUME UNCHANGED <<pc, struck>>
      PROVE  StruckDead'
  BY <1>4 DEF StruckDead
<1>5. QED
  BY <1>2, <1>3, <1>4 DEF Next, Step, Open, Tick, vars, requestVars

\* "A failed upload/search never consumes quota" holds of every failed request,
\* workers that die included, if none fails after quota.commit() or its answer
\* and no release fails.
THEOREM NothingConsumed ==
  ASSUME "rollover" \notin Faults, "late" \notin Faults, "release" \notin Faults
  PROVE  Spec => []NoFailureConsumes
<1>1. Init => StruckDead
  BY DEF Init, StruckDead
<1>2. TypeOK /\ HandlerInv /\ StruckDead /\ [Next]_vars => StruckDead'
  BY StruckStep
<1>3. StruckDead /\ FailedConsumesNothing => NoFailureConsumes
  BY DEF StruckDead, FailedConsumesNothing, NoFailureConsumes
<1>4. Spec => []HandlerInv /\ []FailedConsumesNothing
  BY HandlerAlways, FailuresAreFree
<1>5. QED
  BY <1>1, <1>2, <1>3, <1>4, TypeCorrect, PTL DEF Spec
=============================================================================
