-------------------------- MODULE QuotaHandlerProofs -------------------------
(***************************************************************************)
(* Theorems about what the handlers of QuotaLedger hold, free and leave    *)
(* behind, on top of its exact counters: while no month ends under a       *)
(* running request, a reservation is given back to where it was charged,   *)
(* a failure without a fault consumes nothing, and live images are paid    *)
(* for unless a deletion gave them back and did not succeed.               *)
(***************************************************************************)
EXTENDS QuotaLedgerProofs

\* A fault ends its request.
StruckEnded == \A r \in struck : pc[r] \in {"failed", "dead"}

\* Only a deletion that has begun has images in hand or freed, and they are the
\* images of uploads that are done.
DeletionsOK ==
  \A r \in Requests :
    /\ pc[r] = "free" => op[r] = "delete"
    /\ op[r] = "delete" => pc[r] \in {"free", "commit"} \cup Finished
    /\ \A i \in Deleting(r) : op[r] = "delete" /\ pc[i] = "done"

StoredDone == \A i \in stored : pc[i] = "done"

\* An upload that is about to commit has paid for its image.
UploadsPaid ==
  \A r \in Requests :
    /\ pc[r] \in {"rank", "settle"} => op[r] = "search"
    /\ pc[r] = "register" => "storage" \in held[r]
    /\ pc[r] = "commit" /\ op[r] = "upload" => charge[r]["storage"] # 0

\* A request holds what it is charged for until it has registered or found its
\* answer; a deletion is never charged.
ChargedHeld ==
  \A r \in Requests \ struck :
    pc[r] \notin {"done", "dead"} /\ (pc[r] = "commit" => op[r] = "delete") =>
      \A k \in Kinds : charge[r][k] # 0 => k \in held[r]

HandlerInv ==
  /\ StruckEnded /\ DeletionsOK /\ StoredDone /\ UploadsPaid
  /\ ChargedHeld /\ HeldIsCharged /\ LiveImagesCharged

-----------------------------------------------------------------------------
LEMMA HandlerStart == Init => HandlerInv
BY DEF Init, HandlerInv, StruckEnded, DeletionsOK, Deleting, StoredDone, UploadsPaid,
       ChargedHeld, HeldIsCharged, LiveImagesCharged, NothingHeld, NoCharge

\* A request goes on to another place with what it holds.
LEMMA MoveKeeps ==
  ASSUME TypeOK, HandlerInv, NEW r \in Requests, NEW p,
         UNCHANGED <<now, op, held, freed, stored, charge, struck>>,
         todo'[r] \subseteq todo[r],
         \A x \in Requests \ {r} : todo'[x] = todo[x],
         pc' = [pc EXCEPT ![r] = p],
         pc[r] \notin {"idle"} \cup Finished,
         p \notin {"idle", "free", "register", "commit", "rank"},
         p = "settle" => pc[r] = "rank",
         pc[r] \in {"free", "commit"} => p = "failed" /\ op[r] = "delete",
         held[r] # {} => p \in Holding
  PROVE  HandlerInv'
<1> USE DEF HandlerInv, Finished
<1>1. \A x \in Requests : pc'[x] = IF x = r THEN p ELSE pc[x]
  BY DEF TypeOK
<1>2. StruckEnded'
  BY <1>1 DEF StruckEnded, TypeOK
<1>3. DeletionsOK'
  <2>1. \A x \in Requests : Deleting(x)' \subseteq Deleting(x)
    BY DEF Deleting
  <2>2. QED
    BY <1>1, <2>1 DEF DeletionsOK, Deleting, TypeOK
<1>4. StoredDone'
  BY <1>1 DEF StoredDone, TypeOK
<1>5. UploadsPaid'
  BY <1>1 DEF UploadsPaid
<1>6. ChargedHeld'
  BY <1>1 DEF ChargedHeld
<1>7. HeldIsCharged'
  BY <1>1 DEF HeldIsCharged
<1>8. LiveImagesCharged'
  <2>1. freed[r] # {} => p # "done"
    BY DEF DeletionsOK, Deleting
  <2>2. QED
    BY <1>1, <2>1 DEF LiveImagesCharged
<1>9. QED
  BY <1>2, <1>3, <1>4, <1>5, <1>6, <1>7, <1>8

LEMMA ArriveKeeps ==
  ASSUME TypeOK, HandlerInv, NEW r \in Requests, Arrive(r) \/ ArriveDelete(r)
  PROVE  HandlerInv'
<1> USE DEF HandlerInv
<1>1. /\ pc[r] = "idle"
      /\ UNCHANGED <<now, held, freed, stored, charge, struck>>
      /\ \A x \in Requests \ {r} :
           pc'[x] = pc[x] /\ op'[x] = op[x] /\ todo'[x] = todo[x]
      /\ pc'[r] \in {"report", "reserve", "free"}
      /\ pc'[r] = "free" <=> op'[r] = "delete"
  BY DEF Arrive, ArriveDelete, Goto, periodVars, TypeOK
<1>2. \/ todo'[r] = todo[r]
      \/ todo'[r] \subseteq stored /\ op'[r] = "delete" /\ pc'[r] = "free"
  BY DEF Arrive, ArriveDelete, Deletable, Goto, TypeOK
<1>3. held[r] = {} /\ Deleting(r) = {} /\ r \notin struck
  BY <1>1 DEF HeldIsCharged, Holding, Working, DeletionsOK, StruckEnded, Finished
<1>4. StruckEnded' /\ StoredDone'
  BY <1>1 DEF StruckEnded, StoredDone, TypeOK
<1>5. DeletionsOK'
  <2>1. \A x \in Requests \ {r} : Deleting(x)' = Deleting(x)
    BY <1>1 DEF Deleting
  <2>2. \A i \in Deleting(r)' : i \in stored /\ op'[r] = "delete" /\ pc'[r] = "free"
    BY <1>1, <1>2, <1>3 DEF Deleting
  <2>3. \A x \in Requests : \A i \in Deleting(x) : i # r
    BY <1>1 DEF DeletionsOK
  <2>4. \A i \in stored : i # r /\ pc'[i] = "done"
    BY <1>1 DEF StoredDone, TypeOK
  <2>5. \A x \in Requests : Deleting(x) \subseteq Requests
    BY DEF Deleting, TypeOK
  <2>6. QED
    BY <1>1, <2>1, <2>2, <2>3, <2>4, <2>5 DEF DeletionsOK
<1>6. UploadsPaid'
  BY <1>1 DEF UploadsPaid
<1>7. ChargedHeld' /\ HeldIsCharged'
  BY <1>1, <1>3 DEF ChargedHeld, HeldIsCharged
<1>8. LiveImagesCharged'
  BY <1>1 DEF LiveImagesCharged
<1>9. QED
  BY <1>4, <1>5, <1>6, <1>7, <1>8

\* reserve() grants: what is charged is held from then on.
LEMMA GrantKeeps ==
  ASSUME LedgerInv, HandlerInv, NEW r \in Requests, ReserveCall(r), ReserveGranted(r)
  PROVE  HandlerInv'
<1> USE DEF HandlerInv
<1> DEFINE k == KindOf(r)
<1>0. TypeOK
  BY DEF LedgerInv, TypeInv
<1>1. /\ pc[r] \in Reserving /\ tx[r].start = now /\ now \in Months /\ now' = now
      /\ UNCHANGED <<op, todo, freed, stored, struck>>
  BY <1>0 DEF ReserveCall, Opened, Reserve, TouchRow, WriteRow, LedgerInv, TxCurrent,
              TypeOK, PeriodsTypeOK
<1>2. k \in Kinds /\ (k = "search" => op[r] = "search")
  BY <1>1 DEF KindOf, Reserving, LedgerInv, TypeInv, ControlOK, Kinds
<1>3. /\ pc'[r] = AfterGrant[k] /\ pc'[r] \in Working
      /\ pc'[r] = "rank" => op[r] = "search"
      /\ pc'[r] = "register" => k = "storage"
  BY <1>0, <1>2 DEF ReserveGranted, Goto, AfterGrant, Working, Kinds, CountedKinds, TypeOK
<1>4. /\ held'[r] = held[r] \cup {k} /\ charge'[r][k] = now
      /\ \A j \in Kinds \ {k} : charge'[r][j] = charge[r][j]
      /\ \A x \in Requests \ {r} :
           pc'[x] = pc[x] /\ held'[x] = held[x] /\ charge'[x] = charge[x]
  BY <1>0, <1>1, <1>2 DEF ReserveGranted, Goto, TypeOK
<1>5. /\ r \notin struck /\ r \notin stored /\ Deleting(r) = {}
      /\ \A x \in Requests : r \notin Deleting(x)
  BY <1>0, <1>1 DEF StruckEnded, StoredDone, DeletionsOK, Reserving, Finished
<1>6. StruckEnded' /\ StoredDone'
  BY <1>0, <1>1, <1>4, <1>5 DEF StruckEnded, StoredDone, TypeOK
<1>7. DeletionsOK'
  <2>1. \A x \in Requests : Deleting(x)' = Deleting(x) /\ Deleting(x) \subseteq Requests
    BY <1>0, <1>1 DEF Deleting, TypeOK
  <2>2. op[r] # "delete"
    BY <1>1 DEF DeletionsOK, Reserving, Finished
  <2>3. QED
    BY <1>1, <1>3, <1>4, <1>5, <2>1, <2>2 DEF DeletionsOK, Working
<1>8. UploadsPaid'
  BY <1>1, <1>3, <1>4 DEF UploadsPaid, Working
<1>9. ChargedHeld'
  BY <1>1, <1>4 DEF ChargedHeld, Reserving
<1>10. HeldIsCharged'
  <2>1. \A j \in held'[r] : charge'[r][j] = now
    BY <1>0, <1>4 DEF HeldIsCharged, TypeOK
  <2>2. pc'[r] \in Holding
    BY <1>3 DEF Holding
  <2>3. QED
    BY <1>1, <1>4, <2>1, <2>2 DEF HeldIsCharged
<1>11. LiveImagesCharged'
  <2>1. \A i \in stored : i # r /\ charge'[i] = charge[i]
    BY <1>0, <1>4, <1>5 DEF TypeOK
  <2>2. \A d \in Requests : pc'[d] = "done" => pc[d] = "done"
    BY <1>3, <1>4 DEF Working
  <2>3. QED
    BY <1>1, <2>1, <2>2 DEF LiveImagesCharged
<1>12. QED
  BY <1>6, <1>7, <1>8, <1>9, <1>10, <1>11

LEMMA ReleaseKeeps ==
  ASSUME TypeOK, HandlerInv, NEW r \in Requests, ReleaseCall(r)
  PROVE  HandlerInv'
<1> USE DEF HandlerInv
<1>1. PICK k \in held[r] :
        /\ held' = [held EXCEPT ![r] = @ \ {k}]
        /\ charge' = [charge EXCEPT ![r][k] = 0]
        /\ now' = now
  BY DEF ReleaseCall, Release, WriteRow
<1>2. /\ pc[r] = "release" /\ k \in Kinds
      /\ UNCHANGED <<op, pc, todo, freed, stored, struck>>
  BY DEF ReleaseCall, Opened, TypeOK
<1>3. /\ held'[r] = held[r] \ {k} /\ charge'[r][k] = 0
      /\ \A j \in Kinds \ {k} : charge'[r][j] = charge[r][j]
      /\ \A x \in Requests \ {r} : held'[x] = held[x] /\ charge'[x] = charge[x]
  BY <1>1, <1>2 DEF TypeOK
<1>4. StruckEnded' /\ StoredDone' /\ DeletionsOK'
  BY <1>2 DEF StruckEnded, StoredDone, DeletionsOK, Deleting
<1>5. UploadsPaid'
  BY <1>2, <1>3 DEF UploadsPaid
<1>6. ChargedHeld'
  BY <1>2, <1>3 DEF ChargedHeld
<1>7. HeldIsCharged'
  BY <1>1, <1>2, <1>3 DEF HeldIsCharged, TypeOK
<1>8. LiveImagesCharged'
  BY <1>2, <1>3 DEF LiveImagesCharged, StoredDone, TypeOK
<1>9. QED
  BY <1>4, <1>5, <1>6, <1>7, <1>8

\* A deletion frees the bytes of an upload that is done and holds nothing.
LEMMA FreeKeeps ==
  ASSUME TypeOK, HandlerInv, NEW r \in Requests, FreeCall(r)
  PROVE  HandlerInv'
<1> USE DEF HandlerInv
<1>1. PICK i \in todo[r] :
        /\ Release(tx[r], "storage", Size[i])
        /\ charge' = [charge EXCEPT ![i]["storage"] = 0]
        /\ todo' = [todo EXCEPT ![r] = @ \ {i}]
        /\ freed' = [freed EXCEPT ![r] = @ \cup {i}]
        /\ Goto(r, IF todo[r] = {i} THEN "commit" ELSE "free")
  BY DEF FreeCall
<1>2. /\ pc[r] = "free" /\ op[r] = "delete" /\ i \in Requests /\ pc[i] = "done"
      /\ UNCHANGED <<now, op, held, stored, struck>>
  BY <1>1 DEF FreeCall, Opened, Release, WriteRow, DeletionsOK, Deleting, TypeOK
<1>3. /\ pc'[r] \in {"free", "commit"} /\ freed'[r] = freed[r] \cup {i}
      /\ Deleting(r)' = Deleting(r)
      /\ \A x \in Requests \ {r} :
           pc'[x] = pc[x] /\ Deleting(x)' = Deleting(x) /\ freed'[x] = freed[x]
  BY <1>1 DEF Goto, Deleting, TypeOK
<1>4. \A x \in Requests : \A k \in Kinds :
        charge'[x][k] = IF x = i /\ k = "storage" THEN 0 ELSE charge[x][k]
  BY <1>1, <1>2 DEF TypeOK, Kinds
<1>5. StruckEnded' /\ StoredDone'
  BY <1>2, <1>3 DEF StruckEnded, StoredDone, TypeOK
<1>6. DeletionsOK'
  <2>1. \A x \in Requests : \A j \in Deleting(x) : j \in Requests /\ j # r
    BY <1>2 DEF DeletionsOK, Deleting, TypeOK
  <2>2. QED
    BY <1>2, <1>3, <2>1 DEF DeletionsOK
<1>7. UploadsPaid'
  BY <1>2, <1>3, <1>4 DEF UploadsPaid, Kinds
<1>8. ChargedHeld'
  BY <1>2, <1>3, <1>4 DEF ChargedHeld
<1>9. HeldIsCharged'
  BY <1>2, <1>3, <1>4 DEF HeldIsCharged, Holding, Working, TypeOK
<1>10. LiveImagesCharged'
  <2> SUFFICES ASSUME NEW j \in stored, charge'[j]["storage"] = 0
               PROVE  \E d \in Requests : j \in freed'[d] /\ pc'[d] # "done"
    BY <1>2 DEF LiveImagesCharged
  <2>1. CASE j = i
    BY <1>3, <2>1
  <2>2. CASE j # i
    <3>1. charge[j]["storage"] = 0
      BY <1>4, <2>2 DEF TypeOK, Kinds
    <3>2. PICK d \in Requests : j \in freed[d] /\ pc[d] # "done"
      BY <3>1 DEF LiveImagesCharged
    <3>3. QED
      BY <1>3, <3>2
  <2>3. QED
    BY <2>1, <2>2
<1>11. QED
  BY <1>5, <1>6, <1>7, <1>8, <1>9, <1>10

\* quota.commit(): the request keeps what it is charged for.
LEMMA KeepKeeps ==
  ASSUME TypeOK, HandlerInv, NEW r \in Requests, Register(r) \/ Settle(r)
  PROVE  HandlerInv'
<1> USE DEF HandlerInv
<1>1. /\ pc[r] \in {"register", "settle"}
      /\ UNCHANGED <<now, op, todo, freed, stored, charge, struck>>
      /\ held'[r] = {} /\ pc'[r] = "commit"
      /\ \A x \in Requests \ {r} : pc'[x] = pc[x] /\ held'[x] = held[x]
  BY DEF Register, Settle, Goto, NothingHeld, periodVars, TypeOK
<1>2. op[r] = "upload" => charge[r]["storage"] # 0
  <2>1. CASE pc[r] = "settle"
    BY <2>1 DEF UploadsPaid
  <2>2. CASE pc[r] = "register"
    BY <2>2 DEF UploadsPaid, HeldIsCharged, TypeOK, PeriodsTypeOK, Months
  <2>3. QED
    BY <1>1, <2>1, <2>2
<1>3. StruckEnded' /\ StoredDone'
  BY <1>1 DEF StruckEnded, StoredDone, TypeOK
<1>4. DeletionsOK'
  BY <1>1 DEF DeletionsOK, Deleting, TypeOK
<1>5. UploadsPaid'
  BY <1>1, <1>2 DEF UploadsPaid
<1>6. ChargedHeld' /\ HeldIsCharged'
  <2>1. op[r] # "delete"
    BY <1>1 DEF DeletionsOK, Finished
  <2>2. QED
    BY <1>1, <2>1 DEF ChargedHeld, HeldIsCharged
<1>7. LiveImagesCharged'
  BY <1>1 DEF LiveImagesCharged
<1>8. QED
  BY <1>3, <1>4, <1>5, <1>6, <1>7

LEMMA CommitKeeps ==
  ASSUME TypeOK, HandlerInv, NEW r \in Requests, Commit(r)
  PROVE  HandlerInv'
<1> USE DEF HandlerInv
<1>1. /\ pc[r] = "commit" /\ UNCHANGED <<now, op, held, todo, freed, charge, struck>>
      /\ \A x \in Requests : pc'[x] = IF x = r THEN "done" ELSE pc[x]
  BY DEF Commit, Goto, periodVars, TypeOK
<1>2. /\ \A i \in stored' : i \in stored \/ (i = r /\ op[r] = "upload")
      /\ op[r] = "delete" => freed[r] \cap stored' = {}
  BY DEF Commit
<1>3. held[r] = {}
  BY <1>1 DEF HeldIsCharged, Holding, Working
<1>4. StruckEnded' /\ StoredDone'
  BY <1>1, <1>2 DEF StruckEnded, StoredDone, TypeOK
<1>5. DeletionsOK'
  BY <1>1 DEF DeletionsOK, Deleting, Finished, TypeOK
<1>6. UploadsPaid'
  BY <1>1 DEF UploadsPaid
<1>7. ChargedHeld' /\ HeldIsCharged'
  BY <1>1, <1>3 DEF ChargedHeld, HeldIsCharged
<1>8. LiveImagesCharged'
  <2> SUFFICES ASSUME NEW i \in stored', charge[i]["storage"] = 0
               PROVE  \E d \in Requests : i \in freed[d] /\ pc'[d] # "done"
    BY <1>1 DEF LiveImagesCharged
  <2>1. i \in stored
    BY <1>1, <1>2 DEF UploadsPaid
  <2>2. PICK d \in Requests : i \in freed[d] /\ pc[d] # "done"
    BY <2>1 DEF LiveImagesCharged
  <2>3. d # r
    BY <1>2, <2>2 DEF DeletionsOK, Deleting
  <2>4. QED
    BY <1>1, <2>2, <2>3
<1>9. QED
  BY <1>4, <1>5, <1>6, <1>7, <1>8

LEMMA FaultKeeps ==
  ASSUME TypeOK, HandlerInv, NEW r \in Requests,
         FailLate(r) \/ ReleaseFails(r) \/ Crash(r)
  PROVE  HandlerInv'
<1> USE DEF HandlerInv
<1>1. /\ pc[r] \in Running /\ pc'[r] \in {"failed", "dead"}
      /\ \A x \in Requests \ {r} : pc'[x] = pc[x]
  BY DEF FailLate, ReleaseFails, Crash, Goto, Running, TypeOK
<1>2. /\ struck' = struck \cup {r} /\ held'[r] = {}
      /\ \A x \in Requests \ {r} : held'[x] = held[x]
      /\ todo'[r] = {} /\ \A x \in Requests \ {r} : todo'[x] = todo[x]
      /\ UNCHANGED <<now, op, freed, stored, charge>>
  BY DEF FailLate, ReleaseFails, Crash, Struck, NothingHeld, periodVars, TypeOK
<1>3. pc[r] \notin {"idle", "done", "failed", "dead"}
  BY <1>1 DEF Running, Reserving, Working
<1>4. StruckEnded' /\ StoredDone'
  BY <1>1, <1>2, <1>3 DEF StruckEnded, StoredDone, TypeOK
<1>5. DeletionsOK'
  <2>1. \A x \in Requests : Deleting(x)' \subseteq Deleting(x) /\ Deleting(x) \subseteq Requests
    BY <1>2 DEF Deleting, TypeOK
  <2>2. QED
    BY <1>1, <1>2, <1>3, <2>1 DEF DeletionsOK, Finished
<1>6. UploadsPaid'
  BY <1>1, <1>2 DEF UploadsPaid
<1>7. ChargedHeld' /\ HeldIsCharged'
  BY <1>1, <1>2 DEF ChargedHeld, HeldIsCharged
<1>8. LiveImagesCharged'
  BY <1>1, <1>2 DEF LiveImagesCharged
<1>9. QED
  BY <1>4, <1>5, <1>6, <1>7, <1>8

LEMMA TickKeeps ==
  ASSUME TypeOK, HandlerInv, "rollover" \notin Faults, Tick
  PROVE  HandlerInv'
<1>1. Quiet /\ UNCHANGED requestVars
  BY DEF Tick
<1>2. \A r \in Requests : held[r] = {}
  BY <1>1 DEF Quiet, HandlerInv, HeldIsCharged, Holding, Running, Reserving, Working, TypeOK
<1>3. HeldIsCharged'
  BY <1>1, <1>2 DEF HeldIsCharged, requestVars
<1>4. QED
  BY <1>1, <1>3
     DEF HandlerInv, StruckEnded, DeletionsOK, Deleting, StoredDone, UploadsPaid,
         ChargedHeld, LiveImagesCharged, requestVars

LEMMA HandlerStep ==
  ASSUME LedgerInv, HandlerInv, "rollover" \notin Faults, [Next]_vars
  PROVE  HandlerInv'
<1>0. TypeOK /\ ControlOK
  BY DEF LedgerInv, TypeInv
<1>1. ASSUME NEW r \in Requests, Arrive(r) \/ ArriveDelete(r)
      PROVE  HandlerInv'
  BY <1>0, <1>1, ArriveKeeps
<1>2. ASSUME NEW r \in Requests, ReserveCall(r)
      PROVE  HandlerInv'
  <2>1. CASE ReserveGranted(r)
    BY <1>2, <2>1, GrantKeeps
  <2>2. CASE ReserveDenied(r)
    <3>1. /\ pc' = [pc EXCEPT ![r] = "release"] /\ pc[r] \in Reserving
          /\ UNCHANGED <<now, op, held, todo, freed, stored, charge, struck>>
      BY <1>2, <2>2
         DEF ReserveDenied, ReserveCall, Opened, Reserve, TouchRow, WriteRow, Goto
    <3>2. QED
      BY <1>0, <3>1, MoveKeeps DEF Reserving, Holding, Finished
  <2>3. QED
    BY <1>2, <2>1, <2>2 DEF ReserveCall
<1>3. ASSUME NEW r \in Requests, ReleaseCall(r)
      PROVE  HandlerInv'
  BY <1>0, <1>3, ReleaseKeeps
<1>4. ASSUME NEW r \in Requests, FreeCall(r)
      PROVE  HandlerInv'
  BY <1>0, <1>4, FreeKeeps
<1>5. ASSUME NEW r \in Requests, NEW p,
             UNCHANGED <<now, op, held, freed, stored, charge, struck>>,
             todo' \in {todo, [todo EXCEPT ![r] = {}]},
             pc' = [pc EXCEPT ![r] = p],
             \/ pc[r] = "release" /\ held[r] = {} /\ p = "failed"
             \/ pc[r] = "report" /\ p = "done"
             \/ pc[r] = "validate" /\ p = "reserveStorage"
             \/ pc[r] = "rank" /\ p = "settle"
             \/ pc[r] \in Reserving \cup Working /\ p = "release"
             \/ pc[r] = "report" /\ p = "failed"
             \/ pc[r] \in {"free", "commit"} /\ op[r] = "delete" /\ p = "failed"
      PROVE  HandlerInv'
  <2>1. pc[r] \in {"report", "free", "commit"} => held[r] = {}
    BY DEF HandlerInv, HeldIsCharged, Holding, Working
  <2>2. /\ pc[r] \notin {"idle"} \cup Finished
        /\ pc[r] \in {"free", "commit"} => p = "failed" /\ op[r] = "delete"
        /\ p \notin {"idle", "free", "register", "commit", "rank"}
        /\ p = "settle" => pc[r] = "rank"
    BY <1>5 DEF Reserving, Working, Finished
  <2>3. held[r] # {} => p \in Holding
    BY <1>5, <2>1 DEF Holding
  <2>4. todo'[r] \subseteq todo[r] /\ \A x \in Requests \ {r} : todo'[x] = todo[x]
    BY <1>0, <1>5 DEF TypeOK
  <2>5. QED
    BY <1>0, <1>5, <2>2, <2>3, <2>4, MoveKeeps
<1>6. ASSUME NEW r \in Requests,
             ReleaseDone(r) \/ ReportCall(r) \/ Validate(r) \/ Rank(r) \/ Fail(r) \/ Abandon(r)
      PROVE  HandlerInv'
  <2>1. /\ UNCHANGED <<now, op, held, freed, stored, charge, struck>>
        /\ todo' \in {todo, [todo EXCEPT ![r] = {}]}
    BY <1>6 DEF ReleaseDone, ReportCall, TouchRow, WriteRow, Validate, Rank, Fail, Abandon,
                periodVars
  <2>2. pc[r] = "free" => op[r] = "delete"
    BY DEF HandlerInv, DeletionsOK
  <2>3. QED
    BY <1>5, <1>6, <2>1, <2>2
       DEF ReleaseDone, ReportCall, Opened, Validate, Rank, Fail, Abandon, Goto
<1>7. ASSUME NEW r \in Requests, Register(r) \/ Settle(r)
      PROVE  HandlerInv'
  BY <1>0, <1>7, KeepKeeps
<1>8. ASSUME NEW r \in Requests, Commit(r)
      PROVE  HandlerInv'
  BY <1>0, <1>8, CommitKeeps
<1>9. ASSUME NEW r \in Requests, FailLate(r) \/ ReleaseFails(r) \/ Crash(r)
      PROVE  HandlerInv'
  BY <1>0, <1>9, FaultKeeps
<1>10. CASE Tick
  BY <1>0, <1>10, TickKeeps
<1>11. ASSUME UNCHANGED <<now, op, pc, held, todo, freed, stored, charge, struck>>
       PROVE  HandlerInv'
  BY <1>11
     DEF HandlerInv, StruckEnded, DeletionsOK, Deleting, StoredDone, UploadsPaid, ChargedHeld,
         HeldIsCharged, LiveImagesCharged
<1>12. ASSUME NEW r \in Requests, Open(r)
       PROVE  HandlerInv'
  BY <1>11, <1>12 DEF Open, periodVars
<1>13. CASE UNCHANGED vars
  BY <1>11, <1>13 DEF vars, periodVars, requestVars
<1>14. QED
  BY <1>1, <1>2, <1>3, <1>4, <1>6, <1>7, <1>8, <1>9, <1>10, <1>12, <1>13 DEF Next, Step

LEMMA HandlerAlways ==
  ASSUME "rollover" \notin Faults
  PROVE  Spec => []HandlerInv
<1>1. Spec => []LedgerInv
  BY LedgerAlways
<1>2. Init => HandlerInv
  BY HandlerStart
<1>3. LedgerInv /\ HandlerInv /\ [Next]_vars => HandlerInv'
  BY HandlerStep
<1>4. QED
  BY <1>1, <1>2, <1>3, PTL DEF Spec

-----------------------------------------------------------------------------
\* What a handler would give back is charged to the month it gives it back to,
\* and no handler holds anything outside its pipeline.
THEOREM ReleasesMatch ==
  ASSUME "rollover" \notin Faults
  PROVE  Spec => []HeldIsCharged
<1>1. HandlerInv => HeldIsCharged
  BY DEF HandlerInv
<1>2. Spec => []HandlerInv
  BY HandlerAlways
<1>3. QED
  BY <1>1, <1>2, PTL

\* A failed upload or search never consumes quota, unless its worker died, its
\* release failed, or it failed after quota.commit() or its answer.
THEOREM FailuresAreFree ==
  ASSUME "rollover" \notin Faults
  PROVE  Spec => []FailedConsumesNothing
<1>1. TypeOK /\ HandlerInv => FailedConsumesNothing
  <2> SUFFICES ASSUME TypeOK, HandlerInv, NEW r \in Requests, pc[r] = "failed", r \notin struck
               PROVE  charge[r] = NoCharge
    BY DEF FailedConsumesNothing
  <2>1. held[r] = {}
    BY DEF HandlerInv, HeldIsCharged, Holding, Working
  <2>2. \A k \in Kinds : charge[r][k] = 0
    BY <2>1 DEF HandlerInv, ChargedHeld
  <2>3. charge[r] = [k \in Kinds |-> charge[r][k]]
    BY DEF TypeOK
  <2>4. QED
    BY <2>2, <2>3 DEF NoCharge
<1>2. Spec => []HandlerInv
  BY HandlerAlways
<1>3. QED
  BY <1>1, <1>2, TypeCorrect, PTL

\* A live image is paid for, unless a deletion gave it back and has not
\* succeeded: whichever of its faces, flushes or its commit failed, and whatever
\* else failed around it.
THEOREM ImagesPaid ==
  ASSUME "rollover" \notin Faults
  PROVE  Spec => []LiveImagesCharged
<1>1. HandlerInv => LiveImagesCharged
  BY DEF HandlerInv
<1>2. Spec => []HandlerInv
  BY HandlerAlways
<1>3. QED
  BY <1>1, <1>2, PTL
=============================================================================
