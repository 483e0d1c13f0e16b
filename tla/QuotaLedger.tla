----------------------------- MODULE QuotaLedger -----------------------------
(***************************************************************************)
(* The requests of one tenant that reserve, keep and give back quota:      *)
(* uploads, searches, deletions of a face or of a person with all faces,   *)
(* and reads of the usage page (quota_service.QuotaReservation,            *)
(* face_service.upload_face, search_face, delete_face, delete_person) over *)
(* the counters of UsagePeriods.                                           *)
(*                                                                         *)
(* A request runs in a database transaction of its own (get_db) that       *)
(* commits after the handler; reserve and release commit separately, and   *)
(* at once: a deletion of several faces gives back one image after the     *)
(* other before its own commit, and may fail between them.  What the       *)
(* pipeline does between two quota calls is one step here: it succeeds, or *)
(* it raises.                                                              *)
(***************************************************************************)
EXTENDS UsagePeriods, FiniteSetsExt

CONSTANTS
  Requests,   \* the requests of a behaviour; an upload also names its image
  Size,       \* Size[r]: bytes of the image (and thumbnail) r uploads
  OpsOf,      \* OpsOf[r]: the operations r may turn out to be
  PersonOf,   \* PersonOf[r]: the person an upload r registers its face under
  Faults      \* what may go wrong besides an ordinary failing step

VARIABLES
  op,         \* op[r]: the operation of r
  pc,         \* pc[r]: where r's handler stands
  held,       \* held[r]: the kinds in r's QuotaReservation._held
  tx,         \* tx[r]: r's open usage transaction
  todo,       \* todo[r]: images a deletion has read live and not yet freed
  freed,      \* freed[r]: images whose bytes a deletion has given back
  stored,     \* images whose row is committed and not deleted
  charge,     \* history: charge[r][k] is the month r's k was added to, 0 once
              \* it was given back (the code does not keep it)
  struck      \* history: the requests a fault of Faults has hit

requestVars == <<op, pc, held, tx, todo, freed, stored, charge, struck>>
vars == <<periodVars, requestVars>>

Ops == {"upload", "search", "delete", "report"}

\* rollover: the month turns while requests are running.  crash: the worker of
\* a request dies.  late: an upload or a search fails after quota.commit(), or a
\* search after it has set its status.  release: release_all itself raises.
\* redelete: an image is deleted again while an earlier deletion of it runs.
\* retry: it is deleted again after a deletion that gave it back has failed.
FaultKinds == {"rollover", "crash", "late", "release", "redelete", "retry"}

ASSUME RequestsAssumption == IsFiniteSet(Requests)
ASSUME SizeAssumption == Size \in [Requests -> Nat \ {0}]
ASSUME OpsAssumption == OpsOf \in [Requests -> SUBSET Ops]
ASSUME FaultsAssumption == Faults \subseteq FaultKinds

\* A handler's places, named for what it does next.
Reserving == {"reserve", "reserveStorage"}
Working == {"validate", "register", "rank"}
Running == Reserving \cup Working
           \cup {"settle", "commit", "release", "free", "report"}
Holding == Working \cup {"reserveStorage", "settle", "release"}
Finished == {"done", "failed", "dead"}

KindOf(r) == IF pc[r] = "reserveStorage" THEN "storage" ELSE op[r]
AfterGrant == [upload |-> "validate", storage |-> "register", search |-> "rank"]
Quantity(r, k) == IF k = "storage" THEN Size[r] ELSE 1

NothingHeld == {}
NoCharge == [k \in Kinds |-> 0]

TypeOK ==
  /\ PeriodsTypeOK
  /\ op \in [Requests -> Ops]
  /\ pc \in [Requests -> {"idle"} \cup Running \cup Finished]
  /\ held \in [Requests -> SUBSET Kinds]
  /\ tx \in [Requests -> OpenTx \cup {NoTx}]
  /\ todo \in [Requests -> SUBSET Requests]
  /\ freed \in [Requests -> SUBSET Requests]
  /\ stored \in SUBSET Requests
  /\ charge \in [Requests -> [Kinds -> Months \cup {0}]]
  /\ struck \in SUBSET Requests

Init ==
  /\ PeriodsInit
  /\ op = [r \in Requests |-> "report"]
  /\ pc = [r \in Requests |-> "idle"]
  /\ held = [r \in Requests |-> NothingHeld]
  /\ tx = [r \in Requests |-> NoTx]
  /\ todo = [r \in Requests |-> {}]
  /\ freed = [r \in Requests |-> {}]
  /\ stored = {}
  /\ charge = [r \in Requests |-> NoCharge]
  /\ struck = {}

Goto(r, place) == pc' = [pc EXCEPT ![r] = place]
CloseTx(r) == tx' = [tx EXCEPT ![r] = NoTx]

-----------------------------------------------------------------------------
(* Requests arrive.                                                        *)

Arrive(r) ==
  /\ pc[r] = "idle"
  /\ \E o \in OpsOf[r] \ {"delete"} :
       /\ op' = [op EXCEPT ![r] = o]
       /\ Goto(r, IF o = "report" THEN "report" ELSE "reserve")
  /\ UNCHANGED <<periodVars, held, tx, todo, freed, stored, charge, struck>>

\* What a deletion may read: one live face, or all those of a person that has
\* any.  Their images are loaded with them (Face.image is joined).
Deletable ==
  {{i} : i \in stored} \cup {{j \in stored : PersonOf[j] = PersonOf[i]} : i \in stored}

\* The images a deletion has in hand, or has given back.
Deleting(d) == todo[d] \cup freed[d]

Again(d) == IF pc[d] \in Running THEN "redelete" ELSE "retry"

ArriveDelete(r) ==
  /\ pc[r] = "idle"
  /\ "delete" \in OpsOf[r]
  /\ \E S \in Deletable :
       /\ \A d \in Requests : S \cap Deleting(d) # {} => Again(d) \in Faults
       /\ todo' = [todo EXCEPT ![r] = S]
  /\ op' = [op EXCEPT ![r] = "delete"]
  /\ Goto(r, "free")
  /\ UNCHANGED <<periodVars, held, tx, freed, stored, charge, struck>>

-----------------------------------------------------------------------------
(* Usage transactions.                                                     *)

WantsTx(r) ==
  \/ pc[r] \in Reserving \cup {"free", "report"}
  \/ pc[r] = "release" /\ held[r] # {}

\* The first half of get_or_create_period.
Open(r) ==
  /\ WantsTx(r)
  /\ tx[r] = NoTx
  /\ \E t \in OpenedTx : tx' = [tx EXCEPT ![r] = t]
  /\ UNCHANGED <<periodVars, op, pc, held, todo, freed, stored, charge, struck>>

Opened(r, place) == pc[r] = place /\ tx[r] # NoTx

\* reserve(), and reserve_upload, reserve_search or reserve_storage around it.
ReserveGranted(r) ==
  LET k == KindOf(r) IN
  /\ Granted(tx[r], k, Quantity(r, k))
  /\ held' = [held EXCEPT ![r] = @ \cup {k}]
  /\ charge' = [charge EXCEPT ![r][k] = tx[r].start]
  /\ Goto(r, AfterGrant[k])

\* Mutant: the reservation is noted before its answer is known.
ReserveDeniedHeld(r) ==
  /\ ~Granted(tx[r], KindOf(r), Quantity(r, KindOf(r)))
  /\ held' = [held EXCEPT ![r] = @ \cup {KindOf(r)}]
  /\ Goto(r, "release")
  /\ UNCHANGED charge

ReserveDenied(r) ==
  /\ ~Granted(tx[r], KindOf(r), Quantity(r, KindOf(r)))
  /\ Goto(r, "release")
  /\ UNCHANGED <<held, charge>>

ReserveCall(r) ==
  /\ \E place \in Reserving : Opened(r, place)
  /\ Reserve(tx[r], KindOf(r), Quantity(r, KindOf(r)))
  /\ ReserveGranted(r) \/ ReserveDenied(r)
  /\ CloseTx(r)
  /\ UNCHANGED <<op, todo, freed, stored, struck>>

\* Mutant: release_all does not clear _held.
ReleaseCallKept(r) ==
  /\ Opened(r, "release")
  /\ \E k \in held[r] :
       /\ Release(tx[r], k, Quantity(r, k))
       /\ charge' = [charge EXCEPT ![r][k] = 0]
  /\ CloseTx(r)
  /\ UNCHANGED <<op, pc, held, todo, freed, stored, struck>>

\* One round of release_all's loop; _held lists the upload before its storage.
ReleaseCall(r) ==
  /\ Opened(r, "release")
  /\ \E k \in held[r] :
       /\ k = "storage" => "upload" \notin held[r]
       /\ Release(tx[r], k, Quantity(r, k))
       /\ held' = [held EXCEPT ![r] = @ \ {k}]
       /\ charge' = [charge EXCEPT ![r][k] = 0]
  /\ CloseTx(r)
  /\ UNCHANGED <<op, pc, todo, freed, stored, struck>>

\* Mutant: release_all gives back one reservation only.
ReleaseDoneEarly(r) ==
  /\ pc[r] = "release" /\ Cardinality(held[r]) < 2
  /\ Goto(r, "failed")
  /\ UNCHANGED <<periodVars, op, held, tx, todo, freed, stored, charge, struck>>

\* release_all is through and the exception goes on to the client.
ReleaseDone(r) ==
  /\ pc[r] = "release" /\ held[r] = {}
  /\ Goto(r, "failed")
  /\ UNCHANGED <<periodVars, op, held, tx, todo, freed, stored, charge, struck>>

\* One _delete_face_row: release_storage of the face's image, committed at once
\* and before the deletion itself is; the next listed face follows.
FreeCall(r) ==
  /\ Opened(r, "free")
  /\ \E i \in todo[r] :
       /\ Release(tx[r], "storage", Size[i])
       /\ charge' = [charge EXCEPT ![i]["storage"] = 0]
       /\ todo' = [todo EXCEPT ![r] = @ \ {i}]
       /\ freed' = [freed EXCEPT ![r] = @ \cup {i}]
       /\ Goto(r, IF todo[r] = {i} THEN "commit" ELSE "free")
  /\ CloseTx(r)
  /\ UNCHANGED <<op, held, stored, struck>>

\* The usage page: get_or_create_period, and nothing is counted.
ReportCall(r) ==
  /\ Opened(r, "report")
  /\ TouchRow(tx[r])
  /\ CloseTx(r)
  /\ Goto(r, "done")
  /\ UNCHANGED <<op, held, todo, freed, stored, charge, struck>>

-----------------------------------------------------------------------------
(* The handlers between the usage transactions.                            *)

\* validate_image and make_thumbnail return.
Validate(r) ==
  /\ pc[r] = "validate"
  /\ Goto(r, "reserveStorage")
  /\ UNCHANGED <<periodVars, op, held, tx, todo, freed, stored, charge, struck>>

\* From the duplicate check to log_usage, then quota.commit().
Register(r) ==
  /\ pc[r] = "register"
  /\ held' = [held EXCEPT ![r] = NothingHeld]
  /\ Goto(r, "commit")
  /\ UNCHANGED <<periodVars, op, tx, todo, freed, stored, charge, struck>>

\* The vector search has its answer and log_row.status is match or no_match.
Rank(r) ==
  /\ pc[r] = "rank"
  /\ Goto(r, "settle")
  /\ UNCHANGED <<periodVars, op, held, tx, todo, freed, stored, charge, struck>>

\* log_usage of a search, then quota.commit().
Settle(r) ==
  /\ pc[r] = "settle"
  /\ held' = [held EXCEPT ![r] = NothingHeld]
  /\ Goto(r, "commit")
  /\ UNCHANGED <<periodVars, op, tx, todo, freed, stored, charge, struck>>

\* Mutant: a deletion does not mark the image deleted.
CommitUnmarked(r) ==
  /\ pc[r] = "commit"
  /\ stored' = IF op[r] = "upload" THEN stored \cup {r} ELSE stored
  /\ Goto(r, "done")
  /\ UNCHANGED <<periodVars, op, held, tx, todo, freed, charge, struck>>

\* The rest of the handler, and get_db's session.commit().
Commit(r) ==
  /\ pc[r] = "commit"
  /\ stored' = CASE op[r] = "upload" -> stored \cup {r}
                 [] op[r] = "delete" -> stored \ freed[r]
                 [] OTHER            -> stored
  /\ Goto(r, "done")
  /\ UNCHANGED <<periodVars, op, held, tx, todo, freed, charge, struck>>

\* A step before quota.commit() raises (a rejected image, a duplicate, an
\* integrity error, a lost connection); an open usage transaction rolls back.
Fail(r) ==
  /\ pc[r] \in Reserving \cup Working
  /\ CloseTx(r)
  /\ Goto(r, "release")
  /\ UNCHANGED <<periodVars, op, held, todo, freed, stored, charge, struck>>

\* The usage page raises, or a deletion does: at the release or the flush of any
\* of its faces, or at its commit.  Its request rolls back, so every face of it
\* stays live, but what it has freed stays freed.
Abandon(r) ==
  /\ pc[r] \in {"free", "report"} \/ (pc[r] = "commit" /\ op[r] = "delete")
  /\ todo' = [todo EXCEPT ![r] = {}]
  /\ CloseTx(r)
  /\ Goto(r, "failed")
  /\ UNCHANGED <<periodVars, op, held, freed, stored, charge, struck>>

-----------------------------------------------------------------------------
(* Faults.                                                                 *)

Struck(r, fault) ==
  /\ fault \in Faults
  /\ struck' = struck \cup {r}
  /\ held' = [held EXCEPT ![r] = NothingHeld]
  /\ todo' = [todo EXCEPT ![r] = {}]
  /\ CloseTx(r)
  /\ UNCHANGED <<periodVars, op, freed, stored, charge>>

\* The status is already match, no_match or success: nothing is released.
FailLate(r) ==
  /\ pc[r] = "settle" \/ (pc[r] = "commit" /\ op[r] # "delete")
  /\ Goto(r, "failed")
  /\ Struck(r, "late")

\* release() raises in release_all's loop; the rest of _held is never released.
ReleaseFails(r) ==
  /\ pc[r] = "release" /\ held[r] # {}
  /\ Goto(r, "failed")
  /\ Struck(r, "release")

Crash(r) ==
  /\ pc[r] \in Running
  /\ Goto(r, "dead")
  /\ Struck(r, "crash")

Quiet == \A r \in Requests : pc[r] \notin Running

Tick ==
  /\ Quiet \/ "rollover" \in Faults
  /\ NextMonth
  /\ UNCHANGED requestVars

-----------------------------------------------------------------------------
Step(r) ==
  \/ Open(r) \/ ReserveCall(r) \/ ReleaseCall(r) \/ ReleaseDone(r)
  \/ FreeCall(r) \/ ReportCall(r)
  \/ Validate(r) \/ Register(r) \/ Rank(r) \/ Settle(r) \/ Commit(r)
  \/ Fail(r) \/ Abandon(r)

Next ==
  \/ \E r \in Requests :
       \/ Arrive(r) \/ ArriveDelete(r) \/ Step(r)
       \/ FailLate(r) \/ ReleaseFails(r) \/ Crash(r)
  \/ Tick

Spec == Init /\ [][Next]_vars
-----------------------------------------------------------------------------
(* Properties.                                                             *)

Charged(k, m) == {r \in Requests : charge[r][k] = m}

Bytes(S) == MapThenSumSet(LAMBDA r : Size[r], S)

\* Every month's upload and search counters are exactly the operations counted
\* in that month and not given back: no interleaving of reserve and release in
\* their separate transactions loses or repeats an update.
CountersExact ==
  \A k \in CountedKinds, m \in Months : used[m][k] = Cardinality(Charged(k, m))

\* What a handler would give back is still charged, to the month its release
\* will reach, and no handler holds anything outside its pipeline.
HeldIsCharged ==
  \A r \in Requests : \A k \in held[r] :
    charge[r][k] = now /\ pc[r] \in Holding

\* The newest row's storage_used is exactly the bytes reserved or stored and not
\* freed, over months: a new month's row carries the previous one's storage.
StorageExact ==
  \A m \in rows : (\A n \in rows : n <= m) =>
    used[m]["storage"] =
      Bytes({r \in Requests : charge[r]["storage"] # 0})

\* "Callers must release on failure so a failed upload/search never consumes
\* quota": a request that failed without a fault has given everything back.
FailedConsumesNothing ==
  \A r \in Requests : pc[r] = "failed" /\ r \notin struck => charge[r] = NoCharge

\* The same for every failed request, whatever made it fail.
NoFailureConsumes ==
  \A r \in Requests : pc[r] = "failed" => charge[r] = NoCharge

\* "Concurrent requests cannot overspend": the uploads (searches) of a month
\* that succeeded stay within the package's limit.
SuccessesWithinLimit ==
  \A k \in CountedKinds, m \in Months :
    Limit[k] # UNLIMITED =>
      Cardinality({r \in Charged(k, m) : pc[r] = "done"}) <= Limit[k]

\* The images a deletion gave back and, failing or dying later, did not delete.
Refunded ==
  UNION {freed[d] : d \in {e \in Requests : pc[e] \in {"failed", "dead"}}}

\* "Concurrent requests cannot overspend": once no request runs, the live images
\* of the tenant fit in its storage limit, but for those a failed deletion has
\* given back.
StoredWithinLimit ==
  Quiet /\ Limit["storage"] # UNLIMITED =>
    Bytes(stored \ Refunded) <= Limit["storage"]

\* A live image is paid for, unless a deletion gave its bytes back and has not
\* succeeded: it has yet to commit, or it failed at a later face, at a flush, at
\* its commit or with its worker.
LiveImagesCharged ==
  \A i \in stored : charge[i]["storage"] = 0 =>
    \E d \in Requests : i \in freed[d] /\ pc[d] # "done"

Promise == INSTANCE QuotaPromise
  WITH Kinds <- CountedKinds, Operations <- Requests,
       Cap <- Limit, Unlimited <- UNLIMITED,
       month <- now,
       granted <- [r \in Requests |-> [k \in CountedKinds |-> charge[r][k]]]

\* "Safe under concurrent requests because the check and the increment happen in
\* a single UPDATE": seen through the operations its counters stand for, every
\* step of reserve and release_all, in their two-part transactions, is one grant
\* within the limit, one return within the month, or nothing.
KeepsPromise == Promise!Spec
=============================================================================
