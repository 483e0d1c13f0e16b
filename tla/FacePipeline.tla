---------------------------- MODULE FacePipeline ----------------------------
(***************************************************************************)
(* The persons, images and faces of one tenant, with their stored objects  *)
(* and the cache of answers to uploads that carry an Idempotency-Key       *)
(* (app/services/face_service.py, app/api/v1/faces.py).                    *)
(*                                                                         *)
(* Every request has one READ COMMITTED transaction (get_db): it reads     *)
(* committed rows, its own writes are seen by nobody else before the       *)
(* commit, and they make others wait: a row that was updated, or a unique  *)
(* key that was entered, is taken until the transaction ends.  Stored      *)
(* objects and the cache are changed at once, whatever becomes of the      *)
(* transaction.  The quota calls in between are QuotaLedger's.             *)
(*                                                                         *)
(* An upload adds one image with one face, and both are always deleted     *)
(* together: one row stands for the two, under the name of its upload.  So *)
(* does the person an upload creates.                                      *)
(***************************************************************************)
EXTENDS Naturals, FiniteSets

CONSTANTS
  Requests,   \* the requests of a behaviour
  OpsOf,      \* OpsOf[r]: what r may turn out to be
  Sha,        \* Sha[r]: the digest of the image r uploads
  Ext,        \* Ext[r]: the external_user_id r uploads with, or Unnamed
  Key,        \* Key[r]: r's Idempotency-Key, or Unnamed
  ByPerson,   \* the uploads that may send a person_id
  Exts,       \* the external ids a person may be given
  Unnamed,    \* no external id, no key
  None,       \* no person, no face
  Faults      \* what may go wrong

VARIABLES
  op,         \* op[r]: the operation of r
  pc,         \* pc[r]: where r's handler stands
  person,     \* person[r]: the person r has resolved or loaded
  wish,       \* wish[r]: the external id r will write to its person, or "keep"
              \* when the write leaves it, or "skip" when there is no write
  todo,       \* todo[r]: the faces a deletion has yet to delete
  face,       \* face[r]: the face a deletion has in hand or a replay names
  gone,       \* gone[r]: the faces r's transaction has marked deleted
  draft,      \* draft[r]: what r's transaction has written to persons
  faces,      \* faces[r]: the committed face (and image) of upload r
  persons,    \* persons[r]: the committed person upload r created
  ext,        \* ext[r]: that person's external_user_id
  objects,    \* the uploads whose original and thumbnail are stored
  cache,      \* cache[k]: the face in the answer kept under key k
  raced,      \* history: uploads that met a deletion of their person
  struck      \* history: requests that failed after changing objects

tables == <<faces, persons, ext>>
work == <<person, wish, todo, face, gone, draft>>
history == <<raced, struck>>
vars == <<op, pc, work, tables, objects, cache, history>>

Ops == {"upload", "deleteFace", "deletePerson", "updatePerson"}
RowStates == {"none", "live", "deleted"}
Keys == {Key[r] : r \in Requests} \ {Unnamed}

\* fail: a step raises, or the worker dies.  stray: the storage refuses to delete
\* an object (_cleanup ignores that).  expire: the cache forgets a key.
FaultKinds == {"fail", "stray", "expire"}

ASSUME FaceOpsAssumption == OpsOf \in [Requests -> SUBSET Ops]
ASSUME ExtAssumption ==
  /\ Unnamed \notin Exts
  /\ {"keep", "skip"} \cap (Exts \cup {Unnamed}) = {}
  /\ Ext \in [Requests -> Exts \cup {Unnamed}]
ASSUME NoneAssumption == None \notin Requests
ASSUME FaceFaultsAssumption == Faults \subseteq FaultKinds

Uploading == {"lookup", "check", "resolve", "attach", "insert", "store", "answer"}
Deleting == {"collect", "erase", "flush", "bury"}
Running == Uploading \cup Deleting \cup {"save", "commit"}
Finished == {"done", "replayed", "rejected", "error"}

NoDraft == [person |-> None, ext |-> Unnamed, live |-> FALSE]

TypeOK ==
  /\ op \in [Requests -> Ops]
  /\ pc \in [Requests -> {"idle"} \cup Running \cup Finished]
  /\ person \in [Requests -> Requests \cup {None}]
  /\ wish \in [Requests -> Exts \cup {Unnamed, "keep", "skip"}]
  /\ todo \in [Requests -> SUBSET Requests]
  /\ face \in [Requests -> Requests \cup {None}]
  /\ gone \in [Requests -> SUBSET Requests]
  /\ draft \in [Requests -> [person : Requests \cup {None},
                             ext : Exts \cup {Unnamed}, live : BOOLEAN]]
  /\ faces \in [Requests -> RowStates]
  /\ persons \in [Requests -> RowStates]
  /\ ext \in [Requests -> Exts \cup {Unnamed}]
  /\ objects \in SUBSET Requests
  /\ cache \in [Keys -> Requests \cup {None}]
  /\ raced \in SUBSET Requests
  /\ struck \in SUBSET Requests

Init ==
  /\ op = [r \in Requests |-> "upload"]
  /\ pc = [r \in Requests |-> "idle"]
  /\ person = [r \in Requests |-> None]
  /\ wish = [r \in Requests |-> "skip"]
  /\ todo = [r \in Requests |-> {}]
  /\ face = [r \in Requests |-> None]
  /\ gone = [r \in Requests |-> {}]
  /\ draft = [r \in Requests |-> NoDraft]
  /\ faces = [r \in Requests |-> "none"]
  /\ persons = [r \in Requests |-> "none"]
  /\ ext = [r \in Requests |-> Unnamed]
  /\ objects = {}
  /\ cache = [k \in Keys |-> None]
  /\ raced = {}
  /\ struck = {}

Goto(r, place) == pc' = [pc EXCEPT ![r] = place]
Live(table) == {r \in Requests : table[r] = "live"}
Active(o) == {r \in Requests : op[r] = o /\ pc[r] \in Running}

-----------------------------------------------------------------------------
(* Locks: whom r waits for.  A transaction holds what it has written until *)
(* its request is finished.                                                *)

Others(r) == {s \in Requests \ {r} : pc[s] \in Running}

\* Mutant: fields that were not sent are written too.
NewExtRaw(r) == wish[r]

\* The external id r writes to the row of its person.
NewExt(r) == IF wish[r] \in {"keep", "skip"} THEN ext[person[r]] ELSE wish[r]

RowHolders(r) == {s \in Others(r) : draft[s].person = person[r]}

\* Those adding or removing the key of ux_persons_tenant_external that r enters;
\* the index leaves deleted persons out.
KeyHolders(r) ==
  {s \in Others(r) :
     LET q == draft[s].person IN
     /\ q \notin {None, person[r]}
     /\ persons[q] # "deleted"
     /\ NewExt(r) \in {draft[s].ext, ext[q]} \ {Unnamed}}

\* The same for ux_images_tenant_sha256, which deleted images stay in.
ImageHolders(r) ==
  {s \in Others(r) :
     \/ op[s] = "upload" /\ pc[s] \in {"store", "answer", "commit"} /\ Sha[s] = Sha[r]
     \/ \E i \in gone[s] : Sha[i] = Sha[r]}

Blockers(r) ==
  CASE pc[r] \in {"attach", "save"} ->
         IF persons[person[r]] = "deleted" THEN RowHolders(r)
         ELSE RowHolders(r) \cup KeyHolders(r)
    [] pc[r] = "bury"   -> RowHolders(r)
    [] pc[r] = "insert" -> ImageHolders(r)
    [] pc[r] = "flush"  -> {s \in Others(r) : face[r] \in gone[s]}
    [] OTHER            -> {}

\* r is on a cycle of waiting transactions.
Deadlocked(r) ==
  \E S \in SUBSET Requests :
    /\ r \in S
    /\ \A s \in S : Blockers(s) \cap S # {} /\ \E t \in S : s \in Blockers(t)

-----------------------------------------------------------------------------
(* Uploads.                                                                *)

ArriveUpload(r) ==
  /\ pc[r] = "idle" /\ "upload" \in OpsOf[r]
  /\ \/ UNCHANGED person
     \/ /\ r \in ByPerson
        /\ \E p \in Requests : persons[p] # "none" /\ person' = [person EXCEPT ![r] = p]
  /\ Goto(r, IF Key[r] = Unnamed THEN "check" ELSE "lookup")
  /\ UNCHANGED <<op, wish, todo, face, gone, draft, tables, objects, cache, history>>

\* redis.get of the idempotency key.
Replay(r) ==
  /\ pc[r] = "lookup" /\ cache[Key[r]] # None
  /\ face' = [face EXCEPT ![r] = cache[Key[r]]]
  /\ Goto(r, "replayed")
  /\ UNCHANGED <<op, person, wish, todo, gone, draft, tables, objects, cache, history>>

Miss(r) ==
  /\ pc[r] = "lookup" /\ cache[Key[r]] = None
  /\ Goto(r, "check")
  /\ UNCHANGED <<op, work, tables, objects, cache, history>>

\* The duplicate check among the images that are not deleted.
Check(r) ==
  /\ pc[r] = "check"
  /\ Goto(r, IF \E i \in Live(faces) : Sha[i] = Sha[r] THEN "rejected" ELSE "resolve")
  /\ UNCHANGED <<op, work, tables, objects, cache, history>>

\* upsert_person up to its flush: the person r resolves to and what it writes.
Resolved(r, p, w) ==
  /\ person' = [person EXCEPT ![r] = p]
  /\ wish' = [wish EXCEPT ![r] = w]
  /\ Goto(r, IF w = "skip" THEN "insert" ELSE "attach")
  /\ raced' = IF \E d \in Active("deletePerson") : person[d] = p
              THEN raced \cup {r} ELSE raced
  /\ UNCHANGED <<op, todo, face, gone, draft, tables, objects, cache, struck>>

\* Mutant: get_person does not look at deleted_at.
ResolveByIdAny(r) ==
  /\ pc[r] = "resolve" /\ person[r] # None /\ persons[person[r]] # "none"
  /\ \E w \in {"keep", "skip"} : Resolved(r, person[r], w)

\* person_id is given: the person is loaded, and its fields are set.
ResolveById(r) ==
  LET p == person[r] IN
  /\ pc[r] = "resolve" /\ p # None /\ persons[p] = "live"
  /\ IF Ext[r] \in {Unnamed, ext[p]}
     THEN \E w \in {"keep", "skip"} : Resolved(r, p, w)
     ELSE Resolved(r, p, Ext[r])

PersonNotFound(r) ==
  /\ pc[r] = "resolve" /\ person[r] # None /\ persons[person[r]] # "live"
  /\ Goto(r, "rejected")
  /\ UNCHANGED <<op, work, tables, objects, cache, history>>

Named(r) == {p \in Live(persons) : ext[p] = Ext[r] /\ Ext[r] # Unnamed}

ResolveByExt(r) ==
  /\ pc[r] = "resolve" /\ person[r] = None
  /\ \E p \in Named(r), w \in {"keep", "skip"} : Resolved(r, p, w)

ResolveNew(r) ==
  /\ pc[r] = "resolve" /\ person[r] = None /\ Named(r) = {}
  /\ Resolved(r, r, Ext[r])

\* Mutant: the unique index is only looked at when a person is created.
TakenByNew(r) ==
  /\ persons[person[r]] = "none"
  /\ \E q \in Live(persons) : ext[q] = NewExt(r) /\ ext[q] # Unnamed

\* Another live person already has the external id.
Taken(r) ==
  /\ persons[person[r]] # "deleted" /\ NewExt(r) # Unnamed
  /\ \E q \in Live(persons) \ {person[r]} : ext[q] = NewExt(r)

\* The INSERT or UPDATE of a person, or its IntegrityError.
WritePerson(r, live, next) ==
  /\ Blockers(r) = {}
  /\ IF live /\ Taken(r)
     THEN Goto(r, "error") /\ UNCHANGED draft
     ELSE /\ draft' = [draft EXCEPT ![r] =
                        [person |-> person[r], ext |-> NewExt(r), live |-> live]]
          /\ Goto(r, next)
  /\ UNCHANGED <<op, person, wish, todo, face, gone, tables, objects, cache, history>>

Attach(r) == pc[r] = "attach" /\ WritePerson(r, TRUE, "insert")

\* Mutant: the constraint leaves deleted images out.
InsertPartial(r) ==
  /\ pc[r] = "insert"
  /\ Blockers(r) = {}
  /\ Goto(r, IF \E i \in Live(faces) : Sha[i] = Sha[r] THEN "error" ELSE "store")
  /\ UNCHANGED <<op, work, tables, objects, cache, history>>

\* Mutant: the answer is kept as soon as the image has its id.
InsertAndCache(r) ==
  /\ pc[r] = "insert"
  /\ Blockers(r) = {}
  /\ IF \E i \in Requests : faces[i] # "none" /\ Sha[i] = Sha[r]
     THEN Goto(r, "error") /\ UNCHANGED cache
     ELSE Goto(r, "store") /\ cache' = [k \in Keys |-> IF k = Key[r] THEN r ELSE cache[k]]
  /\ UNCHANGED <<op, work, tables, objects, history>>

\* The INSERT of the image, or its IntegrityError.
Insert(r) ==
  /\ pc[r] = "insert"
  /\ Blockers(r) = {}
  /\ Goto(r, IF \E i \in Requests : faces[i] # "none" /\ Sha[i] = Sha[r]
             THEN "error" ELSE "store")
  /\ UNCHANGED <<op, work, tables, objects, cache, history>>

\* store_image.
Store(r) ==
  /\ pc[r] = "store"
  /\ objects' = objects \cup {r}
  /\ Goto(r, "answer")
  /\ UNCHANGED <<op, work, tables, cache, history>>

\* The face, the logs and the redis.set of the answer.
Answer(r) ==
  /\ pc[r] = "answer"
  /\ cache' = [k \in Keys |-> IF k = Key[r] THEN r ELSE cache[k]]
  /\ Goto(r, "commit")
  /\ UNCHANGED <<op, work, tables, objects, history>>

-----------------------------------------------------------------------------
(* Deletions and updates.                                                  *)

ArriveDeleteFace(r) ==
  /\ pc[r] = "idle" /\ "deleteFace" \in OpsOf[r]
  /\ \E f \in Live(faces) : todo' = [todo EXCEPT ![r] = {f}]
  /\ op' = [op EXCEPT ![r] = "deleteFace"]
  /\ Goto(r, "erase")
  /\ UNCHANGED <<person, wish, face, gone, draft, tables, objects, cache, history>>

ArriveDeletePerson(r) ==
  /\ pc[r] = "idle" /\ "deletePerson" \in OpsOf[r]
  /\ \E p \in Live(persons) :
       /\ person' = [person EXCEPT ![r] = p]
       /\ raced' = raced \cup {s \in Active("upload") : person[s] = p}
  /\ op' = [op EXCEPT ![r] = "deletePerson"]
  /\ Goto(r, "collect")
  /\ UNCHANGED <<wish, todo, face, gone, draft, tables, objects, cache, struck>>

\* The SELECT of the person's faces.
Collect(r) ==
  /\ pc[r] = "collect"
  /\ todo' = [todo EXCEPT ![r] = {f \in Live(faces) : person[f] = person[r]}]
  /\ Goto(r, IF todo'[r] = {} THEN "bury" ELSE "erase")
  /\ UNCHANGED <<op, person, wish, face, gone, draft, tables, objects, cache, history>>

\* Mutant: the objects are left in the storage.
EraseNothing(r) ==
  /\ pc[r] = "erase"
  /\ \E f \in todo[r] : face' = [face EXCEPT ![r] = f]
  /\ Goto(r, "flush")
  /\ UNCHANGED <<op, person, wish, todo, gone, draft, tables, objects, cache, history>>

\* _delete_face_row up to its flush: the objects go before the row does.
Erase(r) ==
  /\ pc[r] = "erase"
  /\ \E f \in todo[r] :
       /\ face' = [face EXCEPT ![r] = f]
       /\ \/ objects' = objects \ {f} /\ UNCHANGED struck
          \/ "stray" \in Faults /\ UNCHANGED objects /\ struck' = struck \cup {r}
  /\ Goto(r, "flush")
  /\ UNCHANGED <<op, person, wish, todo, gone, draft, tables, cache, raced>>

\* Mutant: the rows are not marked deleted.
FlushUnmarked(r) ==
  /\ pc[r] = "flush"
  /\ todo' = [todo EXCEPT ![r] = @ \ {face[r]}]
  /\ Goto(r, IF todo'[r] # {} THEN "erase"
             ELSE IF op[r] = "deletePerson" THEN "bury" ELSE "commit")
  /\ UNCHANGED <<op, person, wish, face, gone, draft, tables, objects, cache, history>>

\* Mutant: a deleted face stays on the list of those to delete.
FlushAgain(r) ==
  /\ pc[r] = "flush"
  /\ Blockers(r) = {}
  /\ gone' = [gone EXCEPT ![r] = @ \cup {face[r]}]
  /\ Goto(r, "erase")
  /\ UNCHANGED <<op, person, wish, todo, face, draft, tables, objects, cache, history>>

\* The UPDATE of the face and its image.
Flush(r) ==
  /\ pc[r] = "flush"
  /\ Blockers(r) = {}
  /\ gone' = [gone EXCEPT ![r] = @ \cup {face[r]}]
  /\ todo' = [todo EXCEPT ![r] = @ \ {face[r]}]
  /\ Goto(r, IF todo'[r] # {} THEN "erase"
             ELSE IF op[r] = "deletePerson" THEN "bury" ELSE "commit")
  /\ UNCHANGED <<op, person, wish, face, draft, tables, objects, cache, history>>

\* The UPDATE that sets the person's deleted_at.
Bury(r) == pc[r] = "bury" /\ WritePerson(r, FALSE, "commit")

ArriveUpdate(r) ==
  /\ pc[r] = "idle" /\ "updatePerson" \in OpsOf[r]
  /\ \E p \in Live(persons), w \in Exts \cup {Unnamed, "keep"} :
       /\ person' = [person EXCEPT ![r] = p]
       /\ wish' = [wish EXCEPT ![r] = w]
  /\ op' = [op EXCEPT ![r] = "updatePerson"]
  /\ Goto(r, "save")
  /\ UNCHANGED <<todo, face, gone, draft, tables, objects, cache, history>>

Save(r) == pc[r] = "save" /\ WritePerson(r, TRUE, "commit")

-----------------------------------------------------------------------------
(* How requests end.                                                       *)

\* Mutant: writing a person clears its deleted_at.
RowAfterRevived(row, live) == IF live THEN "live" ELSE "deleted"

\* A person's row once it is written: an UPDATE does not look at deleted_at, and
\* does not clear it.
RowAfter(row, live) == IF live /\ row # "deleted" THEN "live" ELSE "deleted"

\* get_db's session.commit().
Commit(r) ==
  LET p == draft[r].person IN
  /\ pc[r] = "commit"
  /\ faces' = [f \in Requests |->
                 IF f \in gone[r] THEN "deleted"
                 ELSE IF f = r /\ op[r] = "upload" THEN "live" ELSE faces[f]]
  /\ persons' = [q \in Requests |->
                   IF q = p THEN RowAfter(persons[q], draft[r].live) ELSE persons[q]]
  /\ ext' = [q \in Requests |-> IF q = p THEN draft[r].ext ELSE ext[q]]
  /\ Goto(r, "done")
  /\ UNCHANGED <<op, work, objects, cache, history>>

\* r ends without an answer: its transaction rolls back, what it did to the
\* objects stays.
Break(r) ==
  /\ Goto(r, "error")
  /\ struck' = IF r \in objects \/ (op[r] # "upload" /\ face[r] # None)
               THEN struck \cup {r} ELSE struck
  /\ UNCHANGED <<op, work, tables, objects, cache, raced>>

\* A step raises (a rejected image, a lost connection, a failing commit), or the
\* worker dies.
Fail(r) == "fail" \in Faults /\ pc[r] \in Running /\ Break(r)

\* store_image fails and its clean-up does too.
StoreFails(r) ==
  /\ "stray" \in Faults /\ pc[r] = "store"
  /\ objects' = objects \cup {r}
  /\ struck' = struck \cup {r}
  /\ Goto(r, "error")
  /\ UNCHANGED <<op, work, tables, cache, raced>>

\* PostgreSQL aborts a transaction of a cycle of waiting ones.
Victim(r) == pc[r] \in Running /\ Deadlocked(r) /\ Break(r)

Expire ==
  /\ "expire" \in Faults
  /\ \E k \in Keys : cache[k] # None /\ cache' = [cache EXCEPT ![k] = None]
  /\ UNCHANGED <<op, pc, work, tables, objects, history>>

-----------------------------------------------------------------------------
Arrive(r) ==
  \/ ArriveUpload(r) \/ ArriveDeleteFace(r) \/ ArriveDeletePerson(r) \/ ArriveUpdate(r)

Step(r) ==
  \/ Replay(r) \/ Miss(r) \/ Check(r)
  \/ ResolveById(r) \/ PersonNotFound(r) \/ ResolveByExt(r) \/ ResolveNew(r)
  \/ Attach(r) \/ Insert(r) \/ Store(r) \/ Answer(r)
  \/ Collect(r) \/ Erase(r) \/ Flush(r) \/ Bury(r) \/ Save(r)
  \/ Commit(r) \/ Victim(r)

Next ==
  \/ \E r \in Requests :
       Arrive(r) \/ Step(r) \/ Fail(r) \/ StoreFails(r)
  \/ Expire

Spec == Init /\ [][Next]_vars

\* The event loop runs every handler on, and PostgreSQL grants freed locks.
FairSpec == Spec /\ \A r \in Requests : WF_vars(Step(r))
-----------------------------------------------------------------------------
(* Properties.                                                             *)

\* A retried upload registers its image once, whatever the cache lost: no two
\* committed images, deleted ones included, have the same digest.
RetriesRegisterOnce ==
  \A r, s \in Requests :
    faces[r] # "none" /\ faces[s] # "none" /\ Sha[r] = Sha[s] => r = s

\* "external_user_id (upsert within your tenant)": uploads, renames and
\* deletions that race never leave two live persons with one external id.
OnePersonPerExternalId ==
  \A p, q \in Live(persons) : ext[p] = ext[q] /\ ext[p] # Unnamed => p = q

\* A registered face has its objects, but for one a deletion took in hand and
\* did not commit.
LiveFacesStored ==
  \A f \in Live(faces) : f \notin objects =>
    \E d \in Requests : op[d] # "upload" /\ pc[d] # "done"
                        /\ f \in gone[d] \cup {face[d]}

\* When nothing runs and no request failed past its first change of the
\* storage, the stored objects are exactly those of the live faces.
ObjectsMatchFaces ==
  (\A r \in Requests : pc[r] \notin Running) /\ struck = {} => objects = Live(faces)

\* "Delete person and all their faces": no live face of a deleted person.
FacesHavePersons ==
  \A f \in Live(faces) : persons[person[f]] = "live"

\* The same but for the uploads that ran into the deletion.
OrphansRaced ==
  \A f \in Live(faces) \ raced : persons[person[f]] = "live"

\* "Use the Idempotency-Key header to make retries safe": once nothing runs, the
\* face a replayed answer names is registered.
ReplaysRegistered ==
  (\A r \in Requests : pc[r] \notin Running) =>
    \A r \in Requests : pc[r] = "replayed" => faces[face[r]] # "none"

\* A replayed answer names a registered face, while the upload that kept it has
\* not failed at its commit.
ReplaysAccounted ==
  \A r \in Requests : pc[r] = "replayed" =>
    faces[face[r]] # "none" \/ pc[face[r]] = "commit" \/ face[r] \in struck

Registry == INSTANCE FaceRegistry
  WITH owner <- [f \in Requests |-> IF faces[f] = "none" THEN None ELSE person[f]]

\* "Delete person and all their faces", "upsert within your tenant": seen through
\* the committed rows every handler does one thing at once.  Its checks of the
\* digest, the external id and the person, made steps before the commit, hold at
\* the commit, but for a person whose deletion the upload met.
KeepsRegistry == Registry!Spec

\* Every request is answered: no wait for a lock is endless.
Answered == \A r \in Requests : pc[r] \in Running ~> pc[r] \in Finished
=============================================================================
