-------------------------- MODULE FaceRegistryProofs -------------------------
(***************************************************************************)
(* FacePipeline implements FaceRegistry, for every set of requests and     *)
(* whatever fails: the commit of an upload, of a deletion and of a rename  *)
(* is one operation on what is registered at that moment, and no other     *)
(* step of a handler can be told from none.                                *)
(***************************************************************************)
EXTENDS FaceProofs

\* The faces a deletion has listed, has in hand or has deleted.
InHand(d) == todo[d] \cup gone[d] \cup ({face[d]} \ {None})

\* What a deletion is about does not change under it: its faces are one face, or
\* faces of its person; it keeps the person's external id; and it does not commit
\* before it has written the person.
DeletionOf(d) ==
  /\ pc[d] = "idle" => wish[d] = "skip"
  /\ op[d] = "deleteFace" => \A f, g \in InHand(d) : f = g
  /\ op[d] = "deletePerson" =>
       /\ wish[d] = "skip"
       /\ \A f \in InHand(d) : person[f] = person[d]
       /\ pc[d] = "commit" => d \in Writers /\ ~ draft[d].live
       /\ d \in Writers => draft[d].ext = ext[draft[d].person]

DeletionsOK == \A d \in Requests : DeletionOf(d)

RegistryInv == RaceInv /\ KeyInv /\ ImageInv /\ DeletionsOK

LEMMA RegistryStart == Init => RegistryInv
<1>1. Init => RaceInv /\ KeyInv /\ ImageInv
  BY RaceStart, KeyStart, ImageStart
<1>2. Init => DeletionsOK
  BY DEF Init, DeletionsOK, DeletionOf
<1>3. QED
  BY <1>1, <1>2 DEF RegistryInv

\* A request in hand of a deletion has registered its face.
LEMMA InHandRegistered ==
  ASSUME RegistryInv, NEW d \in Requests, op[d] # "upload", NEW f \in InHand(d)
  PROVE  f \in Requests /\ faces[f] # "none" /\ pc[f] = "done"
<1>1. f \in Requests /\ faces[f] # "none"
  BY DEF RegistryInv, ImageInv, PlaceInv, TypeOK, RowsOK, InHand
<1>2. QED
  BY <1>1 DEF RegistryInv, ImageInv, RowsOK

\* A step of r leaves the deletions of others as they are.
LEMMA OwnStep ==
  ASSUME RegistryInv, NEW r \in Requests, pc[r] \notin Finished, UNCHANGED ext,
         \A x \in Requests \ {r} :
           /\ pc'[x] = pc[x] /\ op'[x] = op[x] /\ person'[x] = person[x] /\ wish'[x] = wish[x]
           /\ todo'[x] = todo[x] /\ face'[x] = face[x] /\ gone'[x] = gone[x]
           /\ draft'[x] = draft[x],
         DeletionOf(r)'
  PROVE  DeletionsOK'
<1>1. ASSUME NEW d \in Requests \ {r}
      PROVE  DeletionOf(d)'
  <2>1. DeletionOf(d) /\ InHand(d)' = InHand(d) /\ (d \in Writers' <=> d \in Writers)
    BY DEF RegistryInv, DeletionsOK, InHand, Writers
  <2>2. op[d] # "upload" => \A f \in InHand(d) : f \in Requests \ {r}
    BY InHandRegistered DEF Finished
  <2>3. QED
    BY <2>1, <2>2 DEF DeletionOf
<1>2. QED
  BY <1>1 DEF DeletionsOK

LEMMA DeletionsStep ==
  ASSUME RegistryInv, [Next]_vars
  PROVE  DeletionsOK'
<1> USE DEF work, tables, history
<1>0. PlaceInv /\ TypeOK /\ PlacesOK
  BY DEF RegistryInv, ImageInv, PlaceInv
<1>1. ASSUME NEW r \in Requests,
             ArriveUpload(r) \/ ArriveUpdate(r) \/ ArriveDeleteFace(r) \/ ArriveDeletePerson(r)
      PROVE  DeletionsOK'
  <2>1. /\ pc[r] = "idle" /\ UNCHANGED <<ext, draft, face, gone>>
        /\ \A x \in Requests \ {r} :
             /\ pc'[x] = pc[x] /\ op'[x] = op[x] /\ person'[x] = person[x]
             /\ wish'[x] = wish[x] /\ todo'[x] = todo[x]
        /\ pc'[r] \notin {"idle", "commit"}
    BY <1>0, <1>1
       DEF ArriveUpload, ArriveUpdate, ArriveDeleteFace, ArriveDeletePerson, Goto, TypeOK
  <2>2. face[r] = None /\ gone[r] = {} /\ draft[r] = NoDraft /\ todo[r] = {} /\ op[r] = "upload"
    BY <1>0, <2>1 DEF PlacesOK
  <2>3. wish[r] = "skip"
    BY <2>1 DEF RegistryInv, DeletionsOK, DeletionOf
  <2>4. op'[r] = "deleteFace" => \E f \in Requests : todo'[r] = {f}
    BY <1>0, <1>1, <2>2
       DEF ArriveUpload, ArriveUpdate, ArriveDeleteFace, ArriveDeletePerson, Live, TypeOK
  <2>5. op'[r] = "deletePerson" => todo'[r] = {} /\ wish'[r] = "skip"
    BY <1>0, <1>1, <2>2, <2>3
       DEF ArriveUpload, ArriveUpdate, ArriveDeleteFace, ArriveDeletePerson, TypeOK
  <2>6. DeletionOf(r)'
    BY <2>1, <2>2, <2>4, <2>5 DEF DeletionOf, InHand, Writers, NoDraft
  <2>7. QED
    BY <2>1, <2>6, OwnStep DEF Finished
<1>2. ASSUME NEW r \in Requests,
             \/ Replay(r) \/ Miss(r) \/ Check(r) \/ PersonNotFound(r) \/ Insert(r) \/ Store(r)
             \/ StoreFails(r) \/ Answer(r)
             \/ ResolveById(r) \/ ResolveByExt(r) \/ ResolveNew(r)
      PROVE  DeletionsOK'
  <2>1. pc[r] \in Uploading
    BY <1>2 DEF Replay, Miss, Check, PersonNotFound, Insert, Store, StoreFails, Answer,
                ResolveById, ResolveByExt, ResolveNew, Uploading
  <2>2. op[r] = "upload"
    BY <1>0, <2>1 DEF PlacesOK
  <2>3. /\ UNCHANGED <<ext, draft, op, todo, gone>>
        /\ \A x \in Requests \ {r} :
             /\ pc'[x] = pc[x] /\ person'[x] = person[x]
             /\ wish'[x] = wish[x] /\ face'[x] = face[x]
        /\ pc'[r] # "idle"
    BY <1>0, <1>2 DEF Replay, Miss, Check, PersonNotFound, Insert, Store, StoreFails, Answer,
                ResolveById, ResolveByExt, ResolveNew, Resolved, Goto, TypeOK
  <2>4. DeletionOf(r)'
    BY <2>2, <2>3 DEF DeletionOf
  <2>5. QED
    BY <2>1, <2>3, <2>4, OwnStep DEF Finished, Uploading
<1>3. ASSUME NEW r \in Requests, Attach(r) \/ Save(r)
      PROVE  DeletionsOK'
  <2>1. op[r] \in {"upload", "updatePerson"} /\ pc[r] \in {"attach", "save"}
    BY <1>0, <1>3 DEF Attach, Save, PlacesOK, Uploading
  <2>2. /\ UNCHANGED <<ext, op, person, wish, todo, face, gone>>
        /\ \A x \in Requests \ {r} : pc'[x] = pc[x] /\ draft'[x] = draft[x]
        /\ pc'[r] # "idle"
    BY <1>0, <1>3 DEF Attach, Save, WritePerson, Goto, TypeOK
  <2>3. DeletionOf(r)'
    BY <2>1, <2>2 DEF DeletionOf
  <2>4. QED
    BY <2>1, <2>2, <2>3, OwnStep DEF Finished
<1>4. ASSUME NEW r \in Requests, Bury(r)
      PROVE  DeletionsOK'
  <2>1. /\ pc[r] = "bury" /\ op[r] = "deletePerson" /\ person[r] \in Requests
        /\ UNCHANGED <<ext, op, person, wish, todo, face, gone>>
        /\ draft' = [draft EXCEPT ![r] =
                       [person |-> person[r], ext |-> NewExt(r), live |-> FALSE]]
        /\ pc' = [pc EXCEPT ![r] = "commit"]
    BY <1>0, <1>4 DEF Bury, WritePerson, Goto, PlacesOK, TypeOK
  <2>2. /\ draft'[r] = [person |-> person[r], ext |-> NewExt(r), live |-> FALSE]
        /\ pc'[r] = "commit"
        /\ \A x \in Requests \ {r} : draft'[x] = draft[x] /\ pc'[x] = pc[x]
    BY <1>0, <2>1 DEF TypeOK
  <2>3. DeletionOf(r)
    BY DEF RegistryInv, DeletionsOK
  <2>4. NewExt(r) = ext[person[r]]
    BY <2>1, <2>3 DEF DeletionOf, NewExt
  <2>5. r \in Writers'
    BY <2>1, <2>2, NoneAssumption DEF Writers, Running
  <2>6. InHand(r)' = InHand(r)
    BY <2>1 DEF InHand
  <2>7. DeletionOf(r)'
    BY <2>1, <2>2, <2>3, <2>4, <2>5, <2>6 DEF DeletionOf
  <2>8. QED
    BY <2>1, <2>2, <2>7, OwnStep DEF Finished
<1>5. ASSUME NEW r \in Requests, Collect(r) \/ Erase(r) \/ Flush(r)
      PROVE  DeletionsOK'
  <2>1. /\ op[r] \in {"deleteFace", "deletePerson"} /\ pc[r] \in {"collect", "erase", "flush"}
        /\ pc[r] = "collect" => op[r] = "deletePerson"
        /\ pc[r] = "flush" => face[r] # None
        /\ UNCHANGED <<ext, op, person, wish, draft>>
    BY <1>0, <1>5 DEF Collect, Erase, Flush, PlacesOK
  <2>2. /\ \A x \in Requests \ {r} :
             /\ pc'[x] = pc[x] /\ todo'[x] = todo[x] /\ face'[x] = face[x]
             /\ gone'[x] = gone[x]
        /\ pc'[r] # "idle"
        /\ op[r] = "deletePerson" => pc'[r] # "commit"
    BY <1>0, <1>5 DEF Collect, Erase, Flush, Goto, TypeOK
  <2>3. DeletionOf(r)
    BY DEF RegistryInv, DeletionsOK
  <2>4. \A f \in InHand(r)' : f \in InHand(r) \/ (pc[r] = "collect" /\ person[f] = person[r])
    <3>1. CASE Collect(r)
      BY <1>0, <3>1 DEF Collect, InHand, TypeOK
    <3>2. CASE Erase(r)
      BY <1>0, <3>2 DEF Erase, InHand, TypeOK
    <3>3. CASE Flush(r)
      BY <1>0, <2>1, <3>3 DEF Flush, InHand, TypeOK
    <3>4. QED
      BY <1>5, <3>1, <3>2, <3>3
  <2>5. r \in Writers' => r \in Writers
    BY <2>1 DEF Writers, Running, Deleting
  <2>6. DeletionOf(r)'
    BY <2>1, <2>2, <2>3, <2>4, <2>5 DEF DeletionOf
  <2>7. QED
    BY <2>1, <2>2, <2>6, OwnStep DEF Finished
<1>6. ASSUME NEW r \in Requests, Fail(r) \/ Victim(r)
      PROVE  DeletionsOK'
  <2>1. pc[r] \in Running /\ pc' = [pc EXCEPT ![r] = "error"] /\ UNCHANGED <<op, work, tables>>
    BY <1>6 DEF Fail, Victim, Break, Goto
  <2>2. pc'[r] = "error" /\ \A x \in Requests \ {r} : pc'[x] = pc[x]
    BY <1>0, <2>1 DEF TypeOK
  <2>3. r \notin Writers' /\ InHand(r)' = InHand(r)
    BY <2>1, <2>2 DEF Writers, Running, Uploading, Deleting, InHand
  <2>4. DeletionOf(r)'
    BY <2>1, <2>2, <2>3 DEF RegistryInv, DeletionsOK, DeletionOf
  <2>5. QED
    BY <2>1, <2>2, <2>4, OwnStep DEF Finished, Running, Uploading, Deleting
<1>7. ASSUME NEW r \in Requests, Commit(r)
      PROVE  DeletionsOK'
  <2>1. /\ pc[r] = "commit" /\ pc' = [pc EXCEPT ![r] = "done"] /\ UNCHANGED <<op, work>>
        /\ ext' = [q \in Requests |-> IF q = draft[r].person THEN draft[r].ext ELSE ext[q]]
    BY <1>7 DEF Commit, Goto
  <2>2. \A x \in Requests : pc'[x] = IF x = r THEN "done" ELSE pc[x]
    BY <1>0, <2>1 DEF TypeOK
  <2>3. Writers' = Writers \ {r}
    BY <2>1, <2>2 DEF Writers, Running, Uploading, Deleting
  <2>4. ASSUME NEW d \in Writers'
        PROVE  draft[d].person \in Requests /\ ext'[draft[d].person] = ext[draft[d].person]
    <3>1. draft[d].person \in Requests /\ d \in Writers /\ d # r
      BY <1>0, <2>3 DEF Writers, TypeOK
    <3>2. draft[r].person = draft[d].person => r \in Writers
      BY <2>1, <3>1, NoneAssumption DEF Writers, Running
    <3>3. draft[r].person # draft[d].person
      BY <3>1, <3>2 DEF RegistryInv, KeyInv, KeysOK
    <3>4. QED
      BY <2>1, <3>1, <3>3
  <2>5. ASSUME NEW d \in Requests
        PROVE  DeletionOf(d)'
    <3>1. DeletionOf(d) /\ InHand(d)' = InHand(d)
      BY <2>1 DEF RegistryInv, DeletionsOK, InHand
    <3>2. QED
      BY <2>1, <2>2, <2>3, <2>4, <3>1 DEF DeletionOf
  <2>6. QED
    BY <2>5 DEF DeletionsOK
<1>8. CASE Expire \/ UNCHANGED vars
  BY <1>8 DEF Expire, vars, RegistryInv, DeletionsOK, DeletionOf, InHand, Writers
<1>9. QED
  BY <1>1, <1>2, <1>3, <1>4, <1>5, <1>6, <1>7, <1>8 DEF Next, Step, Arrive

LEMMA RegistryStep == RegistryInv /\ [Next]_vars => RegistryInv'
<1>1. RegistryInv /\ [Next]_vars => DeletionsOK'
  BY DeletionsStep
<1>2. QED
  BY <1>1, RaceStep, KeyStep, ImageStep DEF RegistryInv

-----------------------------------------------------------------------------
(* Steps that register, delete and rename nothing.                         *)

\* Whoever gets a person has not registered a face, nor loaded what to delete.
LEMMA PersonStays ==
  ASSUME TypeOK, [Next]_vars, NEW x \in Requests, person'[x] # person[x]
  PROVE  pc[x] \in {"idle", "resolve"}
<1> USE DEF work, tables, history
<1>1. ASSUME NEW r \in Requests,
             \/ ArriveUpload(r) \/ ArriveDeletePerson(r) \/ ArriveUpdate(r)
             \/ ResolveById(r) \/ ResolveByExt(r) \/ ResolveNew(r)
      PROVE  pc[x] \in {"idle", "resolve"}
  <2>1. pc[r] \in {"idle", "resolve"}
    BY <1>1 DEF ArriveUpload, ArriveDeletePerson, ArriveUpdate, ResolveById, ResolveByExt,
                ResolveNew
  <2>2. x # r => person'[x] = person[x]
    BY <1>1 DEF ArriveUpload, ArriveDeletePerson, ArriveUpdate, ResolveById, ResolveByExt,
                ResolveNew, Resolved, TypeOK
  <2>3. QED
    BY <2>1, <2>2
<1>2. ASSUME NEW r \in Requests,
             \/ ArriveDeleteFace(r) \/ Replay(r) \/ Miss(r) \/ Check(r) \/ PersonNotFound(r)
             \/ Attach(r) \/ Insert(r) \/ Store(r) \/ Answer(r) \/ Collect(r) \/ Erase(r)
             \/ Flush(r) \/ Bury(r) \/ Save(r) \/ Commit(r) \/ Victim(r) \/ Fail(r)
             \/ StoreFails(r)
      PROVE  FALSE
  BY <1>2 DEF ArriveDeleteFace, Replay, Miss, Check, PersonNotFound, Attach, Insert, Store,
              Answer, Collect, Erase, Flush, Bury, Save, WritePerson, Commit, Victim, Fail, Break,
              StoreFails
<1>3. ~ (Expire \/ UNCHANGED vars)
  BY DEF Expire, vars
<1>4. QED
  BY <1>1, <1>2, <1>3 DEF Next, Step, Arrive

Owner == [f \in Requests |-> IF faces[f] = "none" THEN None ELSE person[f]]

LEMMA OwnerStays ==
  ASSUME RegistryInv, [Next]_vars, NEW f \in Requests, faces[f] # "none"
  PROVE  person'[f] = person[f]
<1>1. TypeOK /\ pc[f] = "done"
  BY DEF RegistryInv, ImageInv, PlaceInv, RowsOK
<1>2. QED
  BY <1>1, PersonStays

LEMMA RegistryKeeps ==
  ASSUME RegistryInv, [Next]_vars, UNCHANGED tables,
         raced \subseteq raced', \A f \in raced' \ raced : f \in Requests /\ pc[f] # "done"
  PROVE  Registry!Next
<1>1. Owner' = Owner
  BY OwnerStays DEF Owner, tables
<1>2. \A f \in raced' \ raced : f \in Requests /\ faces[f] = "none"
  BY DEF RegistryInv, ImageInv, RowsOK
<1>3. Registry!Meet
  BY <1>1, <1>2 DEF Registry!Meet, Owner, tables
<1>4. QED
  BY <1>3 DEF Registry!Next

LEMMA OtherSteps ==
  ASSUME RegistryInv, [Next]_vars, \A r \in Requests : ~ Commit(r)
  PROVE  Registry!Next
<1> USE DEF work, history
<1>0. TypeOK
  BY DEF RegistryInv, ImageInv, PlaceInv
<1>1. UNCHANGED tables
  BY DEF Next, Arrive, Step, ArriveUpload, ArriveDeleteFace, ArriveDeletePerson, ArriveUpdate,
         Replay, Miss, Check, ResolveById, PersonNotFound, ResolveByExt, ResolveNew, Resolved,
         Attach, Insert, Store, Answer, Collect, Erase, Flush, Bury, Save, WritePerson, Victim,
         Fail, Break, StoreFails, Expire, vars
<1>2. ASSUME NEW r \in Requests, ResolveById(r) \/ ResolveByExt(r) \/ ResolveNew(r)
      PROVE  Registry!Next
  <2>1. pc[r] = "resolve" /\ raced' \in {raced, raced \cup {r}}
    BY <1>2 DEF ResolveById, ResolveByExt, ResolveNew, Resolved
  <2>2. QED
    BY <1>1, <2>1, RegistryKeeps
<1>3. ASSUME NEW r \in Requests, ArriveDeletePerson(r)
      PROVE  Registry!Next
  <2>1. raced \subseteq raced' /\ raced' \ raced \subseteq Active("upload")
    BY <1>3 DEF ArriveDeletePerson
  <2>2. \A f \in Active("upload") : f \in Requests /\ pc[f] # "done"
    BY DEF Active, Running, Uploading, Deleting
  <2>3. QED
    BY <1>1, <2>1, <2>2, RegistryKeeps
<1>4. CASE raced' = raced
  BY <1>1, <1>4, RegistryKeeps
<1>5. ASSUME NEW r \in Requests,
             \/ ArriveUpload(r) \/ ArriveUpdate(r) \/ ArriveDeleteFace(r) \/ Replay(r)
             \/ Miss(r) \/ Check(r) \/ PersonNotFound(r)
             \/ Attach(r) \/ Insert(r) \/ Store(r) \/ Answer(r) \/ Collect(r) \/ Erase(r)
             \/ Flush(r) \/ Bury(r) \/ Save(r) \/ Victim(r) \/ Fail(r) \/ StoreFails(r)
      PROVE  raced' = raced
  BY <1>5 DEF ArriveUpload, ArriveUpdate, ArriveDeleteFace, Replay, Miss, Check, PersonNotFound,
              Attach, Insert, Store, Answer, Collect, Erase, Flush, Bury, Save, WritePerson,
              Victim, Fail, Break, StoreFails
<1>6. Expire \/ UNCHANGED vars => raced' = raced
  BY DEF Expire, vars
<1>7. QED
  BY <1>2, <1>3, <1>4, <1>5, <1>6 DEF Next, Step, Arrive

-----------------------------------------------------------------------------
(* Commits.                                                                *)

\* What the commit does to the tables and to their owners.
LEMMA CommitTables ==
  ASSUME RegistryInv, NEW r \in Requests, Commit(r)
  PROVE  /\ pc[r] = "commit" /\ UNCHANGED <<person, raced>>
         /\ faces' = [f \in Requests |->
                        IF f \in gone[r] THEN "deleted"
                        ELSE IF f = r /\ op[r] = "upload" THEN "live" ELSE faces[f]]
         /\ Owner' = [f \in Requests |->
                        IF f = r /\ op[r] = "upload" THEN person[r] ELSE Owner[f]]
         /\ draft[r].person = None => UNCHANGED <<persons, ext>>
         /\ draft[r].person # None =>
              /\ r \in Writers /\ draft[r].person = person[r] /\ person[r] \in Requests
              /\ persons' = [persons EXCEPT ![person[r]] =
                               RowAfter(persons[person[r]], draft[r].live)]
              /\ ext' = [ext EXCEPT ![person[r]] = draft[r].ext]
<1> USE DEF work, history
<1>0. TypeOK /\ PlaceInv /\ RowsOK /\ PersonsOK
  BY DEF RegistryInv, RaceInv, PlaceInv
<1>1. /\ pc[r] = "commit" /\ UNCHANGED <<person, raced>>
      /\ faces' = [f \in Requests |->
                     IF f \in gone[r] THEN "deleted"
                     ELSE IF f = r /\ op[r] = "upload" THEN "live" ELSE faces[f]]
  BY DEF Commit
<1>2. Owner' = [f \in Requests |->
                  IF f = r /\ op[r] = "upload" THEN person[r] ELSE Owner[f]]
  <2>1. \A f \in Requests :
          faces'[f] # "none" <=> faces[f] # "none" \/ (f = r /\ op[r] = "upload")
    BY <1>0, CommitFaces
  <2>2. op[r] = "upload" => faces[r] = "none"
    BY <1>0, <1>1 DEF RowsOK
  <2>3. QED
    BY <1>1, <2>1, <2>2 DEF Owner
<1>3. /\ persons' = [q \in Requests |->
                       IF q = draft[r].person THEN RowAfter(persons[q], draft[r].live)
                       ELSE persons[q]]
      /\ ext' = [q \in Requests |-> IF q = draft[r].person THEN draft[r].ext ELSE ext[q]]
  BY DEF Commit
<1>4. draft[r].person = None => UNCHANGED <<persons, ext>>
  BY <1>0, <1>3, NoneAssumption DEF TypeOK
<1>5. ASSUME draft[r].person # None
      PROVE  r \in Writers /\ draft[r].person = person[r] /\ person[r] \in Requests
  BY <1>0, <1>1, <1>5 DEF Writers, Running, PersonsOK, TypeOK
<1>6. QED
  BY <1>0, <1>1, <1>2, <1>3, <1>4, <1>5 DEF TypeOK

\* A commit that writes a person and deletes none.
LEMMA CommitWrites ==
  ASSUME RegistryInv, NEW r \in Requests, Commit(r), draft[r].person # None,
         op[r] # "deletePerson"
  PROVE  \E p \in Requests, e \in Exts \cup {Unnamed} : p = person[r] /\ Registry!Write(p, e)
<1>1. PICK p \in Requests : p = person[r]
  BY CommitTables
<1>2. PICK e \in Exts \cup {Unnamed} : e = draft[r].ext
  BY DEF RegistryInv, ImageInv, PlaceInv, TypeOK
<1>3. /\ r \in Writers /\ draft[r].person = p /\ draft[r].live
      /\ persons' = [persons EXCEPT ![p] = RowAfter(persons[p], draft[r].live)]
      /\ ext' = [ext EXCEPT ![p] = e]
  BY <1>1, <1>2, CommitTables DEF RegistryInv, RaceInv, PersonsOK
<1>4. \/ persons[p] = "deleted" \/ e = Unnamed
      \/ \A q \in Requests \ {p} : persons[q] = "live" => ext[q] # e
  BY <1>2, <1>3 DEF RegistryInv, KeyInv, KeysOK, Namers, Live
<1>5. RowAfter(persons[p], draft[r].live) = IF persons[p] = "deleted" THEN "deleted" ELSE "live"
  BY <1>3 DEF RowAfter
<1>6. Registry!Write(p, e)
  BY <1>3, <1>4, <1>5 DEF Registry!Write
<1>7. QED
  BY <1>1, <1>6

LEMMA UploadCommit ==
  ASSUME RegistryInv, RegistryInv', NEW r \in Requests, Commit(r), op[r] = "upload"
  PROVE  \E p \in Requests : Registry!Register(r, p)
<1>0. TypeOK /\ PlacesOK /\ pc[r] = "commit" /\ r \in Placed
  BY CommitTables DEF RegistryInv, ImageInv, PlaceInv, Placed
<1>1. PICK p \in Requests : p = person[r]
  BY <1>0 DEF RegistryInv, RaceInv, PersonsOK
<1>2. gone[r] = {} /\ faces[r] = "none"
  BY <1>0 DEF PlacesOK, RegistryInv, ImageInv, RowsOK
<1>3. \A g \in Requests : faces[g] # "none" => Sha[g] # Sha[r]
  BY <1>0 DEF RegistryInv, ImageInv, DigestsOK, Entered
<1>4. faces' = [faces EXCEPT ![r] = "live"]
  BY <1>0, <1>2, CommitTables DEF TypeOK
<1>5. Owner' = [Owner EXCEPT ![r] = p]
  <2>1. Owner' = [f \in Requests |-> IF f = r THEN p ELSE Owner[f]]
    BY <1>1, CommitTables
  <2>2. Owner = [f \in Requests |-> Owner[f]]
    BY DEF Owner
  <2> HIDE DEF Owner
  <2>3. QED
    BY <2>1, <2>2
<1>6. persons[p] # "none" \/ p = r
  BY <1>0, <1>1 DEF RegistryInv, RaceInv, PersonsOK
<1>7. \/ persons[p] # "none" /\ UNCHANGED <<persons, ext>>
      \/ \E e \in Exts \cup {Unnamed} : Registry!Write(p, e)
  <2>1. CASE draft[r].person = None
    <3>1. persons[p] # "none"
      BY <1>0, <1>1, <2>1 DEF RegistryInv, RaceInv, MeetingsOK, Writers
    <3>2. QED
      BY <2>1, <3>1, CommitTables
  <2>2. CASE draft[r].person # None
    BY <1>1, <2>2, CommitWrites
  <2>3. QED
    BY <2>1, <2>2
<1>8. persons'[p] = "live" \/ r \in raced
  <2>1. faces'[r] = "live" /\ UNCHANGED <<person, raced>>
    BY <1>0, <1>4, CommitTables DEF TypeOK
  <2>2. OrphansRaced'
    BY DEF RegistryInv, RaceInv, CollectedOK
  <2>3. QED
    BY <1>1, <2>1, <2>2 DEF OrphansRaced, Live
<1>9. raced' = raced
  BY CommitTables
<1>10. QED
  BY <1>2, <1>3, <1>4, <1>5, <1>6, <1>7, <1>8, <1>9 DEF Registry!Register, Owner

LEMMA FaceDeletionCommit ==
  ASSUME RegistryInv, NEW r \in Requests, Commit(r), op[r] = "deleteFace"
  PROVE  Registry!Next \/ UNCHANGED Registry!vars
<1>0. TypeOK /\ pc[r] = "commit"
  BY CommitTables DEF RegistryInv, ImageInv, PlaceInv
<1>1. draft[r].person = None
  BY <1>0, CommitTables DEF RegistryInv, RaceInv, PersonsOK
<1>2. UNCHANGED <<persons, ext, raced>> /\ Owner' = Owner
  BY <1>1, CommitTables DEF Owner
<1>3. faces' = [f \in Requests |-> IF f \in gone[r] THEN "deleted" ELSE faces[f]]
  BY CommitTables
<1>4. CASE gone[r] = {}
  <2>1. faces' = faces
    BY <1>0, <1>3, <1>4 DEF TypeOK
  <2>2. QED
    BY <1>2, <2>1 DEF Registry!vars, Owner
<1>5. CASE gone[r] # {}
  <2>1. PICK f \in gone[r] : TRUE
    BY <1>5
  <2>2. f \in Requests /\ faces[f] # "none"
    BY <2>1, InHandRegistered DEF InHand
  <2>3. \A g \in gone[r] : g = f
    BY <2>1 DEF RegistryInv, DeletionsOK, DeletionOf, InHand
  <2>4. faces' = [faces EXCEPT ![f] = "deleted"]
    BY <1>0, <1>3, <2>1, <2>3 DEF TypeOK
  <2>5. Registry!DeleteFace(f)
    BY <1>2, <2>2, <2>4 DEF Registry!DeleteFace, Owner
  <2>6. QED
    BY <2>2, <2>5 DEF Registry!Next
<1>6. QED
  BY <1>4, <1>5

LEMMA PersonDeletionCommit ==
  ASSUME RegistryInv, NEW r \in Requests, Commit(r), op[r] = "deletePerson"
  PROVE  Registry!DeletePerson(person[r], gone[r])
<1> DEFINE p == person[r]
<1>0. TypeOK /\ pc[r] = "commit" /\ r \in Burying
  BY CommitTables DEF RegistryInv, ImageInv, PlaceInv, Burying, Active, Running
<1>1. /\ r \in Writers /\ ~ draft[r].live /\ draft[r].ext = ext[draft[r].person]
      /\ \A f \in InHand(r) : person[f] = p
  BY <1>0 DEF RegistryInv, DeletionsOK, DeletionOf
<1>2. /\ draft[r].person = p /\ p \in Requests /\ raced' = raced
      /\ persons' = [persons EXCEPT ![p] = RowAfter(persons[p], draft[r].live)]
      /\ ext' = [ext EXCEPT ![p] = draft[r].ext]
  BY <1>1, CommitTables DEF Writers
<1>3. persons' = [persons EXCEPT ![p] = "deleted"] /\ ext' = ext
  BY <1>0, <1>1, <1>2 DEF RowAfter, TypeOK
<1>4. persons[p] # "none"
  BY <1>0 DEF RegistryInv, RaceInv, PersonsOK
<1>5. \A f \in gone[r] : f \in Requests /\ faces[f] # "none" /\ Owner[f] = p
  BY <1>1, InHandRegistered DEF InHand, Owner
<1>6. \A f \in Requests \ gone[r] : faces[f] = "live" /\ Owner[f] = p => f \in raced
  <2>1. todo[r] = {}
    BY <1>0 DEF RegistryInv, RaceInv, CollectedOK
  <2>2. QED
    BY <1>0, <2>1 DEF RegistryInv, RaceInv, CollectedOK, Live, Owner
<1>7. faces' = [f \in Requests |-> IF f \in gone[r] THEN "deleted" ELSE faces[f]]
  BY CommitTables
<1>8. Owner' = Owner
  BY CommitTables DEF Owner
<1>9. QED
  BY <1>2, <1>3, <1>4, <1>5, <1>6, <1>7, <1>8 DEF Registry!DeletePerson, Owner

LEMMA RenameCommit ==
  ASSUME RegistryInv, NEW r \in Requests, Commit(r), op[r] = "updatePerson"
  PROVE  Registry!Next \/ UNCHANGED Registry!vars
<1>0. TypeOK /\ PlacesOK
  BY DEF RegistryInv, ImageInv, PlaceInv
<1>1. faces' = faces /\ Owner' = Owner /\ raced' = raced
  BY <1>0, CommitTables DEF PlacesOK, TypeOK, Owner
<1>2. CASE draft[r].person = None
  BY <1>1, <1>2, CommitTables DEF Registry!vars, Owner
<1>3. CASE draft[r].person # None
  <2>1. PICK p \in Requests, e \in Exts \cup {Unnamed} : p = person[r] /\ Registry!Write(p, e)
    BY <1>3, CommitWrites
  <2>2. persons[p] # "none"
    BY <2>1 DEF RegistryInv, RaceInv, PersonsOK
  <2>3. Registry!Rename(p, e)
    BY <1>1, <2>1, <2>2 DEF Registry!Rename, Owner
  <2>4. QED
    BY <2>3 DEF Registry!Next
<1>4. QED
  BY <1>2, <1>3

-----------------------------------------------------------------------------
\* Every handler does one thing to the registered faces and persons, and does it
\* at once: what it checked of the digest, the external id and the person many
\* steps before holds at its commit, whatever others did in between, but for an
\* upload that met the deletion of its person.
THEOREM RegistryKept == Spec => KeepsRegistry
<1>1. Init => Registry!Init
  BY DEF Init, Registry!Init
<1>2. RegistryInv /\ RegistryInv' /\ [Next]_vars => [Registry!Next]_(Registry!vars)
  <2> SUFFICES ASSUME RegistryInv, RegistryInv', [Next]_vars
               PROVE  Registry!Next \/ UNCHANGED Registry!vars
    OBVIOUS
  <2>1. ASSUME NEW r \in Requests, Commit(r)
        PROVE  Registry!Next \/ UNCHANGED Registry!vars
    <3>1. op[r] \in Ops
      BY DEF RegistryInv, ImageInv, PlaceInv, TypeOK
    <3>2. CASE op[r] = "upload"
      BY <2>1, <3>2, UploadCommit DEF Registry!Next
    <3>3. CASE op[r] = "deletePerson"
      <4>1. person[r] \in Requests /\ gone[r] \in SUBSET Requests
        BY <3>3 DEF RegistryInv, RaceInv, PersonsOK, ImageInv, PlaceInv, TypeOK
      <4>2. Registry!DeletePerson(person[r], gone[r])
        BY <2>1, <3>3, PersonDeletionCommit
      <4>3. QED
        BY <4>1, <4>2 DEF Registry!Next
    <3>4. QED
      BY <2>1, <3>1, <3>2, <3>3, FaceDeletionCommit, RenameCommit DEF Ops
  <2>2. QED
    BY <2>1, OtherSteps
<1>3. Spec => []RegistryInv
  BY RegistryStart, RegistryStep, PTL DEF Spec
<1>4. QED
  BY <1>1, <1>2, <1>3, PTL DEF Spec, KeepsRegistry, Registry!Spec

-----------------------------------------------------------------------------
(* What FaceRegistry promises is enough: whatever implements it registers   *)
(* an image once, keeps external ids apart and leaves no face without its   *)
(* person but those that met its deletion.                                  *)

RowTypes ==
  /\ faces \in [Requests -> {"none", "live", "deleted"}]
  /\ persons \in [Requests -> {"none", "live", "deleted"}]
  /\ ext \in [Requests -> Exts \cup {Unnamed}]
  /\ Owner \in [Requests -> Requests \cup {None}]

OwnersOK ==
  \A f \in Live(faces) \ raced : Owner[f] \in Requests /\ persons[Owner[f]] = "live"

EnoughInv == RowTypes /\ RetriesRegisterOnce /\ OnePersonPerExternalId /\ OwnersOK

LEMMA EnoughStart == Registry!Init => EnoughInv
BY DEF Registry!Init, EnoughInv, RowTypes, OwnersOK, Owner, RetriesRegisterOnce,
       OnePersonPerExternalId, Live

\* No person that is live dies of it, and no external id is given twice.
LEMMA WriteKeeps ==
  ASSUME RowTypes, OnePersonPerExternalId,
         NEW p \in Requests, NEW e \in Exts \cup {Unnamed}, Registry!Write(p, e)
  PROVE  /\ persons' \in [Requests -> {"none", "live", "deleted"}]
         /\ ext' \in [Requests -> Exts \cup {Unnamed}]
         /\ Live(persons) \subseteq Live(persons')
         /\ OnePersonPerExternalId'
<1>1. /\ persons' = [persons EXCEPT ![p] = IF @ = "deleted" THEN "deleted" ELSE "live"]
      /\ ext' = [ext EXCEPT ![p] = e]
      /\ persons[p] = "deleted" \/ e = Unnamed
           \/ \A q \in Requests \ {p} : persons[q] = "live" => ext[q] # e
  BY DEF Registry!Write
<1>2. /\ \A q \in Requests \ {p} : persons'[q] = persons[q] /\ ext'[q] = ext[q]
      /\ ext'[p] = e /\ persons'[p] \in {"live", "deleted"}
      /\ persons'[p] = "live" <=> persons[p] # "deleted"
  BY <1>1 DEF RowTypes
<1>3. Live(persons) \subseteq Live(persons')
  BY <1>2 DEF Live
<1>4. OnePersonPerExternalId'
  BY <1>1, <1>2 DEF OnePersonPerExternalId, Live
<1>5. QED
  BY <1>1, <1>3, <1>4 DEF RowTypes

LEMMA EnoughStep == EnoughInv /\ [Registry!Next]_(Registry!vars) => EnoughInv'
<1> SUFFICES ASSUME EnoughInv, [Registry!Next]_(Registry!vars)
             PROVE  EnoughInv'
  OBVIOUS
<1> USE DEF EnoughInv
<1>1. ASSUME NEW f \in Requests, NEW p \in Requests, Registry!Register(f, p)
      PROVE  EnoughInv'
  <2>1. /\ faces' = [faces EXCEPT ![f] = "live"] /\ Owner' = [Owner EXCEPT ![f] = p]
        /\ faces[f] = "none" /\ \A g \in Requests : faces[g] # "none" => Sha[g] # Sha[f]
        /\ persons'[p] = "live" \/ f \in raced
        /\ UNCHANGED raced
    BY <1>1 DEF Registry!Register, Owner
  <2>2. /\ persons' \in [Requests -> {"none", "live", "deleted"}]
        /\ ext' \in [Requests -> Exts \cup {Unnamed}]
        /\ Live(persons) \subseteq Live(persons')
        /\ OnePersonPerExternalId'
    <3>1. CASE UNCHANGED <<persons, ext>>
      BY <3>1 DEF RowTypes, OnePersonPerExternalId
    <3>2. CASE \E e \in Exts \cup {Unnamed} : Registry!Write(p, e)
      BY <3>2, WriteKeeps
    <3>3. QED
      BY <1>1, <3>1, <3>2 DEF Registry!Register
  <2>3. RowTypes'
    BY <2>1, <2>2 DEF RowTypes
  <2>4. RetriesRegisterOnce'
    BY <2>1 DEF RowTypes, RetriesRegisterOnce
  <2>5. OwnersOK'
    BY <2>1, <2>2 DEF RowTypes, OwnersOK, Live
  <2>6. QED
    BY <2>2, <2>3, <2>4, <2>5
<1>2. ASSUME NEW f \in Requests, Registry!DeleteFace(f)
      PROVE  EnoughInv'
  <2>1. /\ faces' = [faces EXCEPT ![f] = "deleted"] /\ faces[f] # "none"
        /\ UNCHANGED <<Owner, persons, ext, raced>>
    BY <1>2 DEF Registry!DeleteFace, Owner
  <2>2. QED
    BY <2>1 DEF RowTypes, RetriesRegisterOnce, OnePersonPerExternalId, OwnersOK, Live
<1>3. ASSUME NEW p \in Requests, NEW F \in SUBSET Requests, Registry!DeletePerson(p, F)
      PROVE  EnoughInv'
  <2>1. /\ \A f \in F : faces[f] # "none"
        /\ \A f \in Requests \ F : faces[f] = "live" /\ Owner[f] = p => f \in raced
        /\ persons' = [persons EXCEPT ![p] = "deleted"]
        /\ faces' = [f \in Requests |-> IF f \in F THEN "deleted" ELSE faces[f]]
        /\ UNCHANGED <<Owner, ext, raced>>
    BY <1>3 DEF Registry!DeletePerson, Owner
  <2>2. RowTypes' /\ RetriesRegisterOnce'
    BY <2>1 DEF RowTypes, RetriesRegisterOnce
  <2>3. OnePersonPerExternalId'
    BY <2>1 DEF RowTypes, OnePersonPerExternalId, Live
  <2>4. OwnersOK'
    BY <2>1 DEF RowTypes, OwnersOK, Live
  <2>5. QED
    BY <2>2, <2>3, <2>4
<1>4. ASSUME NEW p \in Requests, NEW e \in Exts \cup {Unnamed}, Registry!Rename(p, e)
      PROVE  EnoughInv'
  <2>1. Registry!Write(p, e) /\ UNCHANGED <<faces, Owner, raced>>
    BY <1>4 DEF Registry!Rename, Owner
  <2>2. QED
    BY <2>1, WriteKeeps DEF RowTypes, RetriesRegisterOnce, OwnersOK, Live
<1>5. CASE Registry!Meet
  <2>1. raced \subseteq raced' /\ UNCHANGED <<faces, Owner, persons, ext>>
    BY <1>5 DEF Registry!Meet, Owner
  <2>2. QED
    BY <2>1 DEF RowTypes, RetriesRegisterOnce, OnePersonPerExternalId, OwnersOK, Live
<1>6. CASE UNCHANGED Registry!vars
  BY <1>6 DEF Registry!vars, Owner, RowTypes, RetriesRegisterOnce, OnePersonPerExternalId,
              OwnersOK, Live
<1>7. QED
  BY <1>1, <1>2, <1>3, <1>4, <1>5, <1>6 DEF Registry!Next

\* What is proved of every service that implements the registry: no image is
\* registered twice, no two live persons have one external id, and a live face of
\* a deleted person had met the deletion.
THEOREM RegistryIsEnough ==
  KeepsRegistry => [](RetriesRegisterOnce /\ OnePersonPerExternalId /\ OrphansRaced)
<1>1. EnoughInv => RetriesRegisterOnce /\ OnePersonPerExternalId /\ OrphansRaced
  BY DEF EnoughInv, OwnersOK, OrphansRaced, Owner, Live
<1>2. QED
  BY <1>1, EnoughStart, EnoughStep, PTL DEF KeepsRegistry, Registry!Spec
=============================================================================
