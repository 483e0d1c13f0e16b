------------------------------ MODULE FaceProofs -----------------------------
(***************************************************************************)
(* Theorems about FacePipeline for every set of requests, images, keys and *)
(* external ids, whatever fails: one image per digest, one person per      *)
(* external id, the objects of live faces, and the causes of orphans and   *)
(* of false replays.                                                       *)
(***************************************************************************)
EXTENDS FacePipeline, TLAPS

-----------------------------------------------------------------------------
(* Types, and what each place of a handler says of its request.            *)

PlacesOK ==
  \A r \in Requests :
    /\ pc[r] = "idle" => op[r] = "upload" /\ face[r] = None /\ draft[r] = NoDraft
    /\ pc[r] \in Uploading \cup {"replayed", "rejected"} => op[r] = "upload"
    /\ pc[r] = "lookup" => Key[r] # Unnamed
    /\ pc[r] \in {"collect", "bury"} => op[r] = "deletePerson"
    /\ pc[r] \in {"erase", "flush"} => op[r] \in {"deleteFace", "deletePerson"}
    /\ pc[r] = "save" => op[r] = "updatePerson"
    /\ pc[r] \in {"attach", "save"} \/ op[r] = "deletePerson" => person[r] # None
    /\ pc[r] = "flush" => face[r] # None
    /\ op[r] \in {"upload", "updatePerson"} => todo[r] = {} /\ gone[r] = {}
    /\ op[r] # "upload" /\ face[r] = None => gone[r] = {}

PlaceInv == TypeOK /\ PlacesOK

LEMMA PlaceStart == Init => PlaceInv
BY DEF Init, PlaceInv, TypeOK, PlacesOK, NoDraft, Ops, RowStates, Uploading

LEMMA PersonTypes ==
  ASSUME TypeOK, NEW r \in Requests, person[r] # None
  PROVE  NewExt(r) \in Exts \cup {Unnamed}
BY DEF TypeOK, NewExt

LEMMA WriteKeepsPlaces ==
  ASSUME PlaceInv, NEW r \in Requests, NEW live \in BOOLEAN, NEW next \in {"insert", "commit"},
         WritePerson(r, live, next), pc[r] \in {"attach", "bury", "save"},
         next = "insert" => pc[r] = "attach"
  PROVE  PlaceInv'
<1> USE DEF PlaceInv
<1>1. NewExt(r) \in Exts \cup {Unnamed} /\ person[r] \in Requests
  BY PersonTypes DEF TypeOK, PlacesOK
<1>2. /\ UNCHANGED <<op, person, wish, todo, face, gone, tables, objects, cache, history>>
      /\ pc' \in {[pc EXCEPT ![r] = "error"], [pc EXCEPT ![r] = next]}
      /\ \/ draft' = draft
         \/ draft' = [draft EXCEPT ![r] =
                        [person |-> person[r], ext |-> NewExt(r), live |-> live]]
  BY DEF WritePerson, Goto
<1>3. TypeOK'
  <2>1. pc' \in [Requests -> {"idle"} \cup Running \cup Finished]
    BY <1>2 DEF TypeOK, Running, Uploading, Finished
  <2>2. draft' \in [Requests -> [person : Requests \cup {None},
                                 ext : Exts \cup {Unnamed}, live : BOOLEAN]]
    BY <1>1, <1>2 DEF TypeOK
  <2>3. QED
    BY <1>2, <2>1, <2>2 DEF TypeOK, tables, history
<1>4. \E p \in {"error", "insert", "commit"} :
        pc' = [pc EXCEPT ![r] = p] /\ (p = "insert" => pc[r] = "attach")
  BY <1>2
<1>5. \A x \in Requests : draft'[x] = draft[x] \/ (x = r /\ pc[r] # "idle")
  BY <1>2 DEF TypeOK
<1>6. PlacesOK'
  BY <1>2, <1>4, <1>5 DEF PlacesOK, TypeOK, Uploading
<1>7. QED
  BY <1>3, <1>6

LEMMA ResolveKeepsPlaces ==
  ASSUME PlaceInv, NEW r \in Requests, NEW p \in Requests, pc[r] = "resolve",
         NEW w \in Exts \cup {Unnamed, "keep", "skip"}, Resolved(r, p, w)
  PROVE  PlaceInv'
<1> USE DEF PlaceInv
<1>1. /\ UNCHANGED <<op, todo, face, gone, draft, tables, objects, cache, struck>>
      /\ pc' \in {[pc EXCEPT ![r] = "insert"], [pc EXCEPT ![r] = "attach"]}
      /\ person' = [person EXCEPT ![r] = p] /\ wish' = [wish EXCEPT ![r] = w]
      /\ raced' \in SUBSET Requests
  BY DEF Resolved, Goto, TypeOK
<1>2. TypeOK'
  BY <1>1 DEF TypeOK, tables, Running, Uploading
<1>3. PlacesOK'
  BY <1>1, NoneAssumption DEF PlacesOK, TypeOK, Uploading
<1>4. QED
  BY <1>2, <1>3

LEMMA PlaceStep == PlaceInv /\ [Next]_vars => PlaceInv'
<1> SUFFICES ASSUME PlaceInv, [Next]_vars
             PROVE  PlaceInv'
  OBVIOUS
<1> USE DEF PlaceInv, work, tables, history
<1>1. ASSUME NEW r \in Requests, ArriveUpload(r)
      PROVE  PlaceInv'
  <2>1. /\ UNCHANGED <<op, wish, todo, face, gone, draft, tables, objects, cache, history>>
        /\ pc[r] = "idle" /\ (person' = person \/ \E p \in Requests : person' = [person EXCEPT ![r] = p])
    BY <1>1 DEF ArriveUpload
  <2>2. \E p \in {"check", "lookup"} :
          pc' = [pc EXCEPT ![r] = p] /\ (p = "lookup" => Key[r] # Unnamed)
    BY <1>1 DEF ArriveUpload, Goto
  <2>3. TypeOK'
    BY <2>1, <2>2 DEF TypeOK, Running, Uploading
  <2>4. PlacesOK'
    BY <2>1, <2>2 DEF TypeOK, PlacesOK, Uploading
  <2>5. QED
    BY <2>3, <2>4
<1>2. ASSUME NEW r \in Requests, ArriveDeleteFace(r)
      PROVE  PlaceInv'
  <2>1. PICK f \in Live(faces) : todo' = [todo EXCEPT ![r] = {f}]
    BY <1>2 DEF ArriveDeleteFace
  <2>2. f \in Requests
    BY DEF Live
  <2>3. TypeOK'
    <3>1. todo' \in [Requests -> SUBSET Requests]
      BY <2>1, <2>2 DEF TypeOK
    <3>2. /\ op' \in [Requests -> Ops]
          /\ pc' \in [Requests -> {"idle"} \cup Running \cup Finished]
      BY <1>2 DEF ArriveDeleteFace, Goto, TypeOK, Running, Deleting, Ops
    <3>3. QED
      BY <1>2, <3>1, <3>2 DEF ArriveDeleteFace, TypeOK
  <2>4. PlacesOK'
    BY <1>2, <2>1 DEF ArriveDeleteFace, Goto, TypeOK, PlacesOK, Uploading
  <2>5. QED
    BY <2>3, <2>4
<1>3. ASSUME NEW r \in Requests, ArriveDeletePerson(r)
      PROVE  PlaceInv'
  <2>1. PICK p \in Live(persons) : /\ person' = [person EXCEPT ![r] = p]
                                   /\ raced' = raced \cup {s \in Active("upload") : person[s] = p}
    BY <1>3 DEF ArriveDeletePerson
  <2>2. p \in Requests /\ raced' \in SUBSET Requests
    BY <2>1 DEF Live, Active, TypeOK
  <2>3. TypeOK'
    BY <1>3, <2>1, <2>2 DEF ArriveDeletePerson, Goto, TypeOK, Running, Deleting, Ops
  <2>4. PlacesOK'
    BY <1>3, <2>1, <2>2, NoneAssumption
       DEF ArriveDeletePerson, Goto, TypeOK, PlacesOK, Uploading
  <2>5. QED
    BY <2>3, <2>4
<1>4. ASSUME NEW r \in Requests, ArriveUpdate(r)
      PROVE  PlaceInv'
  <2>1. PICK p \in Live(persons), w \in Exts \cup {Unnamed, "keep"} :
          person' = [person EXCEPT ![r] = p] /\ wish' = [wish EXCEPT ![r] = w]
    BY <1>4 DEF ArriveUpdate
  <2>2. p \in Requests
    BY DEF Live
  <2>3. TypeOK'
    BY <1>4, <2>1, <2>2 DEF ArriveUpdate, Goto, TypeOK, Running, Ops
  <2>4. PlacesOK'
    BY <1>4, <2>1, <2>2, NoneAssumption DEF ArriveUpdate, Goto, TypeOK, PlacesOK, Uploading
  <2>5. QED
    BY <2>3, <2>4
<1>5. ASSUME NEW r \in Requests, Replay(r)
      PROVE  PlaceInv'
  <2>1. cache[Key[r]] \in Requests \cup {None}
    BY <1>5 DEF Replay, PlacesOK, TypeOK, Keys
  <2>2. QED
    BY <1>5, <2>1 DEF Replay, Goto, TypeOK, PlacesOK, Finished, Uploading
<1>6. ASSUME NEW r \in Requests, Miss(r) \/ Check(r) \/ PersonNotFound(r)
      PROVE  PlaceInv'
  <2>1. /\ UNCHANGED <<op, work, tables, objects, cache, history>>
        /\ pc[r] \in {"lookup", "check", "resolve"}
        /\ \E p \in {"check", "rejected", "resolve"} : pc' = [pc EXCEPT ![r] = p]
    BY <1>6 DEF Miss, Check, PersonNotFound, Goto
  <2>2. QED
    BY <2>1 DEF TypeOK, PlacesOK, Running, Finished, Uploading
<1>7. ASSUME NEW r \in Requests, ResolveById(r) \/ ResolveByExt(r) \/ ResolveNew(r)
      PROVE  PlaceInv'
  <2>1. pc[r] = "resolve" /\ Ext[r] \in Exts \cup {Unnamed}
    BY <1>7, ExtAssumption DEF ResolveById, ResolveByExt, ResolveNew
  <2>2. \E p \in Requests, w \in Exts \cup {Unnamed, "keep", "skip"} : Resolved(r, p, w)
    BY <1>7, <2>1 DEF ResolveById, ResolveByExt, ResolveNew, Named, Live, TypeOK
  <2>3. QED
    BY <2>1, <2>2, ResolveKeepsPlaces
<1>8. ASSUME NEW r \in Requests, Attach(r) \/ Bury(r) \/ Save(r)
      PROVE  PlaceInv'
  BY <1>8, WriteKeepsPlaces DEF Attach, Bury, Save
<1>9. ASSUME NEW r \in Requests, Insert(r) \/ Store(r) \/ StoreFails(r)
      PROVE  PlaceInv'
  <2>1. /\ UNCHANGED <<op, work, tables, cache, raced>>
        /\ pc[r] \in {"insert", "store"}
        /\ \E p \in {"error", "store", "answer"} : pc' = [pc EXCEPT ![r] = p]
        /\ objects' \in SUBSET Requests /\ struck' \in SUBSET Requests
    BY <1>9 DEF Insert, Store, StoreFails, Goto, TypeOK
  <2>2. QED
    BY <2>1 DEF TypeOK, PlacesOK, Running, Finished, Uploading
<1>10. ASSUME NEW r \in Requests, Answer(r)
       PROVE  PlaceInv'
  <2>1. cache' \in [Keys -> Requests \cup {None}]
    BY <1>10 DEF Answer, TypeOK
  <2>2. QED
    BY <1>10, <2>1 DEF Answer, Goto, TypeOK, PlacesOK, Running, Uploading
<1>11. ASSUME NEW r \in Requests, Collect(r)
       PROVE  PlaceInv'
  <2>1. PICK t \in SUBSET Requests : todo' = [todo EXCEPT ![r] = t]
    BY <1>11 DEF Collect, Live
  <2>2. \E p \in {"bury", "erase"} : pc' = [pc EXCEPT ![r] = p]
    BY <1>11 DEF Collect, Goto
  <2>3. QED
    BY <1>11, <2>1, <2>2 DEF Collect, TypeOK, PlacesOK, Running, Deleting, Uploading
<1>12. ASSUME NEW r \in Requests, Erase(r)
       PROVE  PlaceInv'
  <2>1. PICK f \in todo[r] : /\ face' = [face EXCEPT ![r] = f]
                             /\ objects' \in SUBSET Requests /\ struck' \in SUBSET Requests
    BY <1>12 DEF Erase, TypeOK
  <2>2. f \in Requests
    BY <2>1 DEF TypeOK
  <2>3. QED
    BY <1>12, <2>1, <2>2, NoneAssumption
       DEF Erase, Goto, TypeOK, PlacesOK, Running, Deleting, Uploading
<1>13. ASSUME NEW r \in Requests, Flush(r)
       PROVE  PlaceInv'
  <2>1. \E p \in {"bury", "erase", "commit"} :
          pc' = [pc EXCEPT ![r] = p] /\ (p = "bury" => op[r] = "deletePerson")
    BY <1>13 DEF Flush, Goto
  <2>2. pc[r] = "flush" /\ face[r] \in Requests /\ op[r] \in {"deleteFace", "deletePerson"}
    BY <1>13 DEF Flush, PlacesOK, TypeOK
  <2>3. /\ gone' = [gone EXCEPT ![r] = @ \cup {face[r]}]
        /\ todo' = [todo EXCEPT ![r] = @ \ {face[r]}]
        /\ UNCHANGED <<op, person, wish, face, draft, tables, objects, cache, history>>
    BY <1>13 DEF Flush
  <2>4. TypeOK'
    BY <2>1, <2>2, <2>3 DEF TypeOK, Running, Deleting
  <2>5. PlacesOK'
    <3>1. CASE op[r] = "deletePerson"
      BY <2>1, <2>2, <2>3, <3>1 DEF TypeOK, PlacesOK, Uploading
    <3>2. CASE op[r] = "deleteFace"
      BY <2>1, <2>2, <2>3, <3>2 DEF TypeOK, PlacesOK, Uploading
    <3>3. QED
      BY <2>2, <3>1, <3>2
  <2>6. QED
    BY <2>4, <2>5
<1>14. ASSUME NEW r \in Requests, Commit(r)
       PROVE  PlaceInv'
  <2>1. /\ pc[r] = "commit" /\ pc' = [pc EXCEPT ![r] = "done"]
        /\ UNCHANGED <<op, work, objects, cache, history>>
    BY <1>14 DEF Commit, Goto
  <2>2. /\ faces' \in [Requests -> RowStates] /\ persons' \in [Requests -> RowStates]
        /\ ext' \in [Requests -> Exts \cup {Unnamed}]
    BY <1>14 DEF Commit, RowAfter, RowStates, TypeOK
  <2>3. QED
    BY <2>1, <2>2 DEF TypeOK, PlacesOK, Finished, Uploading
<1>15. ASSUME NEW r \in Requests, Fail(r) \/ Victim(r)
       PROVE  PlaceInv'
  <2>1. /\ UNCHANGED <<op, work, tables, objects, cache, raced>>
        /\ pc' = [pc EXCEPT ![r] = "error"] /\ struck' \in SUBSET Requests
    BY <1>15 DEF Fail, Victim, Break, Goto, TypeOK
  <2>2. QED
    BY <2>1 DEF TypeOK, PlacesOK, Finished, Uploading
<1>16. CASE Expire
  BY <1>16 DEF Expire, TypeOK, PlacesOK
<1>17. CASE UNCHANGED vars
  BY <1>17 DEF vars, TypeOK, PlacesOK
<1>18. QED
  BY <1>1, <1>2, <1>3, <1>4, <1>5, <1>6, <1>7, <1>8, <1>9, <1>10, <1>11, <1>12, <1>13,
     <1>14, <1>15, <1>16, <1>17 DEF Next, Arrive, Step

\* Every variable keeps its type, whatever fails.
THEOREM TypeCorrect == Spec => []TypeOK
<1>1. PlaceInv => TypeOK
  BY DEF PlaceInv
<1>2. QED
  BY <1>1, PlaceStart, PlaceStep, PTL DEF Spec

-----------------------------------------------------------------------------
(* Images: the rows that exist, and the digests that are entered.          *)

\* A row is its upload's that committed; deletions name rows only.
RowsOK ==
  /\ \A r \in Requests : faces[r] # "none" => pc[r] = "done" /\ op[r] = "upload"
  /\ \A d \in Requests : \A f \in todo[d] \cup gone[d] : faces[f] # "none"
  /\ \A d \in Requests : op[d] # "upload" /\ face[d] # None => faces[face[d]] # "none"

\* The uploads whose digest is in the unique index and not yet committed.
Entered == {r \in Requests : op[r] = "upload" /\ pc[r] \in {"store", "answer", "commit"}}

DigestsOK ==
  /\ \A r \in Entered, i \in Requests : faces[i] # "none" => Sha[i] # Sha[r]
  /\ \A r, s \in Entered : Sha[r] = Sha[s] => r = s
  /\ RetriesRegisterOnce

LEMMA CommitFaces ==
  ASSUME PlaceInv, RowsOK, NEW r \in Requests, Commit(r)
  PROVE  /\ \A f \in Requests :
              faces'[f] # "none" <=> faces[f] # "none" \/ (f = r /\ op[r] = "upload")
         /\ \A f \in Requests :
              faces'[f] = "live" <=> \/ faces[f] = "live" /\ f \notin gone[r]
                                     \/ f = r /\ op[r] = "upload"
         /\ pc[r] = "commit" /\ pc' = [pc EXCEPT ![r] = "done"]
         /\ UNCHANGED <<op, work, objects, cache, history>>
<1>1. /\ faces' = [f \in Requests |->
                     IF f \in gone[r] THEN "deleted"
                     ELSE IF f = r /\ op[r] = "upload" THEN "live" ELSE faces[f]]
      /\ pc[r] = "commit" /\ pc' = [pc EXCEPT ![r] = "done"]
      /\ UNCHANGED <<op, work, objects, cache, history>>
  BY DEF Commit, Goto
<1>2. /\ \A f \in gone[r] : faces[f] # "none"
      /\ op[r] = "upload" => gone[r] = {}
  BY DEF RowsOK, PlaceInv, PlacesOK
<1>3. QED
  BY <1>1, <1>2

LEMMA RowsStep ==
  ASSUME PlaceInv, RowsOK, [Next]_vars
  PROVE  RowsOK'
<1> USE DEF PlaceInv, work, tables, history
<1>1. ASSUME NEW r \in Requests,
             \/ ArriveUpload(r) \/ ArriveUpdate(r) \/ ArriveDeletePerson(r)
             \/ Replay(r) \/ Miss(r) \/ Check(r) \/ PersonNotFound(r)
             \/ Insert(r) \/ Store(r) \/ Answer(r) \/ StoreFails(r)
      PROVE  RowsOK'
  <2>1. /\ UNCHANGED <<todo, gone, faces>>
        /\ pc[r] # "done" /\ \E p : pc' = [pc EXCEPT ![r] = p]
        /\ op' = op \/ (pc[r] = "idle" /\ \E o : op' = [op EXCEPT ![r] = o])
        /\ face' = face \/ (op[r] = "upload" /\ op' = op /\ \E f : face' = [face EXCEPT ![r] = f])
    BY <1>1 DEF ArriveUpload, ArriveUpdate, ArriveDeletePerson, Replay, Miss, Check,
                PersonNotFound, Insert, Store, Answer, StoreFails, Goto, PlacesOK, Uploading
  <2>2. QED
    BY <2>1 DEF RowsOK, TypeOK, PlacesOK
<1>2. ASSUME NEW r \in Requests,
             ResolveById(r) \/ ResolveByExt(r) \/ ResolveNew(r) \/ Fail(r) \/ Victim(r)
      PROVE  RowsOK'
  <2>1. /\ UNCHANGED <<op, todo, face, gone, faces>>
        /\ pc[r] # "done" /\ \E p : pc' = [pc EXCEPT ![r] = p]
    BY <1>2 DEF ResolveById, ResolveByExt, ResolveNew, Resolved, Fail, Victim, Break, Goto,
                Running, Uploading, Deleting
  <2>2. QED
    BY <2>1 DEF RowsOK, TypeOK
<1>3. ASSUME NEW r \in Requests, Attach(r) \/ Bury(r) \/ Save(r)
      PROVE  RowsOK'
  <2>1. /\ UNCHANGED <<op, todo, face, gone, faces>>
        /\ pc[r] # "done" /\ \E p : pc' = [pc EXCEPT ![r] = p]
    BY <1>3 DEF Attach, Bury, Save, WritePerson, Goto
  <2>2. QED
    BY <2>1 DEF RowsOK, TypeOK
<1>4. ASSUME NEW r \in Requests, ArriveDeleteFace(r)
      PROVE  RowsOK'
  <2>1. PICK f \in Live(faces) : todo' = [todo EXCEPT ![r] = {f}]
    BY <1>4 DEF ArriveDeleteFace
  <2>2. QED
    BY <1>4, <2>1 DEF ArriveDeleteFace, Goto, Live, RowsOK, PlacesOK, TypeOK
<1>5. ASSUME NEW r \in Requests, Collect(r)
      PROVE  RowsOK'
  <2>1. PICK t \in SUBSET Live(faces) : todo' = [todo EXCEPT ![r] = t]
    BY <1>5 DEF Collect
  <2>2. \E p : pc' = [pc EXCEPT ![r] = p]
    BY <1>5 DEF Collect, Goto
  <2>3. QED
    BY <1>5, <2>1, <2>2 DEF Collect, Live, RowsOK, TypeOK
<1>6. ASSUME NEW r \in Requests, Erase(r)
      PROVE  RowsOK'
  BY <1>6 DEF Erase, Goto, RowsOK, TypeOK
<1>7. ASSUME NEW r \in Requests, Flush(r)
      PROVE  RowsOK'
  <2>1. /\ pc[r] = "flush" /\ \E p : pc' = [pc EXCEPT ![r] = p]
        /\ gone' = [gone EXCEPT ![r] = @ \cup {face[r]}]
        /\ todo' = [todo EXCEPT ![r] = @ \ {face[r]}]
        /\ UNCHANGED <<op, face, faces>>
    BY <1>7 DEF Flush, Goto
  <2>2. faces[face[r]] # "none"
    BY <2>1 DEF RowsOK, PlacesOK
  <2>3. QED
    BY <2>1, <2>2 DEF RowsOK, TypeOK
<1>8. ASSUME NEW r \in Requests, Commit(r)
      PROVE  RowsOK'
  <2>1. \A d \in Requests : todo[d] \cup gone[d] \subseteq Requests
    BY DEF TypeOK
  <2>2. QED
    BY <1>8, <2>1, CommitFaces DEF RowsOK, TypeOK
<1>9. CASE Expire \/ UNCHANGED vars
  BY <1>9 DEF Expire, vars, RowsOK
<1>10. QED
  BY <1>1, <1>2, <1>3, <1>4, <1>5, <1>6, <1>7, <1>8, <1>9 DEF Next, Arrive, Step

LEMMA DigestsStep ==
  ASSUME PlaceInv, RowsOK, DigestsOK, [Next]_vars
  PROVE  DigestsOK'
<1> USE DEF PlaceInv, work, tables, history
<1>1. ASSUME UNCHANGED faces, Entered' \subseteq Entered
      PROVE  DigestsOK'
  BY <1>1 DEF DigestsOK, RetriesRegisterOnce
<1>2. ASSUME NEW r \in Requests, UNCHANGED <<op, faces>>,
             NEW p \in {"idle", "check", "lookup", "replayed", "rejected", "resolve",
                        "attach", "insert", "error", "bury", "erase", "flush"},
             pc' = [pc EXCEPT ![r] = p]
      PROVE  DigestsOK'
  BY <1>1, <1>2 DEF Entered, TypeOK
<1>3. ASSUME NEW r \in Requests, UNCHANGED <<op, faces>>, op[r] # "upload",
             NEW p, pc' = [pc EXCEPT ![r] = p]
      PROVE  DigestsOK'
  BY <1>1, <1>3 DEF Entered, TypeOK
<1>4. ASSUME NEW r \in Requests,
             \/ ArriveUpload(r) \/ Replay(r) \/ Miss(r) \/ Check(r) \/ PersonNotFound(r)
             \/ StoreFails(r) \/ Fail(r) \/ Victim(r) \/ Collect(r) \/ Erase(r)
      PROVE  DigestsOK'
  BY <1>2, <1>4 DEF ArriveUpload, Replay, Miss, Check, PersonNotFound, StoreFails, Fail,
                    Victim, Break, Collect, Erase, Goto
<1>5. ASSUME NEW r \in Requests, ResolveById(r) \/ ResolveByExt(r) \/ ResolveNew(r)
      PROVE  DigestsOK'
  BY <1>2, <1>5 DEF ResolveById, ResolveByExt, ResolveNew, Resolved, Goto
<1>6. ASSUME NEW r \in Requests, Attach(r)
      PROVE  DigestsOK'
  BY <1>2, <1>6 DEF Attach, WritePerson, Goto
<1>7. ASSUME NEW r \in Requests, Bury(r) \/ Save(r) \/ Flush(r)
      PROVE  DigestsOK'
  <2>1. op[r] # "upload" /\ UNCHANGED <<op, faces>>
    BY <1>7 DEF Bury, Save, Flush, WritePerson, PlacesOK
  <2>2. \E p : pc' = [pc EXCEPT ![r] = p]
    BY <1>7 DEF Bury, Save, Flush, WritePerson, Goto
  <2>3. QED
    BY <1>3, <2>1, <2>2
<1>8. ASSUME NEW r \in Requests,
             ArriveDeleteFace(r) \/ ArriveDeletePerson(r) \/ ArriveUpdate(r)
      PROVE  DigestsOK'
  BY <1>1, <1>8 DEF ArriveDeleteFace, ArriveDeletePerson, ArriveUpdate, Goto, Entered, TypeOK
<1>9. ASSUME NEW r \in Requests, Store(r) \/ Answer(r)
      PROVE  DigestsOK'
  <2>1. Entered' = Entered /\ UNCHANGED faces
    BY <1>9 DEF Store, Answer, Goto, Entered, TypeOK
  <2>2. QED
    BY <1>1, <2>1
<1>10. ASSUME NEW r \in Requests, Insert(r)
       PROVE  DigestsOK'
  <2>1. CASE \E i \in Requests : faces[i] # "none" /\ Sha[i] = Sha[r]
    BY <1>2, <1>10, <2>1 DEF Insert, Goto
  <2>2. CASE ~ \E i \in Requests : faces[i] # "none" /\ Sha[i] = Sha[r]
    <3>1. pc[r] = "insert" /\ ImageHolders(r) = {}
      BY <1>10 DEF Insert, Blockers
    <3>2. \A s \in Entered : s # r /\ Sha[s] # Sha[r]
      BY <3>1 DEF ImageHolders, Others, Entered, Running, Uploading
    <3>3. pc' = [pc EXCEPT ![r] = "store"] /\ UNCHANGED <<op, faces>>
      BY <1>10, <2>2 DEF Insert, Goto
    <3>4. Entered' \subseteq Entered \cup {r}
      BY <3>3 DEF Entered, TypeOK
    <3>5. QED
      BY <2>2, <3>2, <3>3, <3>4 DEF DigestsOK, RetriesRegisterOnce, Entered
  <2>3. QED
    BY <2>1, <2>2
<1>11. ASSUME NEW r \in Requests, Commit(r)
       PROVE  DigestsOK'
  <2>1. /\ \A f \in Requests :
             faces'[f] # "none" => faces[f] # "none" \/ (f = r /\ r \in Entered)
        /\ Entered' \subseteq Entered \ {r}
    BY <1>11, CommitFaces DEF Entered, TypeOK
  <2>2. QED
    BY <2>1 DEF DigestsOK, RetriesRegisterOnce, Entered
<1>12. CASE Expire \/ UNCHANGED vars
  BY <1>1, <1>12 DEF Expire, vars, Entered
<1>13. QED
  BY <1>4, <1>5, <1>6, <1>7, <1>8, <1>9, <1>10, <1>11, <1>12 DEF Next, Arrive, Step

ImageInv == PlaceInv /\ RowsOK /\ DigestsOK

LEMMA ImageStart == Init => ImageInv
BY PlaceStart DEF Init, ImageInv, RowsOK, DigestsOK, RetriesRegisterOnce, Entered

LEMMA ImageStep == ImageInv /\ [Next]_vars => ImageInv'
BY PlaceStep, RowsStep, DigestsStep DEF ImageInv

\* However retries and lost cache entries interleave, no two committed images
\* have one digest: the unique index makes the second upload wait for the first.
THEOREM RegisteredOnce == Spec => []RetriesRegisterOnce
<1>1. ImageInv => RetriesRegisterOnce
  BY DEF ImageInv, DigestsOK
<1>2. QED
  BY <1>1, ImageStart, ImageStep, PTL DEF Spec

-----------------------------------------------------------------------------
(* Objects and kept answers.                                               *)

\* The uploads that committed, are about to, or failed past their store.
Backed ==
  {f \in Requests : faces[f] # "none" \/ (op[f] = "upload" /\ pc[f] = "commit") \/ f \in struck}

AnswersOK ==
  /\ \A k \in Keys : cache[k] \in Backed \cup {None}
  /\ \A r \in Requests : pc[r] = "replayed" => face[r] \in Backed

StoredOK ==
  /\ \A r \in Requests : op[r] = "upload" /\ pc[r] \in {"answer", "commit"} => r \in objects
  /\ \A d \in Requests :
       op[d] # "upload" /\ pc[d] \in {"collect", "erase", "bury", "save", "commit"} =>
         face[d] \in gone[d] \cup {None}
  /\ LiveFacesStored

\* What holds of the objects while nothing has gone wrong past a change of them.
CleanOK ==
  /\ \A d \in Requests :
       op[d] # "upload" /\ pc[d] = "error" /\ face[d] # None => d \in struck
  /\ struck = {} =>
       /\ \A d \in Requests : op[d] # "upload" => (gone[d] \cup {face[d]}) \cap objects = {}
       /\ \A f \in objects :
            faces[f] = "live" \/ (op[f] = "upload" /\ pc[f] \in {"answer", "commit"})

StorageInv == ImageInv /\ AnswersOK /\ StoredOK /\ CleanOK

LEMMA StorageStart == Init => StorageInv
BY ImageStart, NoneAssumption
   DEF Init, StorageInv, AnswersOK, StoredOK, CleanOK, LiveFacesStored, Live

LEMMA BackedStays ==
  ASSUME StorageInv, [Next]_vars
  PROVE  Backed \subseteq Backed'
<1> SUFFICES ASSUME NEW f \in Backed
             PROVE  f \in Backed'
  OBVIOUS
<1> f \in Requests
  BY DEF Backed
<1> USE DEF StorageInv, ImageInv, PlaceInv, work, tables, history
<1>1. struck \subseteq struck'
  <2>1. ASSUME NEW r \in Requests, Arrive(r) \/ Step(r) \/ Fail(r) \/ StoreFails(r)
        PROVE  struck \subseteq struck'
    BY <2>1 DEF Arrive, Step, ArriveUpload, ArriveDeleteFace, ArriveDeletePerson, ArriveUpdate,
                Replay, Miss, Check, ResolveById, PersonNotFound, ResolveByExt, ResolveNew,
                Resolved, Attach, Insert, Store, Answer, Collect, Erase, Flush, Bury, Save,
                WritePerson, Commit, Victim, Fail, StoreFails, Break
  <2>2. QED
    BY <2>1 DEF Next, Expire, vars
<1>2. faces[f] # "none" => faces'[f] # "none"
  <2>1. ASSUME NEW r \in Requests, Commit(r)
        PROVE  faces[f] # "none" => faces'[f] # "none"
    BY <2>1, CommitFaces
  <2>2. ASSUME NEW r \in Requests, Arrive(r) \/ Step(r) \/ Fail(r) \/ StoreFails(r), ~ Commit(r)
        PROVE  UNCHANGED faces
    BY <2>2 DEF Arrive, Step, ArriveUpload, ArriveDeleteFace, ArriveDeletePerson, ArriveUpdate,
                Replay, Miss, Check, ResolveById, PersonNotFound, ResolveByExt, ResolveNew,
                Resolved, Attach, Insert, Store, Answer, Collect, Erase, Flush, Bury, Save,
                WritePerson, Victim, Fail, StoreFails, Break
  <2>3. QED
    BY <2>1, <2>2 DEF Next, Expire, vars
<1>3. CASE op[f] = "upload" /\ pc[f] = "commit"
  <2>1. ASSUME NEW r \in Requests, Commit(r) \/ Fail(r) \/ Victim(r)
        PROVE  f \in Backed'
    <3>1. CASE r # f
      <4>1. UNCHANGED op /\ \E p : pc' = [pc EXCEPT ![r] = p]
        BY <2>1 DEF Commit, Fail, Victim, Break, Goto
      <4>2. QED
        BY <1>3, <3>1, <4>1 DEF Backed, TypeOK
    <3>2. CASE r = f /\ Commit(r)
      BY <1>3, <3>2, CommitFaces DEF Backed
    <3>3. CASE r = f /\ Break(r)
      BY <1>3, <3>3 DEF Break, StoredOK, Backed
    <3>4. QED
      BY <2>1, <3>1, <3>2, <3>3 DEF Fail, Victim
  <2>2. ASSUME NEW r \in Requests, Arrive(r)
        PROVE  f \in Backed'
    BY <1>3, <2>2 DEF Arrive, ArriveUpload, ArriveDeleteFace, ArriveDeletePerson, ArriveUpdate,
                      Goto, Backed, TypeOK
  <2>3. ASSUME NEW r \in Requests, \/ Replay(r) \/ Miss(r) \/ Check(r) \/ PersonNotFound(r)
                                   \/ Insert(r) \/ Store(r) \/ StoreFails(r) \/ Answer(r)
        PROVE  f \in Backed'
    BY <1>3, <2>3 DEF Replay, Miss, Check, PersonNotFound, Insert, Store, StoreFails, Answer,
                      Goto, Backed, TypeOK
  <2>4. ASSUME NEW r \in Requests, ResolveById(r) \/ ResolveByExt(r) \/ ResolveNew(r)
        PROVE  f \in Backed'
    BY <1>3, <2>4 DEF ResolveById, ResolveByExt, ResolveNew, Resolved, Goto, Backed, TypeOK
  <2>5. ASSUME NEW r \in Requests, Attach(r) \/ Bury(r) \/ Save(r)
        PROVE  f \in Backed'
    BY <1>3, <2>5 DEF Attach, Bury, Save, WritePerson, Goto, Backed, TypeOK
  <2>6. ASSUME NEW r \in Requests, Collect(r) \/ Erase(r) \/ Flush(r)
        PROVE  f \in Backed'
    BY <1>3, <2>6 DEF Collect, Erase, Flush, Goto, Backed, TypeOK
  <2>7. CASE Expire \/ UNCHANGED vars
    BY <1>3, <2>7 DEF Expire, vars, Backed
  <2>8. QED
    BY <2>1, <2>2, <2>3, <2>4, <2>5, <2>6, <2>7 DEF Next, Step
<1>4. QED
  BY <1>1, <1>2, <1>3 DEF Backed

LEMMA AnswersStep ==
  ASSUME StorageInv, [Next]_vars
  PROVE  AnswersOK'
<1> USE DEF StorageInv, ImageInv, PlaceInv, work, tables, history
<1>1. ASSUME \A k \in Keys : cache'[k] \in Backed' \cup {cache[k], None},
             \A r \in Requests : pc'[r] = "replayed" =>
               face'[r] \in Backed' \/ (pc[r] = "replayed" /\ face'[r] = face[r])
      PROVE  AnswersOK'
  BY <1>1, BackedStays DEF AnswersOK
<1>2. ASSUME NEW r \in Requests, Replay(r)
      PROVE  AnswersOK'
  <2>1. Key[r] \in Keys /\ cache[Key[r]] # None
    BY <1>2 DEF Replay, PlacesOK, Keys
  <2>2. cache[Key[r]] \in Backed'
    BY <2>1, BackedStays DEF AnswersOK
  <2>3. /\ pc' = [pc EXCEPT ![r] = "replayed"] /\ UNCHANGED cache
        /\ face' = [face EXCEPT ![r] = cache[Key[r]]]
    BY <1>2 DEF Replay, Goto
  <2>4. QED
    BY <1>1, <2>2, <2>3 DEF TypeOK
<1>3. ASSUME NEW r \in Requests, Answer(r)
      PROVE  AnswersOK'
  <2>1. /\ cache' = [k \in Keys |-> IF k = Key[r] THEN r ELSE cache[k]]
        /\ pc' = [pc EXCEPT ![r] = "commit"] /\ op[r] = "upload" /\ UNCHANGED <<op, face>>
    BY <1>3 DEF Answer, Goto, PlacesOK, Uploading
  <2>2. r \in Backed'
    BY <2>1 DEF Backed, TypeOK
  <2>3. QED
    BY <1>1, <2>1, <2>2 DEF TypeOK
<1>4. CASE Expire
  BY <1>1, <1>4 DEF Expire, TypeOK
<1>5. ASSUME NEW r \in Requests, Arrive(r)
      PROVE  AnswersOK'
  BY <1>1, <1>5 DEF Arrive, ArriveUpload, ArriveDeleteFace, ArriveDeletePerson, ArriveUpdate,
                    Goto, TypeOK
<1>6. ASSUME NEW r \in Requests, \/ Miss(r) \/ Check(r) \/ PersonNotFound(r)
                                 \/ Insert(r) \/ Store(r) \/ StoreFails(r) \/ Commit(r)
      PROVE  AnswersOK'
  BY <1>1, <1>6 DEF Miss, Check, PersonNotFound, Insert, Store, StoreFails, Commit, Goto, TypeOK
<1>7. ASSUME NEW r \in Requests, ResolveById(r) \/ ResolveByExt(r) \/ ResolveNew(r)
      PROVE  AnswersOK'
  BY <1>1, <1>7 DEF ResolveById, ResolveByExt, ResolveNew, Resolved, Goto, TypeOK
<1>8. ASSUME NEW r \in Requests, Attach(r) \/ Bury(r) \/ Save(r) \/ Fail(r) \/ Victim(r)
      PROVE  AnswersOK'
  BY <1>1, <1>8 DEF Attach, Bury, Save, WritePerson, Fail, Victim, Break, Goto, TypeOK
<1>9. ASSUME NEW r \in Requests, Collect(r) \/ Erase(r) \/ Flush(r)
      PROVE  AnswersOK'
  BY <1>1, <1>9 DEF Collect, Erase, Flush, Goto, TypeOK
<1>10. CASE UNCHANGED vars
  BY <1>1, <1>10 DEF vars
<1>11. QED
  BY <1>2, <1>3, <1>4, <1>5, <1>6, <1>7, <1>8, <1>9, <1>10 DEF Next, Step

LEMMA StoredStep ==
  ASSUME StorageInv, [Next]_vars
  PROVE  StoredOK'
<1> USE DEF StorageInv, ImageInv, PlaceInv, work, tables, history, Live
<1>1. ASSUME NEW r \in Requests, Arrive(r)
      PROVE  StoredOK'
  <2>1. /\ UNCHANGED <<objects, faces, face, gone>>
        /\ pc[r] = "idle" /\ op[r] = "upload" /\ face[r] = None
        /\ \E o : op' = [op EXCEPT ![r] = o]
        /\ \E p : pc' = [pc EXCEPT ![r] = p] /\ p \notin {"answer", "commit"}
    <3>1. pc[r] = "idle"
      BY <1>1 DEF Arrive, ArriveUpload, ArriveDeleteFace, ArriveDeletePerson, ArriveUpdate
    <3>2. op' = op => op' = [op EXCEPT ![r] = op[r]]
      BY DEF TypeOK
    <3>3. QED
      BY <1>1, <3>1, <3>2
         DEF Arrive, ArriveUpload, ArriveDeleteFace, ArriveDeletePerson, ArriveUpdate, Goto,
             PlacesOK
  <2>2. QED
    BY <2>1 DEF StoredOK, LiveFacesStored, TypeOK
<1>2. ASSUME NEW r \in Requests, \/ Replay(r) \/ Miss(r) \/ Check(r) \/ PersonNotFound(r)
                                 \/ Insert(r) \/ Store(r) \/ StoreFails(r) \/ Answer(r)
      PROVE  StoredOK'
  <2>1. /\ op[r] = "upload" /\ UNCHANGED <<op, faces, gone>>
        /\ objects \subseteq objects'
        /\ \E f : face' = [face EXCEPT ![r] = f]
        /\ \E p : /\ pc' = [pc EXCEPT ![r] = p]
                  /\ p = "answer" => r \in objects'
                  /\ p = "commit" => pc[r] = "answer"
    <3>1. op[r] = "upload"
      BY <1>2 DEF Replay, Miss, Check, PersonNotFound, Insert, Store, StoreFails, Answer,
                  PlacesOK, Uploading
    <3>2. face' = face => face' = [face EXCEPT ![r] = face[r]]
      BY DEF TypeOK
    <3>3. QED
      BY <1>2, <3>1, <3>2
         DEF Replay, Miss, Check, PersonNotFound, Insert, Store, StoreFails, Answer, Goto
  <2>2. QED
    BY <2>1 DEF StoredOK, LiveFacesStored, TypeOK
<1>3. ASSUME NEW r \in Requests,
             ResolveById(r) \/ ResolveByExt(r) \/ ResolveNew(r) \/ Attach(r)
      PROVE  StoredOK'
  <2>1. /\ op[r] = "upload" /\ UNCHANGED <<op, faces, gone, face, objects>>
        /\ \E p \in {"attach", "insert", "error"} : pc' = [pc EXCEPT ![r] = p]
    BY <1>3 DEF ResolveById, ResolveByExt, ResolveNew, Resolved, Attach, WritePerson, Goto,
                PlacesOK, Uploading
  <2>2. QED
    BY <2>1 DEF StoredOK, LiveFacesStored, TypeOK
<1>4. ASSUME NEW r \in Requests, Fail(r) \/ Victim(r)
      PROVE  StoredOK'
  BY <1>4 DEF Fail, Victim, Break, Goto, StoredOK, LiveFacesStored, TypeOK
<1>5. ASSUME NEW r \in Requests, Collect(r) \/ Bury(r) \/ Save(r)
      PROVE  StoredOK'
  <2>1. /\ op[r] # "upload" /\ UNCHANGED <<op, faces, gone, face, objects>>
        /\ pc[r] \in {"collect", "bury", "save"}
        /\ \E p \in {"erase", "bury", "commit", "error"} : pc' = [pc EXCEPT ![r] = p]
    BY <1>5 DEF Collect, Bury, Save, WritePerson, Goto, PlacesOK
  <2>2. QED
    BY <2>1 DEF StoredOK, LiveFacesStored, TypeOK
<1>6. ASSUME NEW r \in Requests, Erase(r)
      PROVE  StoredOK'
  <2>1. PICK f \in todo[r] : face' = [face EXCEPT ![r] = f] /\ objects \ {f} \subseteq objects'
    BY <1>6 DEF Erase
  <2>2. /\ op[r] # "upload" /\ pc[r] = "erase" /\ UNCHANGED <<op, gone, faces>>
        /\ pc' = [pc EXCEPT ![r] = "flush"]
    BY <1>6 DEF Erase, Goto, PlacesOK
  <2>3. pc[f] = "done"
    BY DEF RowsOK, TypeOK
  <2>4. \A x \in Requests : op[x] = "upload" /\ pc'[x] \in {"answer", "commit"} => x \in objects'
    BY <2>1, <2>2, <2>3 DEF StoredOK, TypeOK
  <2>5. LiveFacesStored'
    <3>1. SUFFICES ASSUME NEW x \in Requests, faces[x] = "live", x \notin objects'
                   PROVE  \E d \in Requests : op[d] # "upload" /\ pc'[d] # "done"
                                              /\ x \in gone[d] \cup {face'[d]}
      BY <2>2 DEF LiveFacesStored
    <3>2. CASE x = f
      BY <2>1, <2>2, <3>2 DEF TypeOK
    <3>3. CASE x # f
      <4>1. PICK d \in Requests : op[d] # "upload" /\ pc[d] # "done"
                                  /\ x \in gone[d] \cup {face[d]}
        BY <2>1, <3>1, <3>3 DEF StoredOK, LiveFacesStored
      <4>2. d = r => x \in gone[d]
        BY <2>2, <4>1, NoneAssumption DEF StoredOK
      <4>3. QED
        BY <2>1, <2>2, <4>1, <4>2 DEF TypeOK
    <3>4. QED
      BY <3>2, <3>3
  <2>6. QED
    BY <2>1, <2>2, <2>4, <2>5 DEF StoredOK, TypeOK
<1>7. ASSUME NEW r \in Requests, Flush(r)
      PROVE  StoredOK'
  <2>1. /\ op[r] # "upload" /\ UNCHANGED <<op, faces, face, objects>>
        /\ gone' = [gone EXCEPT ![r] = @ \cup {face[r]}]
        /\ \E p \in {"erase", "bury", "commit"} : pc' = [pc EXCEPT ![r] = p]
    BY <1>7 DEF Flush, Goto, PlacesOK
  <2>2. QED
    BY <2>1 DEF StoredOK, LiveFacesStored, TypeOK
<1>8. ASSUME NEW r \in Requests, Commit(r)
      PROVE  StoredOK'
  <2>1. /\ \A f \in Requests : faces'[f] = "live" <=> \/ faces[f] = "live" /\ f \notin gone[r]
                                                      \/ f = r /\ op[r] = "upload"
        /\ pc[r] = "commit" /\ pc' = [pc EXCEPT ![r] = "done"]
        /\ UNCHANGED <<op, work, objects>>
    BY <1>8, CommitFaces
  <2>2. LiveFacesStored'
    <3>1. SUFFICES ASSUME NEW x \in Requests, faces'[x] = "live", x \notin objects
                   PROVE  \E d \in Requests : op[d] # "upload" /\ pc'[d] # "done"
                                              /\ x \in gone[d] \cup {face[d]}
      BY <2>1 DEF LiveFacesStored
    <3>2. faces[x] = "live" /\ x \notin gone[r]
      BY <2>1, <3>1 DEF StoredOK
    <3>3. PICK d \in Requests : op[d] # "upload" /\ pc[d] # "done"
                                /\ x \in gone[d] \cup {face[d]}
      BY <3>1, <3>2 DEF StoredOK, LiveFacesStored
    <3>4. d # r
      BY <2>1, <3>2, <3>3, NoneAssumption DEF StoredOK
    <3>5. QED
      BY <2>1, <3>3, <3>4 DEF TypeOK
  <2>3. QED
    BY <2>1, <2>2 DEF StoredOK, TypeOK
<1>9. CASE Expire \/ UNCHANGED vars
  BY <1>9 DEF Expire, vars, StoredOK, LiveFacesStored
<1>10. QED
  BY <1>1, <1>2, <1>3, <1>4, <1>5, <1>6, <1>7, <1>8, <1>9 DEF Next, Step

LEMMA CleanStep ==
  ASSUME StorageInv, [Next]_vars
  PROVE  CleanOK'
<1> USE DEF StorageInv, ImageInv, PlaceInv, work, tables, history
<1>1. ASSUME NEW r \in Requests, Arrive(r)
      PROVE  CleanOK'
  <2>1. /\ pc[r] = "idle" /\ op[r] = "upload" /\ face[r] = None /\ gone[r] = {}
    BY <1>1 DEF Arrive, ArriveUpload, ArriveDeleteFace, ArriveDeletePerson, ArriveUpdate, PlacesOK
  <2>2. /\ UNCHANGED <<objects, faces, face, gone, struck>>
        /\ \E o : op' = [op EXCEPT ![r] = o]
        /\ \E p : pc' = [pc EXCEPT ![r] = p] /\ p # "error"
    <3>1. op' = op => op' = [op EXCEPT ![r] = op[r]]
      BY DEF TypeOK
    <3>2. QED
      BY <1>1, <3>1
         DEF Arrive, ArriveUpload, ArriveDeleteFace, ArriveDeletePerson, ArriveUpdate, Goto
  <2>3. None \notin objects
    BY NoneAssumption DEF TypeOK
  <2>4. QED
    BY <2>1, <2>2, <2>3 DEF CleanOK, TypeOK
<1>2. ASSUME NEW r \in Requests, \/ Replay(r) \/ Miss(r) \/ Check(r) \/ PersonNotFound(r)
                                 \/ Insert(r) \/ Answer(r)
      PROVE  CleanOK'
  <2>1. /\ op[r] = "upload" /\ UNCHANGED <<op, faces, gone, objects, struck>>
        /\ \E f : face' = [face EXCEPT ![r] = f]
        /\ \E p : pc' = [pc EXCEPT ![r] = p] /\ (pc[r] = "answer" => p = "commit")
        /\ pc[r] # "commit"
    <3>1. op[r] = "upload"
      BY <1>2 DEF Replay, Miss, Check, PersonNotFound, Insert, Answer, PlacesOK, Uploading
    <3>2. face' = face => face' = [face EXCEPT ![r] = face[r]]
      BY DEF TypeOK
    <3>3. QED
      BY <1>2, <3>1, <3>2 DEF Replay, Miss, Check, PersonNotFound, Insert, Answer, Goto
  <2>2. QED
    BY <2>1 DEF CleanOK, TypeOK
<1>3. ASSUME NEW r \in Requests,
             ResolveById(r) \/ ResolveByExt(r) \/ ResolveNew(r) \/ Attach(r)
      PROVE  CleanOK'
  <2>1. /\ op[r] = "upload" /\ UNCHANGED <<op, faces, gone, face, objects, struck>>
        /\ \E p : pc' = [pc EXCEPT ![r] = p]
        /\ pc[r] \notin {"answer", "commit"}
    BY <1>3 DEF ResolveById, ResolveByExt, ResolveNew, Resolved, Attach, WritePerson, Goto,
                PlacesOK, Uploading
  <2>2. QED
    BY <2>1 DEF CleanOK, TypeOK
<1>4. ASSUME NEW r \in Requests, Store(r) \/ StoreFails(r)
      PROVE  CleanOK'
  <2>1. /\ op[r] = "upload" /\ UNCHANGED <<op, faces, gone, face>>
        /\ objects' = objects \cup {r} /\ pc[r] = "store"
        /\ \/ pc' = [pc EXCEPT ![r] = "answer"] /\ struck' = struck
           \/ pc' = [pc EXCEPT ![r] = "error"] /\ struck' = struck \cup {r}
    BY <1>4 DEF Store, StoreFails, Goto, PlacesOK, Uploading
  <2>2. faces[r] = "none"
    BY <2>1 DEF RowsOK
  <2>3. \A d \in Requests : op[d] # "upload" => r \notin gone[d] \cup {face[d]}
    BY <2>2, NoneAssumption DEF RowsOK
  <2>4. \A d \in Requests :
          op[d] # "upload" /\ pc'[d] = "error" /\ face[d] # None => d \in struck'
    BY <2>1 DEF CleanOK, TypeOK
  <2>5. CASE struck' = struck
    <3>1. struck = {} => pc' = [pc EXCEPT ![r] = "answer"]
      BY <2>1, <2>5
    <3>2. struck = {} => \A d \in Requests :
            op'[d] # "upload" => (gone'[d] \cup {face'[d]}) \cap objects' = {}
      BY <2>1, <2>3 DEF CleanOK
    <3>3. struck = {} => \A f \in objects' :
            faces'[f] = "live" \/ (op'[f] = "upload" /\ pc'[f] \in {"answer", "commit"})
      BY <2>1, <3>1 DEF CleanOK, TypeOK
    <3>4. QED
      BY <2>4, <2>5, <2>1, <3>2, <3>3 DEF CleanOK
  <2>6. CASE struck' = struck \cup {r}
    BY <2>1, <2>4, <2>6 DEF CleanOK
  <2>7. QED
    BY <2>1, <2>5, <2>6
<1>5. ASSUME NEW r \in Requests, Fail(r) \/ Victim(r)
      PROVE  CleanOK'
  <2>1. /\ UNCHANGED <<op, faces, gone, face, objects>> /\ pc' = [pc EXCEPT ![r] = "error"]
        /\ struck \subseteq struck'
        /\ r \in objects \/ (op[r] # "upload" /\ face[r] # None) => r \in struck'
    BY <1>5 DEF Fail, Victim, Break, Goto
  <2>2. QED
    BY <2>1 DEF CleanOK, TypeOK
<1>6. ASSUME NEW r \in Requests, Collect(r) \/ Bury(r) \/ Save(r)
      PROVE  CleanOK'
  <2>1. /\ op[r] # "upload" /\ UNCHANGED <<op, faces, gone, face, objects, struck>>
        /\ \E p : pc' = [pc EXCEPT ![r] = p] /\ (p = "error" => pc[r] = "save")
    BY <1>6 DEF Collect, Bury, Save, WritePerson, Goto, PlacesOK
  <2>2. pc[r] = "save" => face[r] = None
    BY <2>1 DEF PlacesOK, StoredOK
  <2>3. QED
    BY <2>1, <2>2 DEF CleanOK, TypeOK
<1>7. ASSUME NEW r \in Requests, Erase(r)
      PROVE  CleanOK'
  <2>1. PICK f \in todo[r] : /\ face' = [face EXCEPT ![r] = f]
                             /\ \/ objects' = objects \ {f} /\ UNCHANGED struck
                                \/ UNCHANGED objects /\ struck' = struck \cup {r}
    BY <1>7 DEF Erase
  <2>2. /\ op[r] # "upload" /\ UNCHANGED <<op, gone, faces>>
        /\ pc' = [pc EXCEPT ![r] = "flush"]
    BY <1>7 DEF Erase, Goto, PlacesOK
  <2>3. QED
    BY <2>1, <2>2 DEF CleanOK, TypeOK
<1>8. ASSUME NEW r \in Requests, Flush(r)
      PROVE  CleanOK'
  <2>1. /\ op[r] # "upload" /\ UNCHANGED <<op, faces, face, objects, struck>>
        /\ gone' = [gone EXCEPT ![r] = @ \cup {face[r]}]
        /\ \E p \in {"erase", "bury", "commit"} : pc' = [pc EXCEPT ![r] = p]
    BY <1>8 DEF Flush, Goto, PlacesOK
  <2>2. QED
    BY <2>1 DEF CleanOK, TypeOK
<1>9. ASSUME NEW r \in Requests, Commit(r)
      PROVE  CleanOK'
  <2>1. /\ \A f \in Requests : faces'[f] = "live" <=> \/ faces[f] = "live" /\ f \notin gone[r]
                                                      \/ f = r /\ op[r] = "upload"
        /\ pc[r] = "commit" /\ pc' = [pc EXCEPT ![r] = "done"]
        /\ UNCHANGED <<op, work, objects, history>>
    BY <1>9, CommitFaces
  <2>2. op[r] = "upload" => gone[r] = {}
    BY DEF PlacesOK
  <2>3. QED
    BY <2>1, <2>2 DEF CleanOK, TypeOK
<1>10. CASE Expire \/ UNCHANGED vars
  BY <1>10 DEF Expire, vars, CleanOK
<1>11. QED
  BY <1>1, <1>2, <1>3, <1>4, <1>5, <1>6, <1>7, <1>8, <1>9, <1>10 DEF Next, Step

LEMMA StorageStep == StorageInv /\ [Next]_vars => StorageInv'
BY ImageStep, AnswersStep, StoredStep, CleanStep DEF StorageInv

\* A live face whose objects are gone is in the hands of a deletion that did not
\* commit: whatever fails, nothing else takes an object from a registered face.
THEOREM FacesStored == Spec => []LiveFacesStored
<1>1. StorageInv => LiveFacesStored
  BY DEF StorageInv, StoredOK
<1>2. QED
  BY <1>1, StorageStart, StorageStep, PTL DEF Spec

\* The face a replayed answer names is registered or about to be, unless its
\* upload failed after it had kept the answer.
THEOREM ReplaysKept == Spec => []ReplaysAccounted
<1>1. StorageInv => ReplaysAccounted
  BY DEF StorageInv, AnswersOK, Backed, ReplaysAccounted
<1>2. QED
  BY <1>1, StorageStart, StorageStep, PTL DEF Spec

\* At rest, and when no request failed past its first change of the storage, no
\* object is left over and none is missing.
THEOREM ObjectsMatch == Spec => []ObjectsMatchFaces
<1>1. StorageInv => ObjectsMatchFaces
  <2> USE DEF StorageInv, ImageInv, PlaceInv
  <2>1. SUFFICES ASSUME StorageInv, struck = {}, \A r \in Requests : pc[r] \notin Running
                 PROVE  objects = Live(faces)
    BY DEF ObjectsMatchFaces
  <2>2. ASSUME NEW f \in objects
        PROVE  f \in Live(faces)
    BY <2>1, <2>2 DEF CleanOK, TypeOK, Live, Running, Uploading
  <2>3. ASSUME NEW f \in Live(faces), f \notin objects
        PROVE  FALSE
    <3>1. PICK d \in Requests : op[d] # "upload" /\ pc[d] # "done" /\ f \in gone[d] \cup {face[d]}
      BY <2>1, <2>3 DEF StoredOK, LiveFacesStored
    <3>2. pc[d] = "error"
      BY <2>1, <3>1 DEF TypeOK, Finished, Uploading, PlacesOK
    <3>3. face[d] # None
      BY <2>1, <2>3, <3>1, NoneAssumption DEF PlacesOK, Live
    <3>4. QED
      BY <2>1, <3>1, <3>2, <3>3 DEF CleanOK
  <2>4. QED
    BY <2>2, <2>3
<1>2. QED
  BY <1>1, StorageStart, StorageStep, PTL DEF Spec

-----------------------------------------------------------------------------
(* External ids: the rows and keys that transactions hold.                 *)

\* The running requests that have written a person.
Writers == {r \in Requests : pc[r] \in Running /\ draft[r].person # None}

\* Those that enter a key of the unique index.
Namers == {r \in Writers : /\ draft[r].live /\ persons[draft[r].person] # "deleted"
                           /\ draft[r].ext # Unnamed}

KeysOK ==
  /\ \A r, s \in Writers : draft[r].person = draft[s].person => r = s
  /\ \A r, s \in Namers : draft[r].ext = draft[s].ext => r = s
  /\ \A r \in Namers, q \in Live(persons) : ext[q] = draft[r].ext => q = draft[r].person
  /\ OnePersonPerExternalId

KeyInv == PlaceInv /\ KeysOK

LEMMA KeyStart == Init => KeyInv
BY PlaceStart
   DEF Init, KeyInv, KeysOK, Writers, Namers, OnePersonPerExternalId, Live, NoDraft

\* A step that writes no person.
LEMMA QuietKeys ==
  ASSUME KeyInv, NEW r \in Requests, pc[r] \in {"idle"} \cup Running,
         NEW p, pc' = [pc EXCEPT ![r] = p], UNCHANGED <<draft, persons, ext>>
  PROVE  KeysOK'
<1>1. Writers' \subseteq Writers
  BY DEF KeyInv, PlaceInv, PlacesOK, TypeOK, Writers, NoDraft
<1>2. QED
  BY <1>1 DEF KeyInv, KeysOK, Namers, OnePersonPerExternalId, Live

LEMMA WriteKeepsKeys ==
  ASSUME KeyInv, NEW r \in Requests, NEW live \in BOOLEAN, NEW next, WritePerson(r, live, next),
         pc[r] \in {"attach", "save"} \/ (pc[r] = "bury" /\ ~ live)
  PROVE  KeysOK'
<1> USE DEF KeyInv, PlaceInv, tables, history
<1>1. pc[r] \in Running /\ person[r] \in Requests
  BY DEF Running, Uploading, Deleting, PlacesOK, TypeOK
<1>2. CASE live /\ Taken(r)
  BY <1>1, <1>2, QuietKeys DEF WritePerson, Goto
<1>3. CASE ~ (live /\ Taken(r))
  <2> DEFINE d == [person |-> person[r], ext |-> NewExt(r), live |-> live]
  <2>1. /\ draft' = [draft EXCEPT ![r] = d] /\ \E p : pc' = [pc EXCEPT ![r] = p]
        /\ UNCHANGED <<persons, ext>>
    BY <1>3 DEF WritePerson, Goto
  <2>2. draft'[r] = d /\ \A s \in Requests \ {r} : draft'[s] = draft[s] /\ pc'[s] = pc[s]
    BY <2>1 DEF TypeOK
  <2>3. Writers' \subseteq Writers \cup {r} /\ Namers' \subseteq Namers \cup {r}
    BY <2>1, <2>2 DEF Writers, Namers
  <2>4. \A s \in Writers \ {r} : draft[s].person # person[r]
    BY <1>1 DEF WritePerson, Blockers, RowHolders, Others, Writers
  <2>5. ASSUME r \in Namers'
        PROVE  /\ live /\ NewExt(r) # Unnamed /\ persons[person[r]] # "deleted"
               /\ KeyHolders(r) = {} /\ ~ Taken(r)
    <3>1. live /\ NewExt(r) # Unnamed /\ persons[person[r]] # "deleted"
      BY <2>1, <2>2, <2>5 DEF Namers
    <3>2. pc[r] \in {"attach", "save"}
      BY <3>1
    <3>3. QED
      BY <1>3, <3>1, <3>2 DEF WritePerson, Blockers
  <2>6. ASSUME r \in Namers', NEW s \in Namers \ {r}
        PROVE  draft[s].ext # NewExt(r)
    <3>1. s \in Others(r) /\ draft[s].person \notin {None, person[r]}
      BY <2>4 DEF Namers, Writers, Others
    <3>2. QED
      BY <2>5, <2>6, <3>1 DEF KeyHolders, Namers
  <2>7. ASSUME r \in Namers', NEW q \in Live(persons), ext[q] = NewExt(r)
        PROVE  q = person[r]
    BY <2>5, <2>7 DEF Taken
  <2>8. \A a, b \in Writers' : draft'[a].person = draft'[b].person => a = b
    BY <2>2, <2>3, <2>4 DEF KeysOK, Writers
  <2>9. \A a, b \in Namers' : draft'[a].ext = draft'[b].ext => a = b
    BY <2>2, <2>3, <2>6 DEF KeysOK, Namers, Writers
  <2>10. \A a \in Namers', q \in Live(persons)' : ext'[q] = draft'[a].ext => q = draft'[a].person
    BY <2>1, <2>2, <2>3, <2>7 DEF KeysOK, Namers, Writers, Live
  <2>11. OnePersonPerExternalId'
    BY <2>1 DEF KeysOK, OnePersonPerExternalId, Live
  <2>12. QED
    BY <2>8, <2>9, <2>10, <2>11 DEF KeysOK
<1>4. QED
  BY <1>2, <1>3

LEMMA CommitKeepsKeys ==
  ASSUME KeyInv, NEW r \in Requests, Commit(r)
  PROVE  KeysOK'
<1> USE DEF KeyInv, PlaceInv, work, history
<1> DEFINE p == draft[r].person
<1>1. /\ pc' = [pc EXCEPT ![r] = "done"] /\ pc[r] = "commit" /\ UNCHANGED draft
      /\ persons' = [q \in Requests |->
                       IF q = p THEN RowAfter(persons[q], draft[r].live) ELSE persons[q]]
      /\ ext' = [q \in Requests |-> IF q = p THEN draft[r].ext ELSE ext[q]]
  BY DEF Commit, Goto
<1>2. Writers' \subseteq Writers \ {r}
  BY <1>1 DEF Writers, TypeOK, Running, Uploading, Deleting
<1>3. CASE p = None
  <2>1. UNCHANGED <<persons, ext>>
    BY <1>1, <1>3, NoneAssumption DEF TypeOK
  <2>2. QED
    BY <1>1, <2>1, QuietKeys DEF Running
<1>4. CASE p # None
  <2>1. r \in Writers /\ p \in Requests
    BY <1>1, <1>4 DEF Writers, Running, TypeOK
  <2>2. \A s \in Writers' : draft[s].person # p
    BY <1>2, <2>1 DEF KeysOK
  <2>3. Namers' \subseteq Namers \ {r}
    BY <1>1, <1>2, <2>2 DEF Namers, Writers, TypeOK
  <2>4. \A q \in Requests \ {p} : persons'[q] = persons[q] /\ ext'[q] = ext[q]
    BY <1>1
  <2>5. ext'[p] = draft[r].ext
        /\ (persons'[p] = "live" => draft[r].live /\ persons[p] # "deleted")
    BY <1>1, <2>1 DEF RowAfter
  <2>6. persons'[p] = "live" /\ ext'[p] # Unnamed => r \in Namers
    BY <2>1, <2>5 DEF Namers
  <2>7. ASSUME NEW s \in Namers', NEW q \in Live(persons)', ext'[q] = draft[s].ext
        PROVE  q = draft[s].person
    <3>1. CASE q = p
      BY <2>3, <2>5, <2>6, <2>7, <3>1 DEF KeysOK, Namers, Live
    <3>2. CASE q # p
      BY <2>3, <2>4, <2>7, <3>2 DEF KeysOK, Live
    <3>3. QED
      BY <3>1, <3>2
  <2>8. OnePersonPerExternalId'
    <3>1. SUFFICES ASSUME NEW a \in Live(persons)', NEW b \in Live(persons)',
                          ext'[a] = ext'[b], ext'[a] # Unnamed
                   PROVE  a = b
      BY DEF OnePersonPerExternalId
    <3>2. \A q \in Live(persons)' \ {p} : q \in Live(persons) /\ ext'[q] = ext[q]
      BY <2>4 DEF Live
    <3>3. CASE a = p \/ b = p
      BY <2>5, <2>6, <3>1, <3>2, <3>3 DEF KeysOK, Live
    <3>4. CASE a # p /\ b # p
      BY <3>1, <3>2, <3>4 DEF KeysOK, OnePersonPerExternalId
    <3>5. QED
      BY <3>3, <3>4
  <2>9. QED
    BY <1>1, <1>2, <2>3, <2>7, <2>8 DEF KeysOK
<1>5. QED
  BY <1>3, <1>4

LEMMA KeyStep == KeyInv /\ [Next]_vars => KeyInv'
<1> SUFFICES ASSUME KeyInv, [Next]_vars
             PROVE  KeysOK'
  BY PlaceStep DEF KeyInv
<1> USE DEF work, tables, history
<1>1. ASSUME NEW r \in Requests, Arrive(r)
      PROVE  KeysOK'
  <2>1. pc[r] = "idle" /\ UNCHANGED <<draft, persons, ext>> /\ \E p : pc' = [pc EXCEPT ![r] = p]
    BY <1>1 DEF Arrive, ArriveUpload, ArriveDeleteFace, ArriveDeletePerson, ArriveUpdate, Goto
  <2>2. QED
    BY <2>1, QuietKeys
<1>2. ASSUME NEW r \in Requests,
             \/ Replay(r) \/ Miss(r) \/ Check(r) \/ PersonNotFound(r) \/ Insert(r) \/ Store(r)
             \/ StoreFails(r) \/ Answer(r) \/ Collect(r) \/ Erase(r) \/ Flush(r)
             \/ Fail(r) \/ Victim(r) \/ ResolveById(r) \/ ResolveByExt(r) \/ ResolveNew(r)
      PROVE  KeysOK'
  <2>1. UNCHANGED <<draft, persons, ext>>
    BY <1>2 DEF Replay, Miss, Check, PersonNotFound, Insert, Store, StoreFails, Answer, Collect,
                Erase, Flush, Fail, Victim, Break, ResolveById, ResolveByExt, ResolveNew, Resolved
  <2>2. \E p : pc' = [pc EXCEPT ![r] = p]
    BY <1>2 DEF Replay, Miss, Check, PersonNotFound, Insert, Store, StoreFails, Answer, Collect,
                Erase, Flush, Fail, Victim, Break, ResolveById, ResolveByExt, ResolveNew,
                Resolved, Goto
  <2>3. pc[r] \in Running
    BY <1>2 DEF Replay, Miss, Check, PersonNotFound, Insert, Store, StoreFails, Answer, Collect,
                Erase, Flush, Fail, Victim, ResolveById, ResolveByExt, ResolveNew,
                Running, Uploading, Deleting
  <2>4. QED
    BY <2>1, <2>2, <2>3, QuietKeys
<1>3. ASSUME NEW r \in Requests, Attach(r) \/ Bury(r) \/ Save(r)
      PROVE  KeysOK'
  BY <1>3, WriteKeepsKeys DEF Attach, Bury, Save
<1>4. ASSUME NEW r \in Requests, Commit(r)
      PROVE  KeysOK'
  BY <1>4, CommitKeepsKeys
<1>5. CASE Expire \/ UNCHANGED vars
  BY <1>5 DEF Expire, vars, KeyInv, KeysOK, Writers, Namers, OnePersonPerExternalId, Live
<1>6. QED
  BY <1>1, <1>2, <1>3, <1>4, <1>5 DEF Next, Step

\* Uploads, renames and deletions that race never leave two live persons with one
\* external id: a transaction that enters a key waits for those that hold it.
THEOREM OnePerson == Spec => []OnePersonPerExternalId
<1>1. KeyInv => OnePersonPerExternalId
  BY DEF KeyInv, KeysOK
<1>2. QED
  BY <1>1, KeyStart, KeyStep, PTL DEF Spec

-----------------------------------------------------------------------------
(* Deleted persons: which faces they may leave behind.                     *)

\* The uploads that have their person, and the deletions of a person that run.
Placed ==
  {r \in Requests : op[r] = "upload" /\ pc[r] \in {"attach", "insert", "store", "answer", "commit"}}
Burying == Active("deletePerson")

\* A person's row is its upload's that committed, or not there yet.
PersonsOK ==
  /\ \A p \in Requests : persons[p] # "none" => pc[p] = "done"
  /\ \A r \in Requests :
       r \in Placed \/ op[r] \in {"deletePerson", "updatePerson"} =>
         /\ person[r] \in Requests
         /\ persons[person[r]] # "none" \/ (person[r] = r /\ op[r] = "upload")
  /\ \A r \in Writers :
       /\ draft[r].person = person[r] /\ op[r] # "deleteFace"
       /\ op[r] # "deletePerson" => draft[r].live
       /\ op[r] = "upload" => r \in Placed

\* Uploads to a person that is being deleted are raced, and the others have a
\* person that is live, or that is theirs to create.
MeetingsOK ==
  /\ \A d \in Burying, s \in Placed : person[s] = person[d] => s \in raced
  /\ \A s \in Placed \ raced :
       persons[person[s]] = "live" \/ (person[s] = s /\ persons[s] = "none")
  /\ \A s \in Placed :
       persons[person[s]] = "none" /\ pc[s] # "attach" => s \in Writers

\* A deletion holds every face of its person that is not raced.
CollectedOK ==
  /\ \A d \in Burying : pc[d] # "collect" =>
       \A f \in Live(faces) \ raced : person[f] = person[d] => f \in todo[d] \cup gone[d]
  /\ \A d \in Burying : pc[d] \in {"bury", "commit"} => todo[d] = {}
  /\ \A f \in Live(faces) : person[f] \in Requests
  /\ OrphansRaced

RaceInv == PlaceInv /\ RowsOK /\ PersonsOK /\ MeetingsOK /\ CollectedOK

LEMMA RaceStart == Init => RaceInv
BY PlaceStart, ImageStart
   DEF Init, RaceInv, ImageInv, PersonsOK, MeetingsOK, CollectedOK, OrphansRaced, Placed, Burying,
       Active, Running, Uploading, Deleting, Writers, Live

\* A step that goes on in an upload, or ends a request that does not commit.
LEMMA QuietRaces ==
  ASSUME RaceInv, NEW r \in Requests, NEW p, pc' = [pc EXCEPT ![r] = p], pc[r] \in Running,
         \/ p \in {"replayed", "rejected", "error"}
         \/ op[r] = "upload" /\ r \notin Placed /\ p \in {"check", "resolve"}
         \/ r \in Placed /\ pc[r] # "attach" /\ p \in {"store", "answer", "commit"}
         \/ pc[r] = "erase" /\ p = "flush",
         UNCHANGED <<op, person, todo, gone, draft, faces, persons, raced>>
  PROVE  PersonsOK' /\ MeetingsOK' /\ CollectedOK'
<1> USE DEF RaceInv, PlaceInv
<1>1. Placed' \subseteq Placed /\ Burying' \subseteq Burying /\ Writers' \subseteq Writers
  BY DEF Placed, Burying, Active, Writers, Running, Uploading, Deleting, TypeOK
<1>2. /\ \A s \in Placed' : pc'[s] # "attach" => pc[s] # "attach"
      /\ \A s \in Placed' : s \in Writers => s \in Writers'
  BY DEF Placed, Writers, Running, Uploading, Deleting, Burying, Active, TypeOK
<1>3. PersonsOK'
  <2>1. \A q \in Requests : persons[q] # "none" => q # r
    BY DEF PersonsOK, Running, Uploading, Deleting
  <2>2. \A s \in Writers' : op[s] = "upload" => s \in Placed'
    <3>1. r \in Writers' /\ op[r] = "upload" => r \in Placed'
      BY <1>1 DEF PersonsOK, Placed, Writers, Burying, Active, Running, Uploading, Deleting, TypeOK
    <3>2. QED
      BY <1>1, <3>1 DEF PersonsOK, Placed, TypeOK
  <2>3. QED
    BY <1>1, <2>1, <2>2 DEF PersonsOK
<1>4. MeetingsOK'
  BY <1>1, <1>2 DEF MeetingsOK
<1>5. CollectedOK'
  <2>1. \A d \in Burying' : /\ pc'[d] # "collect" => pc[d] # "collect"
                            /\ pc'[d] \in {"bury", "commit"} => pc[d] \in {"bury", "commit"}
    BY <1>1 DEF Burying, Active, Placed, Running, Uploading, Deleting, TypeOK
  <2>2. QED
    BY <1>1, <2>1 DEF CollectedOK, OrphansRaced, Live
<1>6. QED
  BY <1>3, <1>4, <1>5

LEMMA ArriveKeepsRaces ==
  ASSUME RaceInv, NEW r \in Requests, Arrive(r)
  PROVE  PersonsOK' /\ MeetingsOK' /\ CollectedOK'
<1> USE DEF RaceInv, PlaceInv, tables, history
<1>1. /\ pc[r] = "idle" /\ op[r] = "upload" /\ draft[r].person = None /\ faces[r] = "none"
      /\ UNCHANGED <<gone, draft, faces, persons>>
      /\ raced \subseteq raced'
  <2>1. pc[r] = "idle" /\ UNCHANGED <<gone, draft, faces, persons>> /\ raced \subseteq raced'
    BY DEF Arrive, ArriveUpload, ArriveDeleteFace, ArriveDeletePerson, ArriveUpdate
  <2>2. QED
    BY <2>1 DEF PlacesOK, NoDraft, RowsOK, TypeOK, RowStates
<1>2. /\ \E o : op' = [op EXCEPT ![r] = o]
      /\ \E p \in {"check", "lookup", "erase", "collect", "save"} : pc' = [pc EXCEPT ![r] = p]
      /\ \E p : person' = [person EXCEPT ![r] = p]
      /\ \E t : todo' = [todo EXCEPT ![r] = t]
  <2>1. /\ op' = op => op' = [op EXCEPT ![r] = op[r]]
        /\ person' = person => person' = [person EXCEPT ![r] = person[r]]
        /\ todo' = todo => todo' = [todo EXCEPT ![r] = todo[r]]
    BY DEF TypeOK
  <2>2. QED
    BY <2>1 DEF Arrive, ArriveUpload, ArriveDeleteFace, ArriveDeletePerson, ArriveUpdate, Goto
<1>3. Placed' = Placed /\ r \notin Placed
  BY <1>1, <1>2 DEF Placed, TypeOK
<1>4. Writers' = Writers /\ r \notin Writers
  BY <1>1, <1>2 DEF Writers, TypeOK
<1>5. \A s \in Requests \ {r} :
        op'[s] = op[s] /\ pc'[s] = pc[s] /\ person'[s] = person[s] /\ todo'[s] = todo[s]
  BY <1>2
<1>6. Burying' \subseteq Burying \cup {r} /\ r \notin Burying
  BY <1>1, <1>5 DEF Burying, Active, TypeOK
<1>7. ASSUME r \in Burying'
      PROVE  pc'[r] = "collect" /\ \A s \in Placed : person[s] = person'[r] => s \in raced'
  <2>1. ArriveDeletePerson(r)
    BY <1>1, <1>7 DEF Burying, Active, Arrive, ArriveUpload, ArriveDeleteFace, ArriveUpdate, TypeOK
  <2>2. Placed \subseteq Active("upload")
    BY DEF Placed, Active, Running, Uploading
  <2>3. QED
    BY <1>1, <2>1, <2>2 DEF ArriveDeletePerson, Goto, TypeOK
<1>8. PersonsOK'
  <2>1. \A p \in Requests : persons'[p] # "none" => pc'[p] = "done"
    BY <1>1, <1>5 DEF PersonsOK
  <2>2. op'[r] \in {"deletePerson", "updatePerson"} =>
          person'[r] \in Requests /\ persons[person'[r]] # "none"
    BY <1>1 DEF Arrive, ArriveUpload, ArriveDeleteFace, ArriveDeletePerson, ArriveUpdate, Live,
                TypeOK
  <2>3. QED
    BY <1>1, <1>3, <1>4, <1>5, <2>1, <2>2 DEF PersonsOK, Writers, Placed
<1>9. MeetingsOK'
  BY <1>1, <1>3, <1>4, <1>5, <1>6, <1>7 DEF MeetingsOK, Placed, Burying, Active
<1>10. CollectedOK'
  <2>1. \A f \in Live(faces)' : f \in Live(faces) /\ f # r
    BY <1>1 DEF Live
  <2>2. QED
    BY <1>1, <1>5, <1>6, <1>7, <2>1 DEF CollectedOK, OrphansRaced, Live, Burying, Active
<1>11. QED
  BY <1>8, <1>9, <1>10

LEMMA ResolveKeepsRaces ==
  ASSUME RaceInv, NEW r \in Requests, NEW p \in Requests, pc[r] = "resolve",
         persons[p] = "live" \/ p = r, NEW w, w = "skip" => persons[p] = "live", Resolved(r, p, w)
  PROVE  PersonsOK' /\ MeetingsOK' /\ CollectedOK'
<1> USE DEF RaceInv, PlaceInv, tables
<1>1. /\ UNCHANGED <<op, todo, gone, draft, faces, persons>>
      /\ person' = [person EXCEPT ![r] = p]
      /\ pc' = [pc EXCEPT ![r] = IF w = "skip" THEN "insert" ELSE "attach"]
      /\ raced \subseteq raced'
      /\ \A d \in Burying : person[d] = p => r \in raced'
  BY DEF Resolved, Goto, Burying
<1>2. /\ op[r] = "upload" /\ faces[r] = "none" /\ persons[r] = "none"
      /\ r \notin Burying /\ r \notin Placed
  BY DEF PlacesOK, Uploading, RowsOK, PersonsOK, Burying, Active, Placed, TypeOK
<1>3. Placed' = Placed \cup {r} /\ Burying' = Burying
  BY <1>1, <1>2 DEF Placed, Burying, Active, Running, Uploading, TypeOK
<1>4. Writers' = Writers
  BY <1>1 DEF Writers, Running, Uploading, TypeOK
<1>5. r \notin Writers
  BY <1>2 DEF PersonsOK
<1>6. \A s \in Requests \ {r} : person'[s] = person[s] /\ pc'[s] = pc[s]
  BY <1>1
<1>7. person'[r] = p /\ (pc'[r] # "attach" => persons[p] = "live")
  BY <1>1 DEF TypeOK
<1>8. PersonsOK'
  <2>1. \A q \in Requests : persons'[q] # "none" => pc'[q] = "done"
    BY <1>1, <1>2, <1>6 DEF PersonsOK
  <2>2. \A s \in Requests : s \in Placed' \/ op'[s] \in {"deletePerson", "updatePerson"} =>
          /\ person'[s] \in Requests
          /\ persons'[person'[s]] # "none" \/ (person'[s] = s /\ op'[s] = "upload")
    BY <1>1, <1>2, <1>3, <1>6, <1>7 DEF PersonsOK
  <2>3. \A s \in Writers' : /\ draft'[s].person = person'[s] /\ op'[s] # "deleteFace"
                            /\ op'[s] # "deletePerson" => draft'[s].live
                            /\ op'[s] = "upload" => s \in Placed'
    BY <1>1, <1>3, <1>4, <1>5, <1>6 DEF PersonsOK, Writers
  <2>4. QED
    BY <2>1, <2>2, <2>3 DEF PersonsOK
<1>9. MeetingsOK'
  <2>1. \A d \in Burying', s \in Placed' : person'[s] = person'[d] => s \in raced'
    BY <1>1, <1>2, <1>3, <1>6, <1>7 DEF MeetingsOK, Placed, Burying, Active
  <2>2. \A s \in Placed' \ raced' :
          persons'[person'[s]] = "live" \/ (person'[s] = s /\ persons'[s] = "none")
    BY <1>1, <1>2, <1>3, <1>6, <1>7 DEF MeetingsOK, Placed
  <2>3. \A s \in Placed' :
          persons'[person'[s]] = "none" /\ pc'[s] # "attach" => s \in Writers'
    BY <1>1, <1>2, <1>3, <1>4, <1>6, <1>7 DEF MeetingsOK, Placed
  <2>4. QED
    BY <2>1, <2>2, <2>3 DEF MeetingsOK
<1>10. CollectedOK'
  <2>1. \A f \in Live(faces)' : f \in Live(faces) /\ f # r
    BY <1>1, <1>2 DEF Live
  <2>2. QED
    BY <1>1, <1>2, <1>3, <1>6, <2>1 DEF CollectedOK, OrphansRaced, Live, Burying, Active
<1>11. QED
  BY <1>8, <1>9, <1>10

LEMMA WriteKeepsRaces ==
  ASSUME RaceInv, NEW r \in Requests, NEW live \in BOOLEAN, NEW next, WritePerson(r, live, next),
         \/ pc[r] = "attach" /\ live /\ next = "insert"
         \/ pc[r] = "save" /\ live /\ next = "commit"
         \/ pc[r] = "bury" /\ ~ live /\ next = "commit"
  PROVE  PersonsOK' /\ MeetingsOK' /\ CollectedOK'
<1> USE DEF RaceInv, PlaceInv, tables, history
<1>1. pc[r] \in Running
  BY DEF Running, Uploading, Deleting
<1>2. CASE live /\ Taken(r)
  BY <1>1, <1>2, QuietRaces DEF WritePerson, Goto
<1>3. CASE ~ (live /\ Taken(r))
  <2>1. /\ draft' = [draft EXCEPT ![r] =
                       [person |-> person[r], ext |-> NewExt(r), live |-> live]]
        /\ pc' = [pc EXCEPT ![r] = next]
        /\ UNCHANGED <<op, person, todo, gone, faces, persons, raced>>
    BY <1>3 DEF WritePerson, Goto
  <2>2. draft'[r].person = person[r] /\ draft'[r].live = live /\ person[r] # None
    BY <2>1 DEF TypeOK, PlacesOK
  <2>3. \A s \in Requests \ {r} : draft'[s] = draft[s] /\ pc'[s] = pc[s]
    BY <2>1
  <2>4. Placed' = Placed /\ Burying' = Burying /\ Writers' = Writers \cup {r}
    BY <2>1, <2>2, <2>3
       DEF Placed, Burying, Active, Writers, Running, Uploading, Deleting, PlacesOK, TypeOK
  <2>5. pc[r] = "attach" => r \in Placed
    BY DEF Placed, PlacesOK, Uploading
  <2>6. /\ pc[r] = "bury" => op[r] = "deletePerson"
        /\ pc[r] = "save" => op[r] = "updatePerson"
    BY DEF PlacesOK
  <2>7. PersonsOK'
    <3>1. \A q \in Requests : persons'[q] # "none" => pc'[q] = "done"
      BY <1>1, <2>1, <2>3 DEF PersonsOK, Running, Uploading, Deleting
    <3>2. \A s \in Writers' : /\ draft'[s].person = person'[s] /\ op'[s] # "deleteFace"
                              /\ op'[s] # "deletePerson" => draft'[s].live
                              /\ op'[s] = "upload" => s \in Placed'
      BY <2>1, <2>2, <2>3, <2>4, <2>5, <2>6 DEF PersonsOK, Writers, Placed
    <3>3. QED
      BY <2>1, <2>4, <3>1, <3>2 DEF PersonsOK
  <2>8. MeetingsOK'
    BY <2>1, <2>3, <2>4 DEF MeetingsOK
  <2>9. CollectedOK'
    <3>1. \A d \in Burying : /\ pc'[d] # "collect" => pc[d] # "collect"
                             /\ pc'[d] \in {"bury", "commit"} => pc[d] \in {"bury", "commit"}
      BY <2>1, <2>3, <2>5, <2>6 DEF Burying, Active, Placed, TypeOK
    <3>2. QED
      BY <2>1, <2>4, <3>1 DEF CollectedOK, OrphansRaced, Live
  <2>10. QED
    BY <2>7, <2>8, <2>9
<1>4. QED
  BY <1>2, <1>3

LEMMA DeleteKeepsRaces ==
  ASSUME RaceInv, NEW r \in Requests, Collect(r) \/ Flush(r)
  PROVE  PersonsOK' /\ MeetingsOK' /\ CollectedOK'
<1> USE DEF RaceInv, PlaceInv, tables, history
<1>1. /\ UNCHANGED <<op, person, draft, faces, persons, raced>>
      /\ pc[r] \in {"collect", "flush"} /\ op[r] # "upload"
      /\ \A s \in Requests \ {r} : pc'[s] = pc[s] /\ todo'[s] = todo[s] /\ gone'[s] = gone[s]
      /\ pc'[r] \in {"erase", "bury", "commit"}
      /\ op[r] = "deletePerson" /\ pc'[r] # "erase" => todo'[r] = {}
  BY DEF Collect, Flush, Goto, PlacesOK, TypeOK
<1>2. Placed' = Placed /\ Burying' = Burying /\ Writers' = Writers
  BY <1>1 DEF Placed, Burying, Active, Writers, Running, Deleting, TypeOK
<1>3. PersonsOK'
  BY <1>1, <1>2 DEF PersonsOK
<1>4. MeetingsOK'
  BY <1>1, <1>2 DEF MeetingsOK, Placed
<1>5. ASSUME r \in Burying, NEW f \in Live(faces) \ raced, person[f] = person[r]
      PROVE  f \in todo'[r] \cup gone'[r]
  <2>1. CASE Collect(r)
    BY <1>5, <2>1 DEF Collect, TypeOK
  <2>2. CASE Flush(r)
    BY <1>5, <2>2 DEF Flush, CollectedOK, TypeOK
  <2>3. QED
    BY <2>1, <2>2
<1>6. CollectedOK'
  BY <1>1, <1>2, <1>5 DEF CollectedOK, OrphansRaced, Live, Burying, Active
<1>7. QED
  BY <1>3, <1>4, <1>6

LEMMA CommitKeepsRaces ==
  ASSUME RaceInv, NEW r \in Requests, Commit(r)
  PROVE  PersonsOK' /\ MeetingsOK' /\ CollectedOK'
<1> USE DEF RaceInv, PlaceInv
<1> DEFINE p == draft[r].person
<1>1. /\ \A f \in Requests : faces'[f] = "live" <=> \/ faces[f] = "live" /\ f \notin gone[r]
                                                    \/ f = r /\ op[r] = "upload"
      /\ pc[r] = "commit" /\ pc' = [pc EXCEPT ![r] = "done"]
      /\ UNCHANGED <<op, work, raced>>
  BY CommitFaces DEF history
<1>2. persons' = [q \in Requests |->
                    IF q = p THEN RowAfter(persons[q], draft[r].live) ELSE persons[q]]
  BY DEF Commit
<1>3. UNCHANGED <<person, draft, todo, gone>>
  BY <1>1 DEF work
<1>4. /\ Placed' = Placed \ {r} /\ Burying' = Burying \ {r} /\ Writers' = Writers \ {r}
      /\ op[r] = "upload" => r \in Placed
      /\ op[r] = "deletePerson" => r \in Burying
      /\ p # None => r \in Writers
  BY <1>1, <1>3 DEF Placed, Burying, Active, Writers, Running, Uploading, Deleting, TypeOK
<1>5. \A q \in Requests : persons[q] # "none" => persons'[q] # "none"
  BY <1>2 DEF RowAfter
<1>6. ASSUME NEW q \in Requests, persons'[q] # persons[q]
      PROVE  q = p /\ q = person[r] /\ r \in Writers
  BY <1>2, <1>4, <1>6, NoneAssumption DEF PersonsOK
<1>7. ASSUME NEW q \in Requests, persons[q] = "live", persons'[q] # "live"
      PROVE  op[r] = "deletePerson" /\ q = person[r]
  BY <1>2, <1>6, <1>7 DEF PersonsOK, RowAfter
<1>8. ASSUME NEW q \in Requests, persons[q] = "none", persons'[q] # "none"
      PROVE  q = r /\ person[r] = r
  <2>1. q = person[r] /\ r \in Writers
    BY <1>6, <1>8
  <2>2. r \in Placed \/ op[r] \in {"deletePerson", "updatePerson"}
    BY <2>1 DEF PersonsOK, TypeOK, Ops
  <2>3. QED
    BY <1>8, <2>1, <2>2 DEF PersonsOK
<1>9. PersonsOK'
  <2>1. \A q \in Requests : persons'[q] # "none" => pc'[q] = "done"
    BY <1>1, <1>8 DEF PersonsOK, TypeOK
  <2>2. \A s \in Requests : s \in Placed' \/ op[s] \in {"deletePerson", "updatePerson"} =>
          /\ person[s] \in Requests
          /\ persons'[person[s]] # "none" \/ (person[s] = s /\ op[s] = "upload")
    BY <1>4, <1>5 DEF PersonsOK
  <2>3. \A s \in Writers' : /\ draft'[s].person = person'[s] /\ op'[s] # "deleteFace"
                            /\ op'[s] # "deletePerson" => draft'[s].live
                            /\ op'[s] = "upload" => s \in Placed'
    BY <1>1, <1>3, <1>4 DEF PersonsOK
  <2>4. QED
    BY <1>1, <1>3, <2>1, <2>2, <2>3 DEF PersonsOK
<1>10. MeetingsOK'
  <2>1. \A d \in Burying', s \in Placed' : person[s] = person[d] => s \in raced
    BY <1>4 DEF MeetingsOK
  <2>2. ASSUME NEW s \in Placed' \ raced
        PROVE  persons'[person[s]] = "live" \/ (person[s] = s /\ persons'[s] = "none")
    <3>1. s \in Placed /\ s # r /\ person[s] \in Requests
      BY <1>4, <2>2 DEF PersonsOK, Placed
    <3>2. CASE persons[person[s]] = "live"
      BY <1>4, <1>7, <2>2, <3>1, <3>2 DEF MeetingsOK
    <3>3. CASE person[s] = s /\ persons[s] = "none"
      BY <1>8, <3>1, <3>3
    <3>4. QED
      BY <2>2, <3>1, <3>2, <3>3 DEF MeetingsOK
  <2>3. \A s \in Placed' :
          persons'[person[s]] = "none" /\ pc'[s] # "attach" => s \in Writers'
    BY <1>1, <1>4, <1>5 DEF MeetingsOK, PersonsOK, Placed
  <2>4. QED
    BY <1>1, <1>3, <2>1, <2>2, <2>3 DEF MeetingsOK
<1>11. CollectedOK'
  <2>1. ASSUME NEW d \in Burying', pc'[d] # "collect",
               NEW f \in Live(faces)' \ raced, person[f] = person[d]
        PROVE  f \in todo[d] \cup gone[d]
    <3>1. d \in Burying /\ d # r /\ pc[d] # "collect"
      BY <1>1, <1>4, <2>1 DEF Burying, Active
    <3>2. f \in Live(faces) \/ f \in Placed
      BY <1>1, <1>4, <2>1 DEF Live
    <3>3. QED
      BY <2>1, <3>1, <3>2 DEF CollectedOK, MeetingsOK
  <2>2. \A d \in Burying' : pc'[d] \in {"bury", "commit"} => todo[d] = {}
    BY <1>1, <1>4 DEF CollectedOK, Burying, Active
  <2>3. ASSUME NEW f \in Live(faces)' \ raced
        PROVE  persons'[person[f]] = "live"
    <3>1. CASE f \in Live(faces) /\ f \notin gone[r]
      <4>1. persons[person[f]] = "live"
        BY <2>3, <3>1 DEF CollectedOK, OrphansRaced
      <4>2. ~ (op[r] = "deletePerson" /\ person[f] = person[r])
        BY <1>1, <1>4, <2>3, <3>1 DEF CollectedOK
      <4>3. QED
        BY <1>7, <3>1, <4>1, <4>2 DEF CollectedOK
    <3>2. CASE f = r /\ op[r] = "upload"
      <4>1. /\ r \in Placed /\ person[r] \in Requests /\ pc[r] # "attach"
            /\ persons[person[r]] = "live" \/ (person[r] = r /\ persons[r] = "none")
        BY <1>1, <1>4, <2>3, <3>2 DEF PersonsOK, MeetingsOK
      <4>2. CASE persons[person[r]] = "live"
        BY <1>7, <3>2, <4>1, <4>2
      <4>3. CASE person[r] = r /\ persons[r] = "none"
        <5>1. r \in Writers /\ p = r /\ draft[r].live
          BY <3>2, <4>1, <4>3 DEF MeetingsOK, PersonsOK
        <5>2. QED
          BY <1>2, <3>2, <4>3, <5>1 DEF RowAfter
      <4>4. QED
        BY <4>1, <4>2, <4>3
    <3>3. QED
      BY <1>1, <2>3, <3>1, <3>2 DEF Live
  <2>4. \A f \in Live(faces)' : person[f] \in Requests
    BY <1>1, <1>4 DEF CollectedOK, PersonsOK, Live
  <2>5. QED
    BY <1>1, <1>3, <2>1, <2>2, <2>3, <2>4 DEF CollectedOK, OrphansRaced
<1>12. QED
  BY <1>9, <1>10, <1>11

LEMMA RaceStep == RaceInv /\ [Next]_vars => RaceInv'
<1> SUFFICES ASSUME RaceInv, [Next]_vars
             PROVE  PersonsOK' /\ MeetingsOK' /\ CollectedOK'
  BY PlaceStep, RowsStep DEF RaceInv
<1> USE DEF work, tables, history
<1>1. ASSUME NEW r \in Requests, Arrive(r)
      PROVE  PersonsOK' /\ MeetingsOK' /\ CollectedOK'
  BY <1>1, ArriveKeepsRaces
<1>2. ASSUME NEW r \in Requests,
             \/ Replay(r) \/ Miss(r) \/ Check(r) \/ PersonNotFound(r) \/ Insert(r) \/ Store(r)
             \/ StoreFails(r) \/ Answer(r) \/ Fail(r) \/ Victim(r) \/ Erase(r)
      PROVE  PersonsOK' /\ MeetingsOK' /\ CollectedOK'
  <2>1. UNCHANGED <<op, person, todo, gone, draft, faces, persons, raced>> /\ pc[r] \in Running
    BY <1>2 DEF Replay, Miss, Check, PersonNotFound, Insert, Store, StoreFails, Answer, Fail,
                Victim, Break, Erase, Running, Uploading, Deleting
  <2>2. op[r] = "upload" => r \in Placed \/ pc[r] \notin {"insert", "store", "answer"}
    BY DEF Placed
  <2>3. pc[r] \in Uploading => op[r] = "upload"
    BY DEF RaceInv, PlaceInv, PlacesOK
  <2>4. CASE Erase(r)
    <3>1. pc' = [pc EXCEPT ![r] = "flush"] /\ pc[r] = "erase"
      BY <2>4 DEF Erase, Goto
    <3>2. QED
      BY <2>1, <3>1, QuietRaces
  <2>5. CASE ~ Erase(r)
    <3>1. \E p : /\ pc' = [pc EXCEPT ![r] = p]
                 /\ \/ p \in {"replayed", "rejected", "error"}
                    \/ op[r] = "upload" /\ r \notin Placed /\ p \in {"check", "resolve"}
                    \/ r \in Placed /\ pc[r] # "attach" /\ p \in {"store", "answer", "commit"}
      BY <1>2, <2>2, <2>3, <2>5
         DEF Replay, Miss, Check, PersonNotFound, Insert, Store, StoreFails, Answer, Fail,
             Victim, Break, Goto, Placed, Uploading
    <3>2. QED
      BY <2>1, <3>1, QuietRaces
  <2>6. QED
    BY <2>4, <2>5
<1>3. ASSUME NEW r \in Requests, ResolveById(r) \/ ResolveByExt(r) \/ ResolveNew(r)
      PROVE  PersonsOK' /\ MeetingsOK' /\ CollectedOK'
  <2>1. pc[r] = "resolve"
    BY <1>3 DEF ResolveById, ResolveByExt, ResolveNew
  <2>2. \E p \in Requests : \E w : /\ persons[p] = "live" \/ p = r
                                   /\ w = "skip" => persons[p] = "live"
                                   /\ Resolved(r, p, w)
    BY <1>3, ExtAssumption
       DEF ResolveById, ResolveByExt, ResolveNew, Named, Live, RaceInv, PlaceInv, TypeOK
  <2>3. QED
    BY <2>1, <2>2, ResolveKeepsRaces
<1>4. ASSUME NEW r \in Requests, Attach(r) \/ Bury(r) \/ Save(r)
      PROVE  PersonsOK' /\ MeetingsOK' /\ CollectedOK'
  BY <1>4, WriteKeepsRaces DEF Attach, Bury, Save
<1>5. ASSUME NEW r \in Requests, Collect(r) \/ Flush(r)
      PROVE  PersonsOK' /\ MeetingsOK' /\ CollectedOK'
  BY <1>5, DeleteKeepsRaces
<1>6. ASSUME NEW r \in Requests, Commit(r)
      PROVE  PersonsOK' /\ MeetingsOK' /\ CollectedOK'
  BY <1>6, CommitKeepsRaces
<1>7. CASE Expire \/ UNCHANGED vars
  BY <1>7 DEF Expire, vars, RaceInv, PersonsOK, MeetingsOK, CollectedOK, OrphansRaced, Placed,
              Burying, Active, Writers, Live
<1>8. QED
  BY <1>1, <1>2, <1>3, <1>4, <1>5, <1>6, <1>7 DEF Next, Step

\* A live face of a deleted person was uploaded while the deletion ran: every
\* other face of the person went with it.
THEOREM OrphansAreRaced == Spec => []OrphansRaced
<1>1. RaceInv => OrphansRaced
  BY DEF RaceInv, CollectedOK
<1>2. QED
  BY <1>1, RaceStart, RaceStep, PTL DEF Spec
=============================================================================
