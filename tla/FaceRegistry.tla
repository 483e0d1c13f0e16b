---------------------------- MODULE FaceRegistry ----------------------------
(***************************************************************************)
(* What face_service promises of a tenant's persons and faces, without the *)
(* requests: a face is registered under one person, a face or a person     *)
(* with its faces is deleted, and a person gets another external id, each  *)
(* at once and against what is registered at that moment.                  *)
(***************************************************************************)
CONSTANTS
  Requests,   \* the uploads: each names its face and the person it may create
  Sha,        \* Sha[f]: the digest of f's image
  Exts,       \* the external ids
  Unnamed,    \* no external id
  None        \* the owner of a face that is not registered

VARIABLES
  faces,      \* faces[f]: none, live or deleted
  owner,      \* owner[f]: the person f is registered under
  persons,    \* persons[p]: none, live or deleted
  ext,        \* ext[p]: p's external id
  raced       \* the faces whose upload met a deletion of their person

vars == <<faces, owner, persons, ext, raced>>

Init ==
  /\ faces = [f \in Requests |-> "none"]
  /\ owner = [f \in Requests |-> None]
  /\ persons = [p \in Requests |-> "none"]
  /\ ext = [p \in Requests |-> Unnamed]
  /\ raced = {}

\* p gets the external id e; no two live persons have the same one, and a
\* deleted person stays deleted.
Write(p, e) ==
  /\ persons[p] = "deleted" \/ e = Unnamed
       \/ \A q \in Requests \ {p} : persons[q] = "live" => ext[q] # e
  /\ persons' = [persons EXCEPT ![p] = IF @ = "deleted" THEN "deleted" ELSE "live"]
  /\ ext' = [ext EXCEPT ![p] = e]

\* A face is registered, once, with a digest no other ever had, under a person
\* that is there or is created with it; the person is live unless its deletion
\* was under way.
Register(f, p) ==
  /\ faces[f] = "none"
  /\ \A g \in Requests : faces[g] # "none" => Sha[g] # Sha[f]
  /\ faces' = [faces EXCEPT ![f] = "live"]
  /\ owner' = [owner EXCEPT ![f] = p]
  /\ persons[p] # "none" \/ p = f
  /\ \/ persons[p] # "none" /\ UNCHANGED <<persons, ext>>
     \/ \E e \in Exts \cup {Unnamed} : Write(p, e)
  /\ persons'[p] = "live" \/ f \in raced
  /\ UNCHANGED raced

DeleteFace(f) ==
  /\ faces[f] # "none"
  /\ faces' = [faces EXCEPT ![f] = "deleted"]
  /\ UNCHANGED <<owner, persons, ext, raced>>

\* A person goes with faces of its own, and with all of them that are live but
\* those whose upload met a deletion.
DeletePerson(p, F) ==
  /\ persons[p] # "none"
  /\ \A f \in F : faces[f] # "none" /\ owner[f] = p
  /\ \A f \in Requests \ F : faces[f] = "live" /\ owner[f] = p => f \in raced
  /\ persons' = [persons EXCEPT ![p] = "deleted"]
  /\ faces' = [f \in Requests |-> IF f \in F THEN "deleted" ELSE faces[f]]
  /\ UNCHANGED <<owner, ext, raced>>

Rename(p, e) ==
  /\ persons[p] # "none"
  /\ Write(p, e)
  /\ UNCHANGED <<faces, owner, raced>>

\* Uploads that are still to register meet a deletion.
Meet ==
  /\ raced \subseteq raced'
  /\ \A f \in raced' \ raced : f \in Requests /\ faces[f] = "none"
  /\ UNCHANGED <<faces, owner, persons, ext>>

Next ==
  \/ \E f, p \in Requests : Register(f, p)
  \/ \E f \in Requests : DeleteFace(f)
  \/ \E p \in Requests, F \in SUBSET Requests : DeletePerson(p, F)
  \/ \E p \in Requests, e \in Exts \cup {Unnamed} : Rename(p, e)
  \/ Meet

Spec == Init /\ [][Next]_vars
=============================================================================
