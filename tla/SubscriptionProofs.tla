-------------------------- MODULE SubscriptionProofs -------------------------
(***************************************************************************)
(* Theorems about Subscriptions for every finite set of requests, every    *)
(* set of packages and whatever fails: one provisioning per user, packages *)
(* that outlive their subscriptions, one active subscription and one       *)
(* default package but for requests that overlap, and the refinement of    *)
(* SubscriptionBook.                                                       *)
(***************************************************************************)
EXTENDS Subscriptions, FiniteSetTheorems, TLAPS

Edits == {"create", "update", "delete"}
Started == {r \in Requests : pc[r] # "idle"}

-----------------------------------------------------------------------------
(* Types, and what each place of a handler says of its request.            *)

PlacesOK ==
  \A r \in Requests :
    /\ pc[r] = "idle" => /\ op[r] = "login" /\ wish[r] = "nothing"
                         /\ subs[r] = NoSub /\ clears[r] = {} /\ toClear[r] = {}
    /\ pc[r] \in {"profile", "package", "retry"} => op[r] = "login"
    /\ pc[r] = "current" => op[r] \in {"login", "change"}
    /\ pc[r] \in {"snapshot", "clear"} => op[r] \in {"create", "update"}
    /\ pc[r] \in {"count", "refs"} => op[r] = "delete"
    /\ op[r] = "login" => wish[r] = "nothing"
    /\ op[r] = "login" /\ pc[r] \in {"write", "commit"} => pkg[r] \in Packages
    /\ op[r] = "change" => pkg[r] \in Packages /\ wish[r] \in ChangeTo
    /\ op[r] \in Edits => pkg[r] \in Packages /\ wish[r] \in Wishes
    /\ op[r] = "create" => wish[r] \in {"insert", "insertDefault"}
    /\ op[r] = "update" =>
         wish[r] \in {"promote", "demote", "activate", "deactivate", "nothing"}
    /\ op[r] = "delete" => wish[r] \in {"drop", "deactivate", "nothing"}
    /\ op[r] \notin {"create", "update"} => clears[r] = {} /\ toClear[r] = {}
    /\ seen[r].active => seen[r].sub \in Subscribed
    /\ op[r] \in Edits => subs[r] = NoSub
    /\ op[r] = "change" /\ pc[r] \in Running => subs[r] = NoSub

PlaceInv == TypeOK /\ PlacesOK

LEMMA PlaceStart == Init => PlaceInv
<1> SUFFICES ASSUME Init
             PROVE  PlaceInv
  OBVIOUS
<1>1. Cardinality(Requests) \in Nat
  BY SubscriptionRequests, FS_CardinalityType
<1>2. TypeOK
  BY <1>1 DEF Init, TypeOK, Ops, Wishes, Row, RowStates, NoRow, Sub, NoSub, Seen, Unseen
<1>3. PlacesOK
  BY DEF Init, PlacesOK, Unseen, Edits
<1>4. QED
  BY <1>2, <1>3 DEF PlaceInv

LEMMA ArrivalNumber ==
  ASSUME TypeOK, NEW r \in Requests, pc[r] = "idle"
  PROVE  1 + Cardinality({s \in Requests : pc[s] # "idle"}) \in 0..Cardinality(Requests)
<1> DEFINE A == {s \in Requests : pc[s] # "idle"}
<1>1. A \in SUBSET (Requests \ {r})
  OBVIOUS
<1>2. /\ IsFiniteSet(Requests \ {r}) /\ Cardinality(Requests) \in Nat
      /\ Cardinality(Requests \ {r}) = Cardinality(Requests) - 1
  BY SubscriptionRequests, FS_RemoveElement, FS_CardinalityType
<1>3. Cardinality(A) <= Cardinality(Requests) - 1 /\ Cardinality(A) \in Nat
  BY <1>1, <1>2, FS_Subset, FS_CardinalityType
<1>4. QED
  BY <1>2, <1>3

\* What every arrival does.
LEMMA ArriveTypes ==
  ASSUME PlaceInv, NEW r \in Requests, NEW o \in Ops, NEW place \in Running, Arrive(r, o, place)
  PROVE  /\ op' \in [Requests -> Ops] /\ op' = [op EXCEPT ![r] = o]
         /\ pc' \in [Requests -> {"idle"} \cup Running \cup Finished]
         /\ pc' = [pc EXCEPT ![r] = place]
         /\ begun' \in [Requests -> 0..Cardinality(Requests)]
         /\ overlaps' \in SUBSET SUBSET Requests
         /\ pc[r] = "idle"
<1>1. pc[r] = "idle"
  BY DEF Arrive
<1>2. 1 + Cardinality({s \in Requests : pc[s] # "idle"}) \in 0..Cardinality(Requests)
  BY <1>1, ArrivalNumber DEF PlaceInv
<1>3. begun' \in [Requests -> 0..Cardinality(Requests)]
  BY <1>2 DEF Arrive, PlaceInv, TypeOK
<1>4. overlaps' \in SUBSET SUBSET Requests
  BY DEF Arrive, Others, PlaceInv, TypeOK
<1>5. QED
  BY <1>1, <1>3, <1>4 DEF Arrive, Goto, PlaceInv, TypeOK

LEMMA ArrivalKeepsPlaces ==
  ASSUME PlaceInv, NEW r \in Requests, Arrival(r)
  PROVE  PlaceInv'
<1> USE DEF PlaceInv, work, tables
<1>1. CASE ArriveLogin(r)
  <2>1. PICK place \in {"profile", "current"} : Arrive(r, "login", place)
    BY <1>1 DEF ArriveLogin
  <2>2. /\ op' \in [Requests -> Ops] /\ op' = [op EXCEPT ![r] = "login"]
        /\ pc' \in [Requests -> {"idle"} \cup Running \cup Finished]
        /\ pc' = [pc EXCEPT ![r] = place]
        /\ begun' \in [Requests -> 0..Cardinality(Requests)]
        /\ overlaps' \in SUBSET SUBSET Requests /\ pc[r] = "idle"
    BY <2>1, ArriveTypes DEF Ops, Running
  <2>3. TypeOK'
    BY <1>1, <2>2 DEF ArriveLogin, TypeOK
  <2>4. PlacesOK'
    BY <1>1, <2>2 DEF ArriveLogin, PlacesOK, Subscribed, Edits, Running, TypeOK
  <2>5. QED
    BY <2>3, <2>4
<1>2. CASE ArriveChange(r)
  <2>1. Arrive(r, "change", "current")
    BY <1>2 DEF ArriveChange
  <2>2. /\ op' \in [Requests -> Ops] /\ op' = [op EXCEPT ![r] = "change"]
        /\ pc' \in [Requests -> {"idle"} \cup Running \cup Finished]
        /\ pc' = [pc EXCEPT ![r] = "current"]
        /\ begun' \in [Requests -> 0..Cardinality(Requests)]
        /\ overlaps' \in SUBSET SUBSET Requests /\ pc[r] = "idle"
    BY <2>1, ArriveTypes DEF Ops, Running
  <2>3. PICK p \in Live, status \in ChangeTo :
          pkg' = [pkg EXCEPT ![r] = p] /\ wish' = [wish EXCEPT ![r] = status]
    BY <1>2 DEF ArriveChange
  <2>4. p \in Packages /\ status \in States
    BY ChangeStates DEF Live
  <2>5. UNCHANGED <<was, toClear, clears, seen, packages, subs, profile>>
    BY <1>2 DEF ArriveChange
  <2>6. TypeOK'
    BY <2>2, <2>3, <2>4, <2>5 DEF TypeOK
  <2>7. PlacesOK'
    BY <2>2, <2>3, <2>4, <2>5 DEF PlacesOK, Subscribed, Edits, Running, TypeOK
  <2>8. QED
    BY <2>6, <2>7
<1>3. CASE ArriveCreate(r) \/ ArriveUpdate(r) \/ ArriveDelete(r)
  <2>1. PICK p \in Packages, w \in Wishes, o \in Edits,
             place \in {"snapshot", "write", "count"} :
          /\ Arrive(r, o, place) /\ Wants(r, p, w)
          /\ o = "create" => w \in {"insert", "insertDefault"}
          /\ o = "update" => w \in {"promote", "demote", "activate", "deactivate"}
          /\ o = "delete" => w = "drop"
          /\ place = "count" <=> o = "delete"
    <3>1. CASE ArriveCreate(r)
      BY <3>1 DEF ArriveCreate, Edits, Wishes
    <3>2. CASE ArriveUpdate(r)
      BY <3>2 DEF ArriveUpdate, Edits, Wishes, Live
    <3>3. CASE ArriveDelete(r)
      BY <3>3 DEF ArriveDelete, Edits, Wishes, Live
    <3>4. QED
      BY <1>3, <3>1, <3>2, <3>3
  <2>2. /\ op' \in [Requests -> Ops] /\ op' = [op EXCEPT ![r] = o]
        /\ pc' \in [Requests -> {"idle"} \cup Running \cup Finished]
        /\ pc' = [pc EXCEPT ![r] = place]
        /\ begun' \in [Requests -> 0..Cardinality(Requests)]
        /\ overlaps' \in SUBSET SUBSET Requests /\ pc[r] = "idle"
    <3>1. o \in Ops /\ place \in Running
      BY DEF Edits, Ops, Running
    <3>2. QED
      BY <2>1, <3>1, ArriveTypes
  <2>3. /\ pkg' = [pkg EXCEPT ![r] = p] /\ wish' = [wish EXCEPT ![r] = w]
        /\ was' = [was EXCEPT ![r] = packages[p]]
        /\ UNCHANGED <<toClear, clears, seen, packages, subs, profile>>
    BY <2>1 DEF Wants
  <2>4. TypeOK'
    BY <2>2, <2>3 DEF TypeOK
  <2>5. PlacesOK'
    BY <2>1, <2>2, <2>3 DEF PlacesOK, Subscribed, Edits, Running, TypeOK
  <2>6. QED
    BY <2>4, <2>5
<1>4. QED
  BY <1>1, <1>2, <1>3 DEF Arrival

\* What an arrival changes, and what it leaves alone.
LEMMA ArrivalFrame ==
  ASSUME PlaceInv, NEW r \in Requests, Arrival(r)
  PROVE  \E o \in Ops, place \in {"profile", "current", "snapshot", "write", "count"} :
           /\ pc[r] = "idle"
           /\ op' = [op EXCEPT ![r] = o] /\ pc' = [pc EXCEPT ![r] = place]
           /\ o \in {"login", "change"} <=> place \in {"profile", "current"}
           /\ o = "change" => profile # None
           /\ begun' = [begun EXCEPT ![r] = 1 + Cardinality(Started)]
           /\ overlaps' = overlaps \cup {{r, s} : s \in Others(r)}
           /\ UNCHANGED <<packages, subs, profile, toClear, clears, seen>>
           /\ \A s \in Requests \ {r} :
                pkg'[s] = pkg[s] /\ wish'[s] = wish[s] /\ was'[s] = was[s]
           /\ o \in Edits =>
                /\ pkg'[r] \in Packages /\ was'[r] = packages[pkg'[r]]
                /\ o = "update" \/ o = "delete" => pkg'[r] \in Live
                /\ wish'[r] \in {"insertDefault", "promote"} => place = "snapshot"
<1> USE DEF PlaceInv, TypeOK, work, tables, Arrive, Goto, Started, Ops, Edits
<1>1. CASE ArriveLogin(r)
  BY <1>1 DEF ArriveLogin
<1>2. CASE ArriveChange(r)
  BY <1>2 DEF ArriveChange
<1>3. CASE ArriveCreate(r)
  <2>1. PICK p \in Packages, w \in {"insert", "insertDefault"} :
          /\ Arrive(r, "create", IF w = "insertDefault" THEN "snapshot" ELSE "write")
          /\ Wants(r, p, w)
    BY <1>3 DEF ArriveCreate
  <2>2. PICK place \in {"snapshot", "write"} :
          Arrive(r, "create", place) /\ (w = "insertDefault" => place = "snapshot")
    BY <2>1
  <2>3. /\ pkg' = [pkg EXCEPT ![r] = p] /\ wish' = [wish EXCEPT ![r] = w]
        /\ was' = [was EXCEPT ![r] = packages[p]]
        /\ UNCHANGED <<packages, subs, profile, toClear, clears, seen>>
    BY <2>1 DEF Wants
  <2>4. QED
    BY <2>2, <2>3
<1>4. CASE ArriveUpdate(r)
  <2>1. PICK p \in Live, w \in {"promote", "demote", "activate", "deactivate"} :
          /\ Arrive(r, "update", IF w = "promote" THEN "snapshot" ELSE "write")
          /\ Wants(r, p, w)
    BY <1>4 DEF ArriveUpdate
  <2>2. PICK place \in {"snapshot", "write"} :
          Arrive(r, "update", place) /\ (w = "promote" => place = "snapshot")
    BY <2>1
  <2>3. /\ pkg' = [pkg EXCEPT ![r] = p] /\ wish' = [wish EXCEPT ![r] = w]
        /\ was' = [was EXCEPT ![r] = packages[p]] /\ p \in Packages
        /\ UNCHANGED <<packages, subs, profile, toClear, clears, seen>>
    BY <2>1 DEF Wants, Live
  <2>4. QED
    BY <2>2, <2>3
<1>5. CASE ArriveDelete(r)
  BY <1>5 DEF ArriveDelete, Wants, Live
<1>6. QED
  BY <1>1, <1>2, <1>3, <1>4, <1>5 DEF Arrival

\* A change ends subscriptions and adds its own; it takes none away.
LEMMA ChangedSubs ==
  ASSUME PlaceInv, NEW r \in Requests, CommitLogin(r) \/ CommitChange(r)
  PROVE  /\ Subscribed' = Subscribed \cup {r}
         /\ \A s \in Subscribed \ {r} : subs'[s].package = subs[s].package
         /\ \A s \in Requests \ {r} :
              subs'[s].status \in {subs[s].status, "cancelled"}
         /\ subs'[r] = [package |-> pkg[r],
                        status |-> IF op[r] = "login" THEN "active" ELSE wish[r]]
<1> USE DEF PlaceInv
<1>1. \A s \in Subscribed : subs[s] \in [package : Packages, status : States]
  BY DEF Subscribed, TypeOK, Sub, NoSub
<1>2. \A s \in Requests \ {r} :
        \/ subs'[s] = subs[s]
        \/ s \in Subscribed /\ subs'[s] = [subs[s] EXCEPT !.status = "cancelled"]
  BY DEF CommitLogin, CommitChange, PlacesOK, TypeOK
<1>3. /\ subs'[r] = [package |-> pkg[r],
                     status |-> IF op[r] = "login" THEN "active" ELSE wish[r]]
      /\ op[r] = "change" => wish[r] \in States
  BY ChangeStates DEF CommitLogin, CommitChange, PlacesOK, TypeOK
<1>4. op[r] \in {"login", "change"}
  BY DEF CommitLogin, CommitChange
<1>5. r \in Subscribed'
  BY <1>3, <1>4 DEF Subscribed, States
<1>6. \A s \in Requests \ {r} : s \in Subscribed' <=> s \in Subscribed
  BY <1>1, <1>2 DEF Subscribed
<1>7. \A s \in Subscribed \ {r} : subs'[s].package = subs[s].package
  BY <1>1, <1>2 DEF Subscribed
<1>8. \A s \in Requests \ {r} : subs'[s].status \in {subs[s].status, "cancelled"}
  BY <1>1, <1>2
<1>9. QED
  BY <1>3, <1>5, <1>6, <1>7, <1>8 DEF Subscribed

LEMMA WrittenRow ==
  ASSUME NEW row \in Row, NEW w
  PROVE  /\ Written(row, w) \in Row
         /\ Written(row, w).state \in {row.state, "live", "deleted"}
         /\ row.state = "live" /\ Written(row, w).state # "live" => w = "drop"
         /\ Written(row, w).default =>
              row.default \/ w \in {"insertDefault", "promote"}
         /\ Written(row, w).default /\ Written(row, w).state = "live" =>
              row.state = "live" \/ w = "insertDefault"
         /\ w = "demote" => ~ Written(row, w).default /\ Written(row, w).state = row.state
BY DEF Written, Row, RowStates

LEMMA CommitKeepsPlaces ==
  ASSUME PlaceInv, NEW r \in Requests, CommitLogin(r) \/ CommitChange(r) \/ CommitPackage(r)
  PROVE  PlaceInv'
<1> USE DEF PlaceInv, work, tables
<1>1. CASE CommitLogin(r)
  <2>1. /\ subs' = [subs EXCEPT ![r] = [package |-> pkg[r], status |-> "active"]]
        /\ pkg[r] \in Packages /\ op[r] = "login" /\ pc[r] = "commit"
        /\ pc' = [pc EXCEPT ![r] = "current"] /\ profile' = r
        /\ UNCHANGED <<op, begun, pkg, wish, was, toClear, clears, seen, packages, overlaps>>
    BY <1>1 DEF CommitLogin, Goto, PlacesOK
  <2>2. subs' \in [Requests -> Sub]
    BY <2>1 DEF TypeOK, Sub, States
  <2>3. TypeOK'
    BY <2>1, <2>2 DEF TypeOK, Running
  <2>4. Subscribed \subseteq Subscribed'
    BY <2>1 DEF Subscribed, TypeOK
  <2>5. PlacesOK'
    BY <2>1, <2>4 DEF PlacesOK, Edits, TypeOK
  <2>6. QED
    BY <2>3, <2>5
<1>2. CASE CommitChange(r)
  <2>1. /\ subs' = [s \in Requests |->
                      IF s = r THEN [package |-> pkg[r], status |-> wish[r]]
                      ELSE IF seen[r].active /\ s = seen[r].sub
                           THEN [subs[s] EXCEPT !.status = "cancelled"]
                           ELSE subs[s]]
        /\ pkg[r] \in Packages /\ wish[r] \in States /\ op[r] = "change" /\ pc[r] = "commit"
        /\ pc' = [pc EXCEPT ![r] = "done"]
        /\ UNCHANGED <<op, begun, pkg, wish, was, toClear, clears, seen, packages, profile, overlaps>>
    BY <1>2, ChangeStates DEF CommitChange, Goto, PlacesOK
  <2>2. seen[r].active => subs[seen[r].sub] \in [package : Packages, status : States]
    BY DEF PlacesOK, Subscribed, TypeOK, Sub, NoSub
  <2>3. subs' \in [Requests -> Sub]
    BY <2>1, <2>2 DEF TypeOK, Sub, States
  <2>4. TypeOK'
    BY <2>1, <2>3 DEF TypeOK, Finished
  <2>5. Subscribed \subseteq Subscribed'
    BY <2>1, <2>2 DEF Subscribed, States
  <2>6. \A s \in Requests : subs[s] = NoSub /\ s # r => subs'[s] = NoSub
    BY <2>1, <2>2 DEF PlacesOK, Subscribed, NoSub
  <2>7. PlacesOK'
    BY <2>1, <2>5, <2>6 DEF PlacesOK, Edits, Running, TypeOK
  <2>8. QED
    BY <2>4, <2>7
<1>3. CASE CommitPackage(r)
  <2>1. /\ packages' = [p \in Packages |->
                          IF p = pkg[r] THEN Written(packages[p], wish[r])
                          ELSE IF p \in clears[r] THEN Written(packages[p], "demote")
                          ELSE packages[p]]
        /\ pc[r] = "commit" /\ pc' = [pc EXCEPT ![r] = "done"]
        /\ UNCHANGED <<op, begun, work, subs, profile, overlaps>>
    BY <1>3 DEF CommitPackage, Goto
  <2>2. packages' \in [Packages -> Row]
    BY <2>1, WrittenRow DEF TypeOK
  <2>3. QED
    BY <2>1, <2>2 DEF TypeOK, PlacesOK, Subscribed, Finished, Running
<1>4. QED
  BY <1>1, <1>2, <1>3

LEMMA PlaceStep == PlaceInv /\ [Next]_vars => PlaceInv'
<1> SUFFICES ASSUME PlaceInv, [Next]_vars
             PROVE  PlaceInv'
  OBVIOUS
<1> USE DEF PlaceInv, work, tables
<1>1. ASSUME NEW r \in Requests, Arrival(r)
      PROVE  PlaceInv'
  BY <1>1, ArrivalKeepsPlaces
<1>2. ASSUME NEW r \in Requests, \/ InsertProfile(r) \/ Retry(r) \/ Admit(r) \/ Subscribe(r)
                                 \/ Count(r) \/ Fail(r) \/ Victim(r)
      PROVE  PlaceInv'
  <2>1. /\ UNCHANGED <<op, begun, work, tables, overlaps>> /\ pc[r] \in Running
        /\ \E p \in {"package", "retry", "error", "current", "done", "rejected", "commit", "refs"} :
             /\ pc' = [pc EXCEPT ![r] = p]
             /\ p \in {"package", "retry", "current"} => op[r] = "login"
             /\ p = "refs" => op[r] = "delete"
             /\ p = "commit" => pc[r] = "write"
    BY <1>2 DEF InsertProfile, Retry, Admit, Subscribe, Count, Fail, Victim, Break, Goto,
                Running, PlacesOK
  <2>2. TypeOK'
    BY <2>1 DEF TypeOK, Running, Finished
  <2>3. PlacesOK'
    BY <2>1 DEF TypeOK, PlacesOK, Subscribed, Running, Finished
  <2>4. QED
    BY <2>2, <2>3
<1>3. ASSUME NEW r \in Requests, DefaultPackage(r)
      PROVE  PlaceInv'
  <2>1. /\ UNCHANGED <<op, begun, wish, was, toClear, clears, seen, tables, overlaps>>
        /\ pc[r] = "package" /\ op[r] = "login"
        /\ \/ \E p \in Packages : pkg' = [pkg EXCEPT ![r] = p] /\ pc' = [pc EXCEPT ![r] = "write"]
           \/ pkg' = pkg /\ pc' = [pc EXCEPT ![r] = "error"]
    BY <1>3 DEF DefaultPackage, Defaults, Live, Goto, PlacesOK
  <2>2. TypeOK'
    BY <2>1 DEF TypeOK, Running, Finished
  <2>3. PlacesOK'
    BY <2>1 DEF TypeOK, PlacesOK, Subscribed, Running, Edits
  <2>4. QED
    BY <2>2, <2>3
<1>4. ASSUME NEW r \in Requests, ReadCurrent(r)
      PROVE  PlaceInv'
  <2>1. PICK s \in Newest :
          seen' = [seen EXCEPT ![r] = [sub |-> s, active |-> subs[s].status = "active"]]
    BY <1>4 DEF ReadCurrent
  <2>2. s \in Subscribed /\ s \in Requests
    BY DEF Newest, Subscribed
  <2>3. /\ UNCHANGED <<op, begun, pkg, wish, was, toClear, clears, tables, overlaps>>
        /\ pc[r] = "current" /\ op[r] = "change" /\ pc' = [pc EXCEPT ![r] = "write"]
    BY <1>4 DEF ReadCurrent, Goto
  <2>4. TypeOK'
    BY <2>1, <2>2, <2>3 DEF TypeOK, Seen, Running
  <2>5. PlacesOK'
    BY <2>1, <2>2, <2>3 DEF TypeOK, PlacesOK, Subscribed, Running, Edits
  <2>6. QED
    BY <2>4, <2>5
<1>5. ASSUME NEW r \in Requests, Snapshot(r)
      PROVE  PlaceInv'
  <2>1. /\ toClear' = [toClear EXCEPT ![r] = Live \ {pkg[r]}] /\ Live \subseteq Packages
        /\ UNCHANGED <<op, begun, pkg, wish, was, clears, seen, tables, overlaps>>
        /\ op[r] \in {"create", "update"} /\ pc[r] = "snapshot"
        /\ \E p \in {"write", "clear"} : pc' = [pc EXCEPT ![r] = p]
    BY <1>5 DEF Snapshot, Goto, PlacesOK, Live
  <2>2. TypeOK'
    BY <2>1 DEF TypeOK, Running
  <2>3. PlacesOK'
    BY <2>1 DEF TypeOK, PlacesOK, Subscribed, Running, Edits
  <2>4. QED
    BY <2>2, <2>3
<1>6. ASSUME NEW r \in Requests, Clear(r)
      PROVE  PlaceInv'
  <2>1. PICK p \in toClear[r] : /\ toClear' = [toClear EXCEPT ![r] = @ \ {p}]
                                /\ clears' = [clears EXCEPT ![r] = @ \cup {p}]
    BY <1>6 DEF Clear
  <2>2. /\ UNCHANGED <<op, begun, pkg, wish, was, seen, tables, overlaps>> /\ p \in Packages
        /\ op[r] \in {"create", "update"} /\ pc[r] = "clear"
        /\ \E place \in {"write", "clear"} : pc' = [pc EXCEPT ![r] = place]
    BY <1>6, <2>1 DEF Clear, Goto, PlacesOK, TypeOK
  <2>3. TypeOK'
    BY <2>1, <2>2 DEF TypeOK, Running
  <2>4. PlacesOK'
    BY <2>1, <2>2 DEF TypeOK, PlacesOK, Subscribed, Running, Edits
  <2>5. QED
    BY <2>3, <2>4
<1>7. ASSUME NEW r \in Requests, CountRefs(r) \/ WritePackage(r)
      PROVE  PlaceInv'
  <2>1. PICK w \in {"deactivate", "drop", "nothing", wish[r]} :
          /\ wish' = [wish EXCEPT ![r] = w]
          /\ op[r] \in Edits
          /\ pc[r] = "refs" => op[r] = "delete" /\ w \in {"deactivate", "drop"}
          /\ pc[r] = "write" => w \in {wish[r], "nothing"} /\ (w = "nothing" => op[r] # "create")
          /\ pc[r] \in {"refs", "write"}
    <3>1. op[r] = "create" => Effective(r) = wish[r]
      BY DEF PlacesOK, Effective
    <3>2. QED
      BY <1>7, <3>1 DEF CountRefs, WritePackage, Effective, PlacesOK, Edits
  <2>2. /\ UNCHANGED <<op, begun, pkg, was, toClear, clears, seen, tables, overlaps>>
        /\ \E p \in {"write", "commit", "error"} : pc' = [pc EXCEPT ![r] = p]
    BY <1>7 DEF CountRefs, WritePackage, Goto
  <2>3. TypeOK'
    BY <2>1, <2>2 DEF TypeOK, PlacesOK, Wishes, Running, Finished
  <2>4. PlacesOK'
    BY <2>1, <2>2 DEF TypeOK, PlacesOK, Subscribed, Running, Edits, Wishes
  <2>5. QED
    BY <2>3, <2>4
<1>8. ASSUME NEW r \in Requests, CommitLogin(r) \/ CommitChange(r) \/ CommitPackage(r)
      PROVE  PlaceInv'
  BY <1>8, CommitKeepsPlaces
<1>9. CASE UNCHANGED vars
  BY <1>9 DEF vars, TypeOK, PlacesOK, Subscribed
<1>10. QED
  BY <1>1, <1>2, <1>3, <1>4, <1>5, <1>6, <1>7, <1>8, <1>9 DEF Next, Step

\* Every variable keeps its type, whatever fails.
THEOREM TypeCorrect == Spec => []TypeOK
<1>1. PlaceInv => TypeOK
  BY DEF PlaceInv
<1>2. QED
  BY <1>1, PlaceStart, PlaceStep, PTL DEF Spec

-----------------------------------------------------------------------------
(* One provisioning.                                                       *)

ProvisionOK ==
  /\ \A r \in Requests : Provisioning(r) => profile = None
  /\ \A r, s \in Requests : Provisioning(r) /\ Provisioning(s) => r = s
  /\ \A r \in Requests : op[r] = "change" => profile # None
  /\ Provisioned

\* Steps that move a request on without provisioning.
LEMMA QuietProvision ==
  ASSUME PlaceInv, ProvisionOK, NEW r \in Requests, UNCHANGED <<op, subs, profile>>,
         NEW p, pc' = [pc EXCEPT ![r] = p],
         op[r] = "login" /\ p \in {"package", "write", "commit"} => Provisioning(r)
  PROVE  ProvisionOK'
<1>1. \A s \in Requests : Provisioning(s)' => Provisioning(s)
  BY DEF Provisioning, PlaceInv, TypeOK
<1>2. QED
  BY <1>1 DEF ProvisionOK, Provisioned, Subscribed

LEMMA ProvisionStep ==
  ASSUME PlaceInv, ProvisionOK, [Next]_vars
  PROVE  ProvisionOK'
<1> USE DEF PlaceInv, work, tables
<1>1. ASSUME NEW r \in Requests, Arrival(r)
      PROVE  ProvisionOK'
  <2>1. /\ pc[r] = "idle" /\ UNCHANGED <<subs, profile>>
        /\ \E p \in Running : pc' = [pc EXCEPT ![r] = p] /\ p \notin {"package", "commit"}
                              /\ (p = "write" => op'[r] # "login")
        /\ \E o : op' = [op EXCEPT ![r] = o] /\ (o = "change" => profile # None)
    BY <1>1, ArrivalFrame DEF Running, TypeOK
  <2>2. \A s \in Requests : Provisioning(s)' => Provisioning(s)
    BY <2>1 DEF Provisioning, TypeOK
  <2>3. r \notin Subscribed /\ profile # r
    BY <2>1 DEF PlacesOK, Subscribed, NoSub, ProvisionOK, Provisioned
  <2>4. QED
    BY <2>1, <2>2, <2>3 DEF ProvisionOK, Provisioned, Subscribed, TypeOK
<1>2. ASSUME NEW r \in Requests, InsertProfile(r)
      PROVE  ProvisionOK'
  <2>1. CASE profile # None
    BY <1>2, <2>1, QuietProvision DEF InsertProfile, Goto
  <2>2. CASE profile = None
    <3>1. /\ pc' = [pc EXCEPT ![r] = "package"] /\ UNCHANGED <<op, subs, profile>>
          /\ pc[r] = "profile"
          /\ \A s \in Others(r) : ~ Provisioning(s)
      BY <1>2, <2>2 DEF InsertProfile, Blockers, Goto
    <3>2. \A s \in Requests \ {r} : ~ Provisioning(s)
      BY <3>1 DEF Others, Provisioning, Running
    <3>3. \A s \in Requests \ {r} : ~ Provisioning(s)'
      BY <3>1, <3>2 DEF Provisioning
    <3>4. QED
      BY <2>2, <3>1, <3>3 DEF ProvisionOK, Provisioned, Subscribed
  <2>3. QED
    BY <2>1, <2>2
<1>3. ASSUME NEW r \in Requests,
             \/ DefaultPackage(r) \/ Retry(r) \/ Admit(r) \/ ReadCurrent(r) \/ Subscribe(r)
             \/ Snapshot(r) \/ Clear(r) \/ Count(r) \/ CountRefs(r) \/ WritePackage(r)
             \/ Fail(r) \/ Victim(r)
      PROVE  ProvisionOK'
  <2>1. UNCHANGED <<op, subs, profile>>
    BY <1>3 DEF DefaultPackage, Retry, Admit, ReadCurrent, Subscribe, Snapshot, Clear, Count,
                CountRefs, WritePackage, Fail, Victim, Break
  <2>2. \E p : /\ pc' = [pc EXCEPT ![r] = p]
               /\ op[r] = "login" /\ p \in {"package", "write", "commit"} => Provisioning(r)
    BY <1>3 DEF DefaultPackage, Retry, Admit, ReadCurrent, Subscribe, Snapshot, Clear, Count,
                CountRefs, WritePackage, Fail, Victim, Break, Goto, Provisioning, PlacesOK
  <2>3. QED
    BY <2>1, <2>2, QuietProvision
<1>4. ASSUME NEW r \in Requests, CommitLogin(r)
      PROVE  ProvisionOK'
  <2>1. /\ Provisioning(r) /\ profile' = r /\ pc' = [pc EXCEPT ![r] = "current"]
        /\ op[r] = "login" /\ UNCHANGED op
        /\ subs' = [subs EXCEPT ![r] = [package |-> pkg[r], status |-> "active"]]
    BY <1>4 DEF CommitLogin, Goto, Provisioning
  <2>2. \A s \in Requests : ~ Provisioning(s)'
    BY <2>1 DEF ProvisionOK, Provisioning, TypeOK
  <2>3. Subscribed' = Subscribed \cup {r}
    BY <2>1 DEF Subscribed, TypeOK
  <2>4. profile = None /\ r # None
    BY <2>1, SubscriptionRequests DEF ProvisionOK
  <2>5. QED
    BY <2>1, <2>2, <2>3, <2>4, SubscriptionRequests DEF ProvisionOK, Provisioned
<1>5. ASSUME NEW r \in Requests, CommitChange(r)
      PROVE  ProvisionOK'
  <2>1. op[r] = "change" /\ UNCHANGED <<op, profile>> /\ pc' = [pc EXCEPT ![r] = "done"]
    BY <1>5 DEF CommitChange, Goto
  <2>2. \A s \in Requests \ {r} : s \in Subscribed' <=> s \in Subscribed
    BY <1>5, ChangedSubs
  <2>3. \A s \in Requests : Provisioning(s)' => Provisioning(s)
    BY <2>1 DEF Provisioning, TypeOK
  <2>4. QED
    BY <2>1, <2>2, <2>3 DEF ProvisionOK, Provisioned
<1>6. ASSUME NEW r \in Requests, CommitPackage(r)
      PROVE  ProvisionOK'
  BY <1>6, QuietProvision DEF CommitPackage, Goto
<1>7. CASE UNCHANGED vars
  BY <1>7 DEF vars, ProvisionOK, Provisioned, Provisioning, Subscribed
<1>8. QED
  BY <1>1, <1>2, <1>3, <1>4, <1>5, <1>6, <1>7 DEF Next, Step

ProvisionInv == PlaceInv /\ ProvisionOK

LEMMA ProvisionStart == Init => ProvisionInv
BY PlaceStart, SubscriptionRequests
   DEF Init, ProvisionInv, ProvisionOK, Provisioned, Provisioning, Subscribed, NoSub

LEMMA ProvisionInvStep == ProvisionInv /\ [Next]_vars => ProvisionInv'
BY PlaceStep, ProvisionStep DEF ProvisionInv

\* Of several first logins at once exactly the one whose profile is there has
\* subscribed, whatever fails.
THEOREM ProvisionedOnce == Spec => []Provisioned
<1>1. ProvisionInv => Provisioned
  BY DEF ProvisionInv, ProvisionOK
<1>2. QED
  BY <1>1, ProvisionStart, ProvisionInvStep, PTL DEF Spec

-----------------------------------------------------------------------------
(* Packages outlive their subscriptions.                                   *)

Subscribing == {r \in Requests : op[r] \in {"login", "change"} /\ pc[r] = "commit"}
Dropping == {r \in Requests : wish[r] = "drop" /\ pc[r] = "commit"}

KeptOK ==
  /\ \A r \in Subscribing : pkg[r] \in Live
  /\ \A d \in Dropping :
       /\ \A r \in Subscribing : pkg[r] # pkg[d]
       /\ \A s \in Subscribed : subs[s].package # pkg[d]
  /\ PackagesKept

LEMMA QuietKept ==
  ASSUME PlaceInv, KeptOK, NEW r \in Requests, UNCHANGED <<packages, subs>>,
         \A s \in Requests \ {r} :
           op'[s] = op[s] /\ pc'[s] = pc[s] /\ pkg'[s] = pkg[s] /\ wish'[s] = wish[s],
         pc'[r] # "commit"
  PROVE  KeptOK'
<1>1. Subscribing' \subseteq Subscribing /\ Dropping' \subseteq Dropping
  BY DEF Subscribing, Dropping
<1>2. QED
  BY <1>1 DEF KeptOK, PackagesKept, Subscribed, Live, Subscribing, Dropping

LEMMA KeptStep ==
  ASSUME PlaceInv, KeptOK, [Next]_vars
  PROVE  KeptOK'
<1> USE DEF PlaceInv, work, tables
<1>1. ASSUME NEW r \in Requests, Arrival(r)
      PROVE  KeptOK'
  BY <1>1, ArrivalFrame, QuietKept DEF TypeOK
<1>2. ASSUME NEW r \in Requests,
             \/ InsertProfile(r) \/ DefaultPackage(r) \/ Retry(r) \/ Admit(r) \/ ReadCurrent(r)
             \/ Snapshot(r) \/ Clear(r) \/ Count(r) \/ CountRefs(r) \/ Fail(r) \/ Victim(r)
      PROVE  KeptOK'
  BY <1>2, QuietKept
     DEF InsertProfile, DefaultPackage, Retry, Admit, ReadCurrent, Snapshot, Clear, Count,
         CountRefs, Fail, Victim, Break, Goto, TypeOK
<1>3. ASSUME NEW r \in Requests, Subscribe(r)
      PROVE  KeptOK'
  <2>1. /\ UNCHANGED <<op, work, tables>> /\ pc[r] = "write" /\ op[r] \in {"login", "change"}
        /\ \A s \in Others(r) : ~ (wish[s] = "drop" /\ pkg[r] \in RowsHeld(s))
    BY <1>3 DEF Subscribe, Blockers
  <2>2. CASE pkg[r] \in Live
    <3>1. pc' = [pc EXCEPT ![r] = "commit"]
      BY <1>3, <2>2 DEF Subscribe, Goto
    <3>2. wish[r] # "drop"
      BY <2>1, ChangeStates DEF PlacesOK, States
    <3>3. Subscribing' \subseteq Subscribing \cup {r} /\ Dropping' = Dropping
      BY <2>1, <3>1, <3>2 DEF Subscribing, Dropping, TypeOK
    <3>4. ASSUME NEW d \in Dropping
          PROVE  pkg[r] # pkg[d]
      <4>1. op[d] = "delete"
        BY ChangeStates DEF Dropping, PlacesOK, TypeOK, Ops, States
      <4>2. d \in Others(r) /\ pkg[d] \in RowsHeld(d)
        BY <2>1, <4>1 DEF Others, RowsHeld, Dropping, Running
      <4>3. QED
        BY <2>1, <4>2 DEF Dropping
    <3>5. QED
      BY <2>1, <2>2, <3>3, <3>4 DEF KeptOK, PackagesKept, Subscribed, Live
  <2>3. CASE pkg[r] \notin Live
    BY <1>3, <2>1, <2>3, QuietKept DEF Subscribe, Goto, TypeOK
  <2>4. QED
    BY <2>2, <2>3
<1>4. ASSUME NEW r \in Requests, WritePackage(r)
      PROVE  KeptOK'
  <2>1. /\ UNCHANGED <<op, pkg, packages, subs>> /\ pc[r] = "write" /\ op[r] \in Edits
        /\ wish' = [wish EXCEPT ![r] = Effective(r)]
        /\ \/ pc' = [pc EXCEPT ![r] = "commit"] /\ ~ FlushRejected(r)
           \/ pc' = [pc EXCEPT ![r] = "error"]
    <3>1. CASE FlushRejected(r)
      BY <1>4, <3>1 DEF WritePackage, Goto, Edits
    <3>2. CASE ~ FlushRejected(r)
      BY <1>4, <3>2 DEF WritePackage, Goto, Edits
    <3>3. QED
      BY <3>1, <3>2
  <2>2. Subscribing' = Subscribing /\ Dropping' \subseteq Dropping \cup {r}
    BY <2>1 DEF Subscribing, Dropping, Edits, TypeOK
  <2>3. ASSUME r \in Dropping'
        PROVE  /\ \A s \in Subscribing : pkg[s] # pkg[r]
               /\ \A s \in Subscribed : subs[s].package # pkg[r]
    <3>1. Effective(r) = "drop" /\ ~ FlushRejected(r)
      BY <2>1, <2>3 DEF Dropping, TypeOK
    <3>2. \A s \in Subscribed : subs[s].package # pkg[r]
      BY <3>1 DEF FlushRejected
    <3>3. \A s \in Others(r) : pkg[r] \notin RowsShared(s)
      BY <1>4, <2>1, <3>1 DEF WritePackage, Blockers, Edits
    <3>4. \A s \in Subscribing : s \in Others(r) /\ RowsShared(s) = {pkg[s]}
      BY <2>1 DEF Subscribing, Others, Running, RowsShared
    <3>5. QED
      BY <3>2, <3>3, <3>4
  <2>4. QED
    BY <2>1, <2>2, <2>3 DEF KeptOK, PackagesKept, Subscribed, Live
<1>5. ASSUME NEW r \in Requests, CommitLogin(r) \/ CommitChange(r)
      PROVE  KeptOK'
  <2>1. /\ r \in Subscribing /\ UNCHANGED <<op, wish, pkg, packages>>
        /\ \E p \in {"current", "done"} : pc' = [pc EXCEPT ![r] = p]
        /\ subs'[r].package = pkg[r]
    BY <1>5 DEF CommitLogin, CommitChange, Goto, Subscribing, TypeOK
  <2>2. \A s \in Requests \ {r} : s \in Subscribed' =>
          s \in Subscribed /\ subs'[s].package = subs[s].package
    BY <1>5, ChangedSubs
  <2>3. Subscribing' \subseteq Subscribing /\ Dropping' \subseteq Dropping
    BY <2>1 DEF Subscribing, Dropping, TypeOK
  <2>4. Subscribed' \subseteq Requests
    BY DEF Subscribed
  <2>5. QED
    BY <2>1, <2>2, <2>3, <2>4 DEF KeptOK, PackagesKept, Live
<1>6. ASSUME NEW r \in Requests, CommitPackage(r)
      PROVE  KeptOK'
  <2>1. /\ packages' = [p \in Packages |->
                          IF p = pkg[r] THEN Written(packages[p], wish[r])
                          ELSE IF p \in clears[r] THEN Written(packages[p], "demote")
                          ELSE packages[p]]
        /\ pc[r] = "commit" /\ pc' = [pc EXCEPT ![r] = "done"]
        /\ UNCHANGED <<op, wish, pkg, subs>>
    BY <1>6 DEF CommitPackage, Goto
  <2>2. Subscribing' \subseteq Subscribing /\ Dropping' \subseteq Dropping
    BY <2>1 DEF Subscribing, Dropping, TypeOK
  <2>3. ASSUME NEW p \in Live, p \notin Live'
        PROVE  r \in Dropping /\ p = pkg[r]
    BY <2>1, <2>3, WrittenRow DEF Live, Dropping, TypeOK
  <2>4. QED
    BY <2>1, <2>2, <2>3 DEF KeptOK, PackagesKept, Subscribed
<1>7. CASE UNCHANGED vars
  BY <1>7 DEF vars, KeptOK, PackagesKept, Subscribed, Live, Subscribing, Dropping
<1>8. QED
  BY <1>1, <1>2, <1>3, <1>4, <1>5, <1>6, <1>7 DEF Next, Step

KeptInv == PlaceInv /\ KeptOK

LEMMA KeptStart == Init => KeptInv
BY PlaceStart
   DEF Init, KeptInv, KeptOK, PackagesKept, Subscribed, NoSub, Subscribing, Dropping

LEMMA KeptInvStep == KeptInv /\ [Next]_vars => KeptInv'
BY PlaceStep, KeptStep DEF KeptInv

\* Whatever deletions, changes and logins race, the package of a subscription,
\* a cancelled one too, is never deleted: a deletion that saw no subscription
\* meets the key-share locks of those that subscribe.
THEOREM PackagesStay == Spec => []PackagesKept
<1>1. KeptInv => PackagesKept
  BY DEF KeptInv, KeptOK
<1>2. QED
  BY <1>1, KeptStart, KeptInvStep, PTL DEF Spec

-----------------------------------------------------------------------------
(* Requests that overlap: what a deletion may meet.                        *)

OverlapOK ==
  \A r, s \in Requests :
    r # s /\ pc[r] \in Running /\ pc[s] \in Running => {r, s} \in overlaps

LEMMA StepFrame ==
  ASSUME PlaceInv, NEW r \in Requests, Step(r) \/ Fail(r)
  PROVE  /\ UNCHANGED <<op, begun, overlaps>> /\ pc[r] \in Running
         /\ \E p : pc' = [pc EXCEPT ![r] = p]
<1> USE DEF work, tables
<1>1. UNCHANGED <<op, begun, overlaps>>
  BY DEF Step, InsertProfile, DefaultPackage, Retry, Admit, ReadCurrent, Subscribe, Snapshot,
         Clear, Count, CountRefs, WritePackage, CommitLogin, CommitChange, CommitPackage,
         Fail, Victim, Break
<1>2. pc[r] \in Running
  BY DEF Step, InsertProfile, DefaultPackage, Retry, Admit, ReadCurrent, Subscribe, Snapshot,
         Clear, Count, CountRefs, WritePackage, CommitLogin, CommitChange, CommitPackage,
         Fail, Victim, Running
<1>3. \E p : pc' = [pc EXCEPT ![r] = p]
  BY DEF Step, InsertProfile, DefaultPackage, Retry, Admit, ReadCurrent, Subscribe, Snapshot,
         Clear, Count, CountRefs, WritePackage, CommitLogin, CommitChange, CommitPackage,
         Fail, Victim, Break, Goto
<1>4. QED
  BY <1>1, <1>2, <1>3

LEMMA OverlapStep ==
  ASSUME PlaceInv, OverlapOK, [Next]_vars
  PROVE  /\ OverlapOK' /\ overlaps \subseteq overlaps'
         /\ \A s \in Requests : op[s] # "login" => op'[s] = op[s]
<1> USE DEF PlaceInv
<1>1. ASSUME NEW r \in Requests, Arrival(r)
      PROVE  /\ OverlapOK' /\ overlaps \subseteq overlaps'
             /\ \A s \in Requests : op[s] # "login" => op'[s] = op[s]
  <2>1. /\ pc[r] = "idle" /\ \E p : pc' = [pc EXCEPT ![r] = p]
        /\ overlaps' = overlaps \cup {{r, s} : s \in Others(r)}
        /\ \A s \in Requests : s # r => op'[s] = op[s]
    BY <1>1, ArrivalFrame DEF TypeOK
  <2>2. OverlapOK'
    <3>1. SUFFICES ASSUME NEW a \in Requests, NEW b \in Requests,
                          a # b, pc'[a] \in Running, pc'[b] \in Running
                   PROVE  {a, b} \in overlaps'
      BY DEF OverlapOK
    <3>2. CASE a = r
      BY <2>1, <3>1, <3>2 DEF Others
    <3>3. CASE b = r
      <4>1. {b, a} \in overlaps' /\ {b, a} = {a, b}
        BY <2>1, <3>1, <3>3 DEF Others
      <4>2. QED
        BY <4>1
    <3>4. CASE a # r /\ b # r
      BY <2>1, <3>1, <3>4 DEF OverlapOK
    <3>5. QED
      BY <3>2, <3>3, <3>4
  <2>3. QED
    BY <2>1, <2>2 DEF PlacesOK
<1>2. ASSUME NEW r \in Requests, Step(r) \/ Fail(r)
      PROVE  /\ OverlapOK' /\ overlaps \subseteq overlaps'
             /\ \A s \in Requests : op[s] # "login" => op'[s] = op[s]
  <2>1. UNCHANGED <<op, overlaps>> /\ pc[r] \in Running /\ \E p : pc' = [pc EXCEPT ![r] = p]
    BY <1>2, StepFrame
  <2>2. QED
    BY <2>1 DEF OverlapOK, TypeOK
<1>3. CASE UNCHANGED vars
  BY <1>3 DEF vars, OverlapOK
<1>4. QED
  BY <1>1, <1>2, <1>3 DEF Next

\* A deletion that goes on has met no active subscription of its package, and
\* no default, but those committed while it ran.
DeleteOK ==
  \A d \in Requests : op[d] = "delete" =>
    /\ pc[d] \in {"refs", "write", "commit"} =>
         /\ ~ was[d].default
         /\ \A s \in ActiveSubs : subs[s].package = pkg[d] => {d, s} \in overlaps
    /\ pc[d] \in Running /\ packages[pkg[d]].default =>
         \/ was[d].default
         \/ \E s \in Requests : op[s] \in {"create", "update"} /\ {d, s} \in overlaps

DeleteInv == PlaceInv /\ OverlapOK /\ DeleteOK

\* Steps that commit nothing.
LEMMA QuietDelete ==
  ASSUME PlaceInv, DeleteOK, NEW r \in Requests, NEW p, pc' = [pc EXCEPT ![r] = p],
         UNCHANGED <<op, packages, subs, overlaps>>, pc[r] \in Running,
         \A s \in Requests : op[s] = "delete" => pkg'[s] = pkg[s] /\ was'[s] = was[s],
         op[r] = "delete" /\ p \in {"refs", "write", "commit"} =>
           pc[r] \in {"refs", "write", "commit"}
  PROVE  DeleteOK'
BY DEF DeleteOK, ActiveSubs, PlaceInv, TypeOK

LEMMA DeleteStep ==
  ASSUME DeleteInv, [Next]_vars
  PROVE  DeleteOK'
<1> USE DEF DeleteInv, PlaceInv, work, tables
<1>1. ASSUME NEW r \in Requests, Arrival(r)
      PROVE  DeleteOK'
  <2>1. /\ pc[r] = "idle" /\ UNCHANGED <<packages, subs>>
        /\ pc'[r] \notin {"refs", "commit"} /\ (op'[r] = "delete" => pc'[r] # "write")
        /\ op'[r] = "delete" => was'[r] = packages[pkg'[r]]
        /\ \A s \in Requests \ {r} :
             pc'[s] = pc[s] /\ op'[s] = op[s] /\ pkg'[s] = pkg[s] /\ was'[s] = was[s]
        /\ overlaps \subseteq overlaps'
    <3>1. op'[r] = "delete" => pc'[r] # "write"
      BY <1>1 DEF Arrival, ArriveLogin, ArriveChange, ArriveCreate, ArriveUpdate, ArriveDelete,
                  Arrive, Goto, TypeOK
    <3>2. QED
      BY <1>1, <3>1, ArrivalFrame DEF TypeOK, Edits
  <2>2. \A d \in Requests : op'[d] = "delete" /\ d # r => op[d] = "delete"
    BY <2>1
  <2>3. \A s \in Requests : op[s] \in {"create", "update"} => op'[s] = op[s]
    BY <2>1 DEF PlacesOK
  <2>4. ASSUME NEW d \in Requests, op'[d] = "delete", pc'[d] \in {"refs", "write", "commit"}
        PROVE  /\ ~ was'[d].default
               /\ \A s \in ActiveSubs' : subs'[s].package = pkg'[d] => {d, s} \in overlaps'
    <3>1. d # r /\ ActiveSubs' = ActiveSubs
      BY <2>1, <2>4 DEF ActiveSubs
    <3>2. QED
      BY <2>1, <2>4, <3>1 DEF DeleteOK, ActiveSubs
  <2>5. ASSUME NEW d \in Requests, op'[d] = "delete", pc'[d] \in Running,
               packages'[pkg'[d]].default, ~ was'[d].default
        PROVE  \E s \in Requests : op'[s] \in {"create", "update"} /\ {d, s} \in overlaps'
    <3>1. d # r
      BY <2>1, <2>5
    <3>2. PICK s \in Requests : op[s] \in {"create", "update"} /\ {d, s} \in overlaps
      BY <2>1, <2>5, <3>1 DEF DeleteOK
    <3>3. QED
      BY <2>1, <2>3, <3>2
  <2>6. QED
    BY <2>4, <2>5 DEF DeleteOK
<1>2. ASSUME NEW r \in Requests,
             \/ InsertProfile(r) \/ DefaultPackage(r) \/ Retry(r) \/ Admit(r) \/ ReadCurrent(r)
             \/ Subscribe(r) \/ Snapshot(r) \/ Clear(r) \/ CountRefs(r) \/ WritePackage(r)
             \/ Fail(r) \/ Victim(r)
      PROVE  DeleteOK'
  <2>1. /\ UNCHANGED <<op, overlaps>> /\ pc[r] \in Running
        /\ UNCHANGED <<packages, subs, was>>
    BY <1>2, StepFrame
       DEF Step, InsertProfile, DefaultPackage, Retry, Admit, ReadCurrent, Subscribe, Snapshot,
           Clear, CountRefs, WritePackage, Fail, Victim, Break
  <2>2. \A s \in Requests : op[s] = "delete" => pkg'[s] = pkg[s]
    BY <1>2 DEF InsertProfile, DefaultPackage, Retry, Admit, ReadCurrent, Subscribe, Snapshot,
                Clear, CountRefs, WritePackage, Fail, Victim, Break, PlacesOK, TypeOK
  <2>3. \E p : /\ pc' = [pc EXCEPT ![r] = p]
               /\ op[r] = "delete" /\ p \in {"refs", "write", "commit"} =>
                    pc[r] \in {"refs", "write", "commit"}
    BY <1>2 DEF InsertProfile, DefaultPackage, Retry, Admit, ReadCurrent, Subscribe, Snapshot,
                Clear, CountRefs, WritePackage, Fail, Victim, Break, Goto, PlacesOK
  <2>4. QED
    BY <2>1, <2>2, <2>3, QuietDelete
<1>3. ASSUME NEW r \in Requests, Count(r)
      PROVE  DeleteOK'
  <2>1. UNCHANGED <<op, work, tables, overlaps>> /\ pc[r] \in Running
    BY <1>3 DEF Count, Running
  <2>2. CASE was[r].default \/ \E s \in ActiveSubs : subs[s].package = pkg[r]
    BY <1>3, <2>1, <2>2, QuietDelete DEF Count, Goto
  <2>3. CASE ~ (was[r].default \/ \E s \in ActiveSubs : subs[s].package = pkg[r])
    <3>1. pc' = [pc EXCEPT ![r] = "refs"]
      BY <1>3, <2>3 DEF Count, Goto
    <3>2. QED
      BY <2>1, <2>3, <3>1 DEF DeleteOK, ActiveSubs, TypeOK
  <2>4. QED
    BY <2>2, <2>3
<1>4. ASSUME NEW r \in Requests, CommitLogin(r) \/ CommitChange(r)
      PROVE  DeleteOK'
  <2>1. /\ UNCHANGED <<op, overlaps, pkg, was, packages>> /\ pc[r] = "commit"
        /\ op[r] # "delete" /\ \E p : pc' = [pc EXCEPT ![r] = p]
    BY <1>4 DEF CommitLogin, CommitChange, Goto
  <2>2. \A s \in ActiveSubs' \ {r} : s \in ActiveSubs /\ subs'[s].package = subs[s].package
    BY <1>4, ChangedSubs DEF ActiveSubs, Subscribed
  <2>3. \A d \in Requests : op[d] = "delete" /\ pc[d] \in Running => {d, r} \in overlaps
    BY <2>1 DEF OverlapOK, Running
  <2>4. QED
    BY <2>1, <2>2, <2>3 DEF DeleteOK, TypeOK, Running
<1>5. ASSUME NEW r \in Requests, CommitPackage(r)
      PROVE  DeleteOK'
  <2>1. /\ packages' = [p \in Packages |->
                          IF p = pkg[r] THEN Written(packages[p], wish[r])
                          ELSE IF p \in clears[r] THEN Written(packages[p], "demote")
                          ELSE packages[p]]
        /\ pc[r] = "commit" /\ pc' = [pc EXCEPT ![r] = "done"] /\ op[r] \in Edits
        /\ UNCHANGED <<op, pkg, was, subs, overlaps>>
    BY <1>5 DEF CommitPackage, Goto, Edits
  <2>2. ASSUME NEW p \in Packages, packages'[p].default, ~ packages[p].default
        PROVE  op[r] \in {"create", "update"}
    BY <2>1, <2>2, WrittenRow DEF TypeOK, PlacesOK, Edits
  <2>3. \A d \in Requests : d # r /\ pc[d] \in Running => {d, r} \in overlaps
    BY <2>1 DEF OverlapOK, Running
  <2>4. \A d \in Requests : op[d] = "delete" => pkg[d] \in Packages
    BY DEF PlacesOK, Edits
  <2>5. pc'[r] \notin Running /\ \A d \in Requests \ {r} : pc'[d] = pc[d]
    BY <2>1 DEF Running, TypeOK
  <2>6. QED
    BY <2>1, <2>2, <2>3, <2>4, <2>5 DEF DeleteOK, ActiveSubs, Running
<1>6. CASE UNCHANGED vars
  BY <1>6 DEF vars, DeleteOK, ActiveSubs
<1>7. QED
  BY <1>1, <1>2, <1>3, <1>4, <1>5, <1>6 DEF Next, Step

LEMMA DeleteStart == Init => DeleteInv
BY PlaceStart DEF Init, DeleteInv, OverlapOK, DeleteOK, Running

LEMMA DeleteInvStep == DeleteInv /\ [Next]_vars => DeleteInv'
BY PlaceStep, OverlapStep, DeleteStep DEF DeleteInv

\* A deletion commits over an active subscription or a default of its package
\* only when that was committed while it ran.
THEOREM DeletionsAreSafe == Spec => DeletionsSafe
<1> DEFINE Safe ==
      \A r \in Requests :
        op[r] = "delete" /\ pc[r] = "commit" /\ pc'[r] = "done" =>
          /\ \A s \in ActiveSubs : subs[s].package = pkg[r] => {r, s} \in overlaps
          /\ packages[pkg[r]].default =>
               \E s \in Requests : op[s] \in {"create", "update"} /\ {r, s} \in overlaps
<1>1. DeleteInv /\ [Next]_vars => [Safe]_vars
  BY DEF DeleteInv, DeleteOK, Running
<1>2. QED
  BY <1>1, DeleteStart, DeleteInvStep, PTL DEF Spec, DeletionsSafe

-----------------------------------------------------------------------------
(* One default package, but for edits that overlap.                        *)

Editors == {"create", "update"}
AllDefaults == {p \in Live : packages[p].default}

\* The edits that will commit a default.
Promoters == {r \in Requests : op[r] \in Editors /\ wish[r] \in {"insertDefault", "promote"}}

DefaultOK ==
  /\ \A r \in Promoters :
       /\ pc[r] \in {"clear", "write", "commit"} =>
            AllDefaults \subseteq {pkg[r]} \cup toClear[r] \cup clears[r]
       /\ pc[r] \in {"write", "commit"} => toClear[r] = {}
  /\ \A p, q \in AllDefaults : p = q

DefaultInv == PlaceInv /\ OverlapOK /\ (Overlapped(Editors) \/ DefaultOK)

LEMMA OverlappedStays ==
  ASSUME PlaceInv, OverlapOK, [Next]_vars, NEW S, "login" \notin S, Overlapped(S)
  PROVE  Overlapped(S)'
BY OverlapStep DEF Overlapped

LEMMA DefaultStep ==
  ASSUME PlaceInv, OverlapOK, DefaultOK, ~ Overlapped(Editors), [Next]_vars
  PROVE  DefaultOK'
<1> USE DEF PlaceInv, work, tables
<1>1. ASSUME NEW r \in Requests, Arrival(r)
      PROVE  DefaultOK'
  <2>1. /\ UNCHANGED <<packages, toClear, clears>>
        /\ \A s \in Requests \ {r} :
             op'[s] = op[s] /\ pc'[s] = pc[s] /\ wish'[s] = wish[s] /\ pkg'[s] = pkg[s]
        /\ r \in Promoters' => pc'[r] = "snapshot"
    BY <1>1, ArrivalFrame DEF Promoters, Editors, Edits, TypeOK
  <2>2. AllDefaults' = AllDefaults
    BY <2>1 DEF AllDefaults, Live
  <2>3. QED
    BY <2>1, <2>2 DEF DefaultOK, Promoters
<1>2. ASSUME NEW r \in Requests, NEW p, pc' = [pc EXCEPT ![r] = p],
             UNCHANGED <<op, packages, toClear, clears>>,
             \A s \in Promoters' : s \in Promoters /\ pkg'[s] = pkg[s],
             r \in Promoters /\ p \in {"clear", "write", "commit"} => pc[r] \in {"write", "commit"}
      PROVE  DefaultOK'
  <2>1. AllDefaults' = AllDefaults
    BY <1>2 DEF AllDefaults, Live
  <2>2. QED
    BY <1>2, <2>1 DEF DefaultOK, Promoters, TypeOK
<1>3. ASSUME NEW r \in Requests,
             \/ InsertProfile(r) \/ DefaultPackage(r) \/ Retry(r) \/ Admit(r) \/ ReadCurrent(r)
             \/ Subscribe(r) \/ Count(r) \/ CountRefs(r) \/ CommitLogin(r) \/ CommitChange(r)
      PROVE  DefaultOK'
  <2>1. /\ UNCHANGED <<op, packages, toClear, clears>> /\ op[r] \notin Editors
        /\ \A s \in Requests \ {r} : pkg'[s] = pkg[s] /\ wish'[s] = wish[s]
    BY <1>3 DEF InsertProfile, DefaultPackage, Retry, Admit, ReadCurrent, Subscribe, Count,
                CountRefs, CommitLogin, CommitChange, PlacesOK, TypeOK, Editors
  <2>2. \E p : pc' = [pc EXCEPT ![r] = p]
    BY <1>3 DEF InsertProfile, DefaultPackage, Retry, Admit, ReadCurrent, Subscribe, Count,
                CountRefs, CommitLogin, CommitChange, Goto
  <2>3. r \notin Promoters /\ \A s \in Promoters' : s \in Promoters /\ pkg'[s] = pkg[s]
    BY <2>1 DEF Promoters
  <2>4. QED
    BY <1>2, <2>1, <2>2, <2>3
<1>4. ASSUME NEW r \in Requests, Fail(r) \/ Victim(r)
      PROVE  DefaultOK'
  BY <1>2, <1>4 DEF Fail, Victim, Break, Goto, Promoters
<1>5. ASSUME NEW r \in Requests, WritePackage(r)
      PROVE  DefaultOK'
  <2>1. /\ UNCHANGED <<op, pkg, packages, toClear, clears>> /\ pc[r] = "write"
        /\ wish' = [wish EXCEPT ![r] = Effective(r)] /\ Effective(r) \in {wish[r], "nothing"}
    BY <1>5 DEF WritePackage, Effective
  <2>2. \E p : pc' = [pc EXCEPT ![r] = p]
    BY <1>5 DEF WritePackage, Goto
  <2>3. Promoters' \subseteq Promoters
    BY <2>1 DEF Promoters, TypeOK
  <2>4. QED
    BY <1>2, <2>1, <2>2, <2>3
<1>6. ASSUME NEW r \in Requests, Snapshot(r)
      PROVE  DefaultOK'
  <2>1. /\ UNCHANGED <<op, pkg, wish, packages, clears>>
        /\ toClear' = [toClear EXCEPT ![r] = Live \ {pkg[r]}]
        /\ \/ Live \subseteq {pkg[r]} /\ pc' = [pc EXCEPT ![r] = "write"]
           \/ pc' = [pc EXCEPT ![r] = "clear"]
    <3>1. CASE Live \subseteq {pkg[r]}
      BY <1>6, <3>1 DEF Snapshot, Goto
    <3>2. CASE ~ (Live \subseteq {pkg[r]})
      BY <1>6, <3>2 DEF Snapshot, Goto
    <3>3. QED
      BY <3>1, <3>2
  <2>2. AllDefaults' = AllDefaults /\ AllDefaults \subseteq Live /\ Promoters' = Promoters
    BY <2>1 DEF AllDefaults, Live, Promoters
  <2>3. toClear'[r] = Live \ {pkg[r]} /\ (pc'[r] = "clear" \/ toClear'[r] = {})
    BY <2>1 DEF TypeOK
  <2>4. QED
    BY <2>1, <2>2, <2>3 DEF DefaultOK, Promoters, TypeOK
<1>7. ASSUME NEW r \in Requests, Clear(r)
      PROVE  DefaultOK'
  <2>1. PICK p \in toClear[r] :
          /\ toClear' = [toClear EXCEPT ![r] = @ \ {p}]
          /\ clears' = [clears EXCEPT ![r] = @ \cup {p}]
          /\ Goto(r, IF toClear[r] = {p} THEN "write" ELSE "clear")
    BY <1>7 DEF Clear
  <2>2. UNCHANGED <<op, pkg, wish, packages>> /\ pc[r] = "clear"
    BY <1>7 DEF Clear
  <2>3. AllDefaults' = AllDefaults /\ Promoters' = Promoters
    BY <2>2 DEF AllDefaults, Live, Promoters
  <2>4. /\ toClear'[r] \cup clears'[r] = toClear[r] \cup clears[r]
        /\ pc'[r] = "clear" \/ toClear'[r] = {}
    BY <2>1 DEF Goto, TypeOK
  <2>5. \A s \in Requests \ {r} :
          toClear'[s] = toClear[s] /\ clears'[s] = clears[s] /\ pc'[s] = pc[s]
    BY <2>1 DEF Goto
  <2>6. QED
    BY <2>2, <2>3, <2>4, <2>5 DEF DefaultOK, Promoters
<1>8. ASSUME NEW r \in Requests, CommitPackage(r)
      PROVE  DefaultOK'
  <2>1. /\ packages' = [p \in Packages |->
                          IF p = pkg[r] THEN Written(packages[p], wish[r])
                          ELSE IF p \in clears[r] THEN Written(packages[p], "demote")
                          ELSE packages[p]]
        /\ pc[r] = "commit" /\ pc' = [pc EXCEPT ![r] = "done"]
        /\ UNCHANGED <<op, pkg, wish, toClear, clears>>
    BY <1>8 DEF CommitPackage, Goto
  <2>2. \A p \in AllDefaults' : p # pkg[r] => p \in AllDefaults /\ p \notin clears[r]
    BY <2>1, WrittenRow DEF AllDefaults, Live, TypeOK
  <2>3. wish[r] \notin {"insertDefault", "promote"} => AllDefaults' \subseteq AllDefaults
    BY <2>1, <2>2, WrittenRow DEF AllDefaults, Live, TypeOK
  <2>4. wish[r] \in {"insertDefault", "promote"} => r \in Promoters
    BY <1>8, ChangeStates DEF Promoters, Editors, PlacesOK, TypeOK, Ops, States
  <2>5. r \in Promoters => AllDefaults' \subseteq {pkg[r]}
    BY <2>1, <2>2 DEF DefaultOK
  <2>6. \A p, q \in AllDefaults' : p = q
    BY <2>3, <2>4, <2>5 DEF DefaultOK
  <2>7. ASSUME NEW s \in Promoters, s # r, pc[s] \in {"clear", "write", "commit"}
        PROVE  r \notin Promoters
    BY <2>1, <2>7 DEF OverlapOK, Overlapped, Promoters, Running
  <2>8. QED
    BY <2>1, <2>3, <2>4, <2>6, <2>7 DEF DefaultOK, Promoters, TypeOK
<1>9. CASE UNCHANGED vars
  BY <1>9 DEF vars, DefaultOK, Promoters, AllDefaults, Live
<1>10. QED
  BY <1>1, <1>3, <1>4, <1>5, <1>6, <1>7, <1>8, <1>9 DEF Next, Step

LEMMA DefaultStart == Init => DefaultInv
<1> SUFFICES ASSUME Init
             PROVE  DefaultInv
  OBVIOUS
<1>1. PlaceInv
  BY PlaceStart
<1>2. OverlapOK
  BY DEF Init, OverlapOK, Running
<1>3. Promoters = {}
  BY DEF Init, Promoters, Editors
<1>4. AllDefaults \subseteq {Free}
  BY DEF Init, AllDefaults, Live, NoRow
<1>5. DefaultOK
  BY <1>3, <1>4 DEF DefaultOK
<1>6. QED
  BY <1>1, <1>2, <1>5 DEF DefaultInv

LEMMA DefaultInvStep == DefaultInv /\ [Next]_vars => DefaultInv'
<1> SUFFICES ASSUME DefaultInv, [Next]_vars
             PROVE  DefaultInv'
  OBVIOUS
<1>1. PlaceInv' /\ OverlapOK'
  BY PlaceStep, OverlapStep DEF DefaultInv
<1>2. CASE Overlapped(Editors)
  <2>1. "login" \notin Editors
    BY DEF Editors
  <2>2. Overlapped(Editors)'
    BY <1>2, <2>1, OverlappedStays DEF DefaultInv
  <2>3. QED
    BY <1>1, <2>2 DEF DefaultInv
<1>3. CASE ~ Overlapped(Editors)
  BY <1>1, <1>3, DefaultStep DEF DefaultInv
<1>4. QED
  BY <1>2, <1>3

LEMMA AtMostOne ==
  ASSUME NEW S, \A p, q \in S : p = q
  PROVE  Cardinality(S) <= 1
<1>1. CASE S = {}
  BY <1>1, FS_EmptySet
<1>2. CASE S # {}
  <2>1. PICK p \in S : S = {p}
    BY <1>2
  <2>2. Cardinality({p}) = 1
    BY FS_Singleton
  <2>3. QED
    BY <2>1, <2>2
<1>3. QED
  BY <1>1, <1>2

\* Unless two edits ran at once there is at most one default package, so that
\* get_default_package's scalar_one_or_none does not raise.
THEOREM DefaultIsOne == Spec => []OneDefault
<1>1. DefaultInv => OneDefault
  BY AtMostOne DEF DefaultInv, DefaultOK, OneDefault, AllDefaults, Editors
<1>2. QED
  BY <1>1, DefaultStart, DefaultInvStep, PTL DEF Spec

-----------------------------------------------------------------------------
(* One current subscription, but for changes that overlap.                 *)

\* The transactions have begun one after another.
OrderOK ==
  /\ \A r \in Started : begun[r] <= Cardinality(Started)
  /\ \A r, s \in Started : begun[r] = begun[s] => r = s

LEMMA SubscribedStarted ==
  ASSUME PlacesOK
  PROVE  Subscribed \subseteq Started
BY DEF PlacesOK, Subscribed, Started, NoSub

LEMMA OrderStep ==
  ASSUME PlaceInv, OrderOK, [Next]_vars
  PROVE  OrderOK'
<1> USE DEF PlaceInv
<1>1. IsFiniteSet(Started) /\ Cardinality(Started) \in Nat
  BY SubscriptionRequests, FS_Subset, FS_CardinalityType DEF Started
<1>2. ASSUME NEW r \in Requests, Arrival(r)
      PROVE  OrderOK'
  <2>1. PICK p \in {"profile", "current", "snapshot", "write", "count"} :
          pc[r] = "idle" /\ pc' = [pc EXCEPT ![r] = p]
    BY <1>2, ArrivalFrame
  <2>2. begun' = [begun EXCEPT ![r] = 1 + Cardinality(Started)]
    BY <1>2, ArrivalFrame
  <2>3. r \notin Started /\ Started' = Started \cup {r}
    BY <2>1 DEF Started, TypeOK
  <2>4. Cardinality(Started') = Cardinality(Started) + 1
    BY <1>1, <2>3, FS_AddElement
  <2>5. begun'[r] = 1 + Cardinality(Started) /\ \A s \in Started : begun'[s] = begun[s]
    BY <2>2, <2>3 DEF TypeOK
  <2>6. \A s \in Started : begun[s] \in Nat
    BY SubscriptionRequests, FS_CardinalityType DEF TypeOK, Started
  <2>7. \A s \in Started' : begun'[s] <= Cardinality(Started')
    BY <1>1, <2>3, <2>4, <2>5, <2>6 DEF OrderOK
  <2>8. \A s, t \in Started' : begun'[s] = begun'[t] => s = t
    BY <1>1, <2>3, <2>5, <2>6 DEF OrderOK
  <2>9. QED
    BY <2>7, <2>8 DEF OrderOK
<1>3. ASSUME NEW r \in Requests, Step(r) \/ Fail(r)
      PROVE  OrderOK'
  <2>1. UNCHANGED begun /\ pc[r] \in Running
    BY <1>3, StepFrame
  <2>2. \E p : p # "idle" /\ pc' = [pc EXCEPT ![r] = p]
    BY <1>3 DEF Step, InsertProfile, DefaultPackage, Retry, Admit, ReadCurrent, Subscribe,
                Snapshot, Clear, Count, CountRefs, WritePackage, CommitLogin, CommitChange,
                CommitPackage, Fail, Victim, Break, Goto
  <2>3. Started' = Started
    BY <2>1, <2>2 DEF Started, Running, TypeOK
  <2>4. QED
    BY <2>1, <2>3 DEF OrderOK
<1>4. CASE UNCHANGED vars
  BY <1>4 DEF vars, OrderOK, Started
<1>5. QED
  BY <1>2, <1>3, <1>4 DEF Next

SubsOK ==
  /\ \A r \in Requests : op[r] = "change" /\ pc[r] \in Running =>
       \A s \in Subscribed : begun[s] < begun[r]
  /\ \A r \in Requests : op[r] = "change" /\ pc[r] \in {"write", "commit"} =>
       seen[r].sub \in Newest /\ (seen[r].active <=> seen[r].sub \in ActiveSubs)
  /\ ActiveSubs \subseteq Newest
  /\ \A r \in Newest : subs[r].status # "cancelled"

SubsInv == ProvisionInv /\ OverlapOK /\ OrderOK /\ (Overlapped({"change"}) \/ SubsOK)

LEMMA SubsStep ==
  ASSUME ProvisionInv, OverlapOK, OrderOK, SubsOK, ~ Overlapped({"change"}), [Next]_vars
  PROVE  SubsOK'
<1> USE DEF ProvisionInv, PlaceInv, work, tables
<1>1. IsFiniteSet(Started) /\ Cardinality(Started) \in Nat
  BY SubscriptionRequests, FS_Subset, FS_CardinalityType DEF Started
<1>2. Subscribed \subseteq Started /\ \A s \in Requests : begun[s] \in Nat
  BY SubscribedStarted, SubscriptionRequests, FS_CardinalityType DEF TypeOK
<1>3. ASSUME NEW r \in Requests, Arrival(r)
      PROVE  SubsOK'
  <2>1. /\ pc[r] = "idle" /\ UNCHANGED <<subs, seen>>
        /\ begun' = [begun EXCEPT ![r] = 1 + Cardinality(Started)]
        /\ \A s \in Requests \ {r} : op'[s] = op[s] /\ pc'[s] = pc[s]
    BY <1>3, ArrivalFrame DEF TypeOK
  <2>2. op'[r] = "change" => pc'[r] \notin {"write", "commit"}
    BY <1>3, ArrivalFrame DEF TypeOK
  <2>3. Subscribed' = Subscribed /\ ActiveSubs' = ActiveSubs /\ r \notin Subscribed
    BY <1>2, <2>1 DEF Subscribed, ActiveSubs, Started
  <2>4. /\ begun'[r] = 1 + Cardinality(Started)
        /\ \A s \in Requests \ {r} : begun'[s] = begun[s]
    BY <2>1 DEF TypeOK
  <2>5. Newest' = Newest
    BY <2>3, <2>4 DEF Newest, Subscribed
  <2>6. \A s \in Subscribed : begun'[s] < begun'[r]
    BY <1>1, <1>2, <2>3, <2>4 DEF OrderOK, Started
  <2>7. QED
    BY <2>1, <2>2, <2>3, <2>4, <2>5, <2>6 DEF SubsOK, Subscribed
<1>4. ASSUME NEW r \in Requests, Step(r) \/ Fail(r), UNCHANGED subs, ~ ReadCurrent(r)
      PROVE  SubsOK'
  <2>1. UNCHANGED <<op, begun>> /\ pc[r] \in Running /\ \E p : pc' = [pc EXCEPT ![r] = p]
    BY <1>4, StepFrame
  <2>2. UNCHANGED seen
    BY <1>4 DEF Step, InsertProfile, DefaultPackage, Retry, Admit, Subscribe, Snapshot, Clear,
                Count, CountRefs, WritePackage, CommitLogin, CommitChange, CommitPackage,
                Fail, Victim, Break
  <2>3. op[r] = "change" /\ pc'[r] \in {"write", "commit"} => pc[r] \in {"write", "commit"}
    BY <1>4 DEF Step, InsertProfile, DefaultPackage, Retry, Admit, Subscribe, Snapshot, Clear,
                Count, CountRefs, WritePackage, CommitLogin, CommitChange, CommitPackage,
                Fail, Victim, Break, Goto, PlacesOK, TypeOK
  <2>4. Subscribed' = Subscribed /\ ActiveSubs' = ActiveSubs /\ Newest' = Newest
    BY <1>4, <2>1 DEF Subscribed, ActiveSubs, Newest
  <2>5. QED
    BY <1>4, <2>1, <2>2, <2>3, <2>4 DEF SubsOK, TypeOK
<1>5. ASSUME NEW r \in Requests, ReadCurrent(r)
      PROVE  SubsOK'
  <2>1. PICK s \in Newest :
          seen' = [seen EXCEPT ![r] = [sub |-> s, active |-> subs[s].status = "active"]]
    BY <1>5 DEF ReadCurrent
  <2>2. /\ pc[r] = "current" /\ pc' = [pc EXCEPT ![r] = "write"]
        /\ UNCHANGED <<op, begun, subs>>
    BY <1>5 DEF ReadCurrent, Goto
  <2>3. Subscribed' = Subscribed /\ ActiveSubs' = ActiveSubs /\ Newest' = Newest
    BY <2>2 DEF Subscribed, ActiveSubs, Newest
  <2>4. seen'[r].sub = s /\ (seen'[r].active <=> s \in ActiveSubs)
    BY <2>1 DEF TypeOK, ActiveSubs, Newest, Subscribed
  <2>5. \A t \in Requests \ {r} : seen'[t] = seen[t] /\ pc'[t] = pc[t]
    BY <2>1, <2>2 DEF TypeOK
  <2>6. QED
    BY <2>1, <2>2, <2>3, <2>4, <2>5 DEF SubsOK, Running
<1>6. ASSUME NEW r \in Requests, CommitLogin(r)
      PROVE  SubsOK'
  <2>1. /\ Provisioning(r) /\ UNCHANGED <<op, begun>>
        /\ subs' = [subs EXCEPT ![r] = [package |-> pkg[r], status |-> "active"]]
    BY <1>6 DEF CommitLogin, Provisioning
  <2>2. profile = None /\ \A s \in Requests : op[s] # "change"
    BY <2>1 DEF ProvisionOK
  <2>3. Subscribed = {}
    BY <2>2, SubscriptionRequests
       DEF ProvisionOK, Provisioned, PlacesOK, TypeOK, Ops, Edits, Subscribed, NoSub
  <2>4. Subscribed' = {r} /\ subs'[r].status = "active"
    BY <2>1, <2>3 DEF Subscribed, TypeOK
  <2>5. Newest' = {r}
    BY <1>2, <2>1, <2>4 DEF Newest
  <2>6. ActiveSubs' \subseteq {r}
    BY <2>4 DEF ActiveSubs, Subscribed
  <2>7. QED
    BY <2>1, <2>2, <2>4, <2>5, <2>6 DEF SubsOK
<1>7. ASSUME NEW r \in Requests, CommitChange(r)
      PROVE  SubsOK'
  <2>1. /\ op[r] = "change" /\ pc[r] = "commit" /\ pc' = [pc EXCEPT ![r] = "done"]
        /\ UNCHANGED <<op, begun>>
        /\ subs' = [s \in Requests |->
                      IF s = r THEN [package |-> pkg[r], status |-> wish[r]]
                      ELSE IF seen[r].active /\ s = seen[r].sub
                           THEN [subs[s] EXCEPT !.status = "cancelled"]
                           ELSE subs[s]]
    BY <1>7 DEF CommitChange, Goto
  <2>2. \A s \in Requests : op[s] = "change" /\ pc'[s] \in Running => FALSE
    BY <2>1 DEF OverlapOK, Overlapped, Running, TypeOK
  <2>3. /\ Subscribed' = Subscribed \cup {r}
        /\ \A s \in Requests \ {r} : subs'[s].status \in {subs[s].status, "cancelled"}
        /\ subs'[r].status \in ChangeTo
    BY <1>7, <2>1, ChangedSubs DEF PlacesOK
  <2>4. \A s \in Subscribed : begun[s] < begun[r]
    BY <2>1 DEF SubsOK, Running
  <2>5. Newest' = {r}
    <3>1. Newest' = {t \in Subscribed \cup {r} :
                       \A s \in Subscribed \cup {r} : begun[s] <= begun[t]}
      BY <2>1, <2>3 DEF Newest
    <3>2. \A t \in Subscribed : begun[t] \in Nat /\ begun[r] \in Nat /\ begun[t] < begun[r]
      BY <1>2, <2>4 DEF Subscribed
    <3>3. \A t \in Subscribed : ~ (begun[r] <= begun[t])
      BY <3>2
    <3>4. begun[r] <= begun[r] /\ \A t \in Subscribed : begun[t] <= begun[r]
      BY <1>2, <3>2
    <3>5. QED
      BY <3>1, <3>3, <3>4
  <2>6. ASSUME NEW s \in ActiveSubs', s # r
        PROVE  FALSE
    <3>1. s \in Requests /\ subs'[s].status = "active"
      BY DEF ActiveSubs
    <3>2. s \in ActiveSubs
      BY <2>3, <2>6, <3>1 DEF ActiveSubs
    <3>3. s \in Newest /\ seen[r].sub \in Newest /\ Newest \subseteq Started
      BY <1>2, <2>1, <3>2 DEF SubsOK, Newest
    <3>4. s = seen[r].sub
      <4>1. /\ s \in Started /\ seen[r].sub \in Started
            /\ begun[s] <= begun[seen[r].sub] /\ begun[seen[r].sub] <= begun[s]
        BY <3>3 DEF Newest
      <4>2. begun[s] = begun[seen[r].sub]
        BY <1>2, <4>1 DEF Started
      <4>3. QED
        BY <4>1, <4>2 DEF OrderOK
    <3>5. seen[r].active
      BY <2>1, <3>2, <3>4 DEF SubsOK
    <3>6. subs[s] \in [package : Packages, status : States]
      BY <3>1, <3>2 DEF ActiveSubs, TypeOK, Sub, NoSub
    <3>7. subs'[s].status = "cancelled"
      BY <2>1, <2>6, <3>1, <3>4, <3>5, <3>6
    <3>8. QED
      BY <3>1, <3>7
  <2>7. subs'[r].status # "cancelled"
    BY <2>3, ChangeStates
  <2>8. QED
    BY <2>1, <2>2, <2>5, <2>6, <2>7 DEF SubsOK, Running
<1>8. CASE UNCHANGED vars
  BY <1>8 DEF vars, SubsOK, Newest, ActiveSubs, Subscribed
<1>9. ASSUME NEW r \in Requests, Step(r) \/ Fail(r),
             ~ ReadCurrent(r), ~ CommitLogin(r), ~ CommitChange(r)
      PROVE  SubsOK'
  <2>1. UNCHANGED subs
    BY <1>9 DEF Step, InsertProfile, DefaultPackage, Retry, Admit, Subscribe, Snapshot, Clear,
                Count, CountRefs, WritePackage, CommitPackage, Fail, Victim, Break
  <2>2. QED
    BY <1>4, <1>9, <2>1
<1>10. QED
  BY <1>3, <1>5, <1>6, <1>7, <1>8, <1>9 DEF Next

LEMMA SubsStart == Init => SubsInv
<1> SUFFICES ASSUME Init
             PROVE  SubsInv
  OBVIOUS
<1>1. ProvisionInv
  BY ProvisionStart
<1>2. Started = {} /\ Subscribed = {} /\ OverlapOK
  BY DEF Init, Started, Subscribed, NoSub, OverlapOK, Running
<1>3. OrderOK
  BY <1>2 DEF OrderOK
<1>4. ActiveSubs = {} /\ Newest = {} /\ \A r \in Requests : op[r] # "change"
  BY <1>2 DEF Init, ActiveSubs, NoSub, Newest
<1>5. SubsOK
  BY <1>2, <1>4 DEF SubsOK
<1>6. QED
  BY <1>1, <1>2, <1>3, <1>5 DEF SubsInv

LEMMA SubsInvStep == SubsInv /\ [Next]_vars => SubsInv'
<1> SUFFICES ASSUME SubsInv, [Next]_vars
             PROVE  SubsInv'
  OBVIOUS
<1>1. ProvisionInv' /\ OverlapOK' /\ OrderOK'
  BY ProvisionInvStep, OverlapStep, OrderStep DEF SubsInv, ProvisionInv
<1>2. CASE Overlapped({"change"})
  <2>1. Overlapped({"change"})'
    BY <1>2, OverlappedStays DEF SubsInv, ProvisionInv
  <2>2. QED
    BY <1>1, <2>1 DEF SubsInv
<1>3. CASE ~ Overlapped({"change"})
  BY <1>1, <1>3, SubsStep DEF SubsInv
<1>4. QED
  BY <1>2, <1>3

\* Unless two changes ran at once, only the current subscription is active, and
\* it is not one that a change has ended: the newest transaction's subscription
\* is the one change_package ends.
THEOREM CurrentIsOne == Spec => []OneSubscription
<1>1. SubsInv => OneSubscription
  BY DEF SubsInv, SubsOK, OneSubscription
<1>2. QED
  BY <1>1, SubsStart, SubsInvStep, PTL DEF Spec

-----------------------------------------------------------------------------
(* Who waits in a cycle.                                                   *)

Promotes(r) == wish[r] \in {"insertDefault", "promote"}

\* Only an edit that makes a package the default runs the UPDATE that locks rows
\* before the one it writes.
LocksOK ==
  \A r \in Requests :
    /\ pc[r] \in {"snapshot", "clear"} => Promotes(r)
    /\ pc[r] = "write" /\ clears[r] # {} => Promotes(r)

LocksInv == PlaceInv /\ OverlapOK /\ LocksOK

\* The transactions of a cycle wait themselves, so they hold no row but those
\* such an UPDATE has locked.
LEMMA CyclePromotes ==
  ASSUME PlaceInv, LocksOK, NEW S \in SUBSET Requests,
         \A s \in S : Blockers(s) \cap S # {},
         NEW t \in S, NEW r \in S, r \in Blockers(t)
  PROVE  Promotes(r)
<1> USE DEF PlaceInv
<1>1. \A s \in S : pc[s] \in {"profile", "clear", "write"}
  BY DEF Blockers
<1>2. \A s \in S : ~ Promotes(s) => RowsHeld(s) = {}
  BY <1>1 DEF RowsHeld, LocksOK
<1>3. \A s \in S : RowsShared(s) = {} /\ \A q \in S : ~ SameCancelled(q, s)
  BY <1>1 DEF RowsShared, SameCancelled
<1>4. SUFFICES ASSUME ~ Promotes(r)
               PROVE  FALSE
  OBVIOUS
<1>5. RowsHeld(r) = {}
  BY <1>2, <1>4
<1>6. Provisioning(r)
  BY <1>1, <1>3, <1>5 DEF Blockers
<1>7. pc[r] = "write" /\ op[r] = "login"
  BY <1>1, <1>6 DEF Provisioning
<1>8. PICK s \in Blockers(r) \cap S : TRUE
  OBVIOUS
<1>9. wish[s] = "drop" /\ pkg[r] \in RowsHeld(s)
  BY <1>7, <1>8 DEF Blockers
<1>10. QED
  BY <1>2, <1>8, <1>9 DEF Promotes

LEMMA LocksStep ==
  ASSUME PlaceInv, LocksOK, [Next]_vars
  PROVE  LocksOK'
<1> USE DEF PlaceInv, work, tables
<1>1. ASSUME NEW r \in Requests, Arrival(r)
      PROVE  LocksOK'
  <2>1. /\ pc[r] = "idle" /\ UNCHANGED clears /\ \E p : pc' = [pc EXCEPT ![r] = p]
        /\ \A s \in Requests \ {r} : wish'[s] = wish[s]
    BY <1>1, ArrivalFrame
  <2>2. pc'[r] \in {"snapshot", "clear"} => Promotes(r)'
    <3>1. CASE ArriveLogin(r) \/ ArriveChange(r) \/ ArriveDelete(r)
      BY <3>1 DEF ArriveLogin, ArriveChange, ArriveDelete, Arrive, Goto, TypeOK
    <3>2. CASE ArriveCreate(r)
      BY <3>2 DEF ArriveCreate, Arrive, Wants, Goto, Promotes, TypeOK
    <3>3. CASE ArriveUpdate(r)
      BY <3>3 DEF ArriveUpdate, Arrive, Wants, Goto, Promotes, TypeOK
    <3>4. QED
      BY <1>1, <3>1, <3>2, <3>3 DEF Arrival
  <2>3. clears'[r] = {}
    BY <2>1 DEF PlacesOK
  <2>4. QED
    BY <2>1, <2>2, <2>3 DEF LocksOK, Promotes, TypeOK
<1>2. ASSUME NEW r \in Requests,
             \/ InsertProfile(r) \/ DefaultPackage(r) \/ Retry(r) \/ Admit(r)
             \/ ReadCurrent(r) \/ Subscribe(r) \/ Count(r) \/ CountRefs(r) \/ CommitLogin(r)
             \/ CommitChange(r)
      PROVE  LocksOK'
  <2>1. UNCHANGED clears /\ \A s \in Requests \ {r} : wish'[s] = wish[s]
    BY <1>2 DEF InsertProfile, DefaultPackage, Retry, Admit, ReadCurrent, Subscribe, Count,
                CountRefs, CommitLogin, CommitChange, TypeOK
  <2>2. clears[r] = {}
    BY <1>2 DEF InsertProfile, DefaultPackage, Retry, Admit, ReadCurrent, Subscribe, Count,
                CountRefs, CommitLogin, CommitChange, PlacesOK
  <2>3. \E p : pc' = [pc EXCEPT ![r] = p] /\ p \notin {"snapshot", "clear"}
    BY <1>2 DEF InsertProfile, DefaultPackage, Retry, Admit, ReadCurrent, Subscribe, Count,
                CountRefs, CommitLogin, CommitChange, Goto
  <2>4. QED
    BY <2>1, <2>2, <2>3 DEF LocksOK, Promotes, TypeOK
<1>3. ASSUME NEW r \in Requests,
             WritePackage(r) \/ CommitPackage(r) \/ Fail(r) \/ Victim(r)
      PROVE  LocksOK'
  <2>1. UNCHANGED clears /\ \A s \in Requests \ {r} : wish'[s] = wish[s]
    BY <1>3 DEF WritePackage, CommitPackage, Fail, Victim, Break, TypeOK
  <2>2. \E p : pc' = [pc EXCEPT ![r] = p] /\ p \in {"commit", "done", "error"}
    BY <1>3 DEF WritePackage, CommitPackage, Fail, Victim, Break, Goto
  <2>3. QED
    BY <2>1, <2>2 DEF LocksOK, Promotes, TypeOK
<1>4. ASSUME NEW r \in Requests, Snapshot(r) \/ Clear(r)
      PROVE  LocksOK'
  <2>1. UNCHANGED wish /\ pc[r] \in {"snapshot", "clear"}
    BY <1>4 DEF Snapshot, Clear
  <2>2. \A s \in Requests \ {r} : clears'[s] = clears[s] /\ pc'[s] = pc[s]
    BY <1>4 DEF Snapshot, Clear, Goto, TypeOK
  <2>3. QED
    BY <2>1, <2>2 DEF LocksOK, Promotes
<1>5. CASE UNCHANGED vars
  BY <1>5 DEF vars, LocksOK, Promotes
<1>6. QED
  BY <1>1, <1>2, <1>3, <1>4, <1>5 DEF Next, Step

LEMMA LocksStart == Init => LocksInv
BY PlaceStart DEF Init, LocksInv, OverlapOK, LocksOK, Running

LEMMA LocksInvStep == LocksInv /\ [Next]_vars => LocksInv'
BY PlaceStep, OverlapStep, LocksStep DEF LocksInv

\* A transaction that PostgreSQL aborts to end a cycle makes a package the
\* default, and so does another that ran at the same time.
THEOREM VictimsPromote == Spec => VictimsClear
<1> DEFINE Clears ==
      \A r \in Requests :
        pc[r] \in Running /\ Deadlocked(r) /\ pc'[r] = "error" =>
          /\ wish[r] \in {"insertDefault", "promote"}
          /\ \E s \in Requests \ {r} :
               {r, s} \in overlaps /\ wish[s] \in {"insertDefault", "promote"}
<1>1. LocksInv /\ [Next]_vars => [Clears]_vars
  <2>1. SUFFICES ASSUME LocksInv, NEW r \in Requests, pc[r] \in Running, Deadlocked(r)
                 PROVE  /\ Promotes(r)
                        /\ \E s \in Requests \ {r} : {r, s} \in overlaps /\ Promotes(s)
    BY DEF Promotes
  <2>2. PICK S \in SUBSET Requests :
          /\ r \in S
          /\ \A s \in S : Blockers(s) \cap S # {} /\ \E t \in S : s \in Blockers(t)
    BY <2>1 DEF Deadlocked
  <2>3. \A s \in S : Promotes(s)
    BY <2>1, <2>2, CyclePromotes DEF LocksInv
  <2>4. PICK s \in Blockers(r) \cap S : TRUE
    BY <2>2
  <2>5. s \in Others(r)
    BY <2>4 DEF Blockers
  <2>6. {r, s} \in overlaps
    BY <2>1, <2>5 DEF LocksInv, OverlapOK, Others
  <2>7. QED
    BY <2>2, <2>3, <2>4, <2>5, <2>6 DEF Others
<1>2. QED
  BY <1>1, LocksStart, LocksInvStep, PTL DEF Spec, VictimsClear

-----------------------------------------------------------------------------
(* The refinement of SubscriptionBook: what a request has read or locked    *)
(* still holds at its commit, but for what it met.                          *)

\* r has met one of these kinds.
Meets(r, kinds) == \E s \in Requests \ {r} : op[s] \in kinds /\ {r, s} \in overlaps

\* No row is held twice, and the row an edit is about to commit is as it needs it.
HoldsOK ==
  /\ \A r, s \in Requests : r # s => RowsHeld(r) \cap RowsHeld(s) = {}
  /\ \A r \in Requests : pc[r] = "snapshot" => clears[r] = {}
  /\ \A r \in Requests : pc[r] = "commit" /\ op[r] \in Edits =>
       /\ wish[r] \in {"insert", "insertDefault"} => packages[pkg[r]].state = "none"
       /\ wish[r] \in {"promote", "demote", "activate", "deactivate"} => pkg[r] \in Live

\* A row is as the request has loaded it, unless that met another edit.
LoadedOK ==
  \A r \in Requests : op[r] \in {"update", "delete"} /\ pc[r] \in Running =>
    /\ was[r].state = "live"
    /\ packages[pkg[r]] = was[r] \/ Meets(r, Edits)
    /\ pkg[r] \in Live \/ (packages[pkg[r]].state = "deleted" /\ Meets(r, {"delete"}))

\* An edit that makes a package the default has cleared every other package
\* there is, but those whose creation it met.
ClearsOK ==
  \A r \in Requests :
    /\ pc[r] \in {"clear", "write", "commit"} /\ (Promotes(r) \/ clears[r] # {}) =>
         Live \ {pkg[r]} \subseteq toClear[r] \cup clears[r] \/ Meets(r, {"create"})
    /\ pc[r] \in {"write", "commit"} => toClear[r] = {}
    /\ pc[r] = "commit" /\ clears[r] # {} =>
         Promotes(r) \/ (op[r] = "update" /\ wish[r] = "nothing" /\ was[r].default)

\* A first login subscribes to what is the default package.
ChosenOK ==
  \A r \in Requests : op[r] = "login" /\ pc[r] \in {"write", "commit"} =>
    pkg[r] \in Defaults \/ (pkg[r] = Free /\ Defaults = {}) \/ Meets(r, Edits)

\* A deletion deactivates only a package that was subscribed to.
RefsOK ==
  \A r \in Requests : op[r] = "delete" =>
    /\ pc[r] = "write" => wish[r] \in {"drop", "deactivate"}
    /\ pc[r] \in {"write", "commit"} /\ wish[r] # "drop" =>
         \E s \in Subscribed : subs[s].package = pkg[r]
    /\ pc[r] = "commit" /\ wish[r] = "nothing" => ~ was[r].active

\* A change began after every subscription there is, and what it has read is the
\* current one, unless it met another change.
ChangeOK ==
  \A r \in Requests : op[r] = "change" /\ pc[r] \in Running =>
    /\ \A s \in Subscribed : begun[s] < begun[r] \/ (op[s] = "change" /\ {r, s} \in overlaps)
    /\ pc[r] \in {"write", "commit"} =>
         \/ seen[r].sub \in Newest /\ (seen[r].active <=> seen[r].sub \in ActiveSubs)
         \/ Meets(r, {"change"})

BookOK == HoldsOK /\ LoadedOK /\ ClearsOK /\ ChosenOK /\ RefsOK /\ ChangeOK
BookInv == ProvisionInv /\ KeptOK /\ OverlapOK /\ DeleteOK /\ OrderOK /\ LocksOK /\ BookOK

LEMMA MeetsStays ==
  ASSUME PlaceInv, OverlapOK, [Next]_vars, NEW r \in Requests, NEW kinds, "login" \notin kinds,
         Meets(r, kinds)
  PROVE  Meets(r, kinds)'
BY OverlapStep DEF Meets

\* Who runs while s commits has met it.
LEMMA RunnersMeet ==
  ASSUME OverlapOK, NEW r \in Requests, NEW s \in Requests, r # s,
         pc[r] \in Running, pc[s] \in Running, NEW kinds, op[s] \in kinds
  PROVE  Meets(r, kinds)
BY DEF Meets, OverlapOK

-----------------------------------------------------------------------------
(* Rows that are held.                                                     *)

LEMMA HoldersRun ==
  ASSUME NEW r \in Requests, NEW s \in Requests \ {r}, s \notin Others(r)
  PROVE  RowsHeld(s) = {}
BY DEF Others, RowsHeld, Running

\* Steps that lock and commit nothing.
LEMMA QuietHolds ==
  ASSUME HoldsOK, UNCHANGED packages,
         \A s \in Requests : RowsHeld(s)' \subseteq RowsHeld(s),
         \A s \in Requests : pc'[s] = "commit" /\ op'[s] \in Edits =>
           /\ pc[s] = "commit" /\ op[s] = op'[s]
           /\ wish'[s] = wish[s] /\ pkg'[s] = pkg[s],
         \A s \in Requests : pc'[s] = "snapshot" => clears'[s] = {}
  PROVE  HoldsOK'
<1>1. \A r, s \in Requests : r # s => (RowsHeld(r) \cap RowsHeld(s) = {})'
  BY DEF HoldsOK
<1>2. QED
  BY <1>1 DEF HoldsOK, Live

LEMMA HoldsStep ==
  ASSUME PlaceInv, HoldsOK, [Next]_vars
  PROVE  HoldsOK'
<1> USE DEF PlaceInv, work, tables
<1>1. ASSUME NEW r \in Requests, Arrival(r)
      PROVE  HoldsOK'
  <2>1. /\ pc[r] = "idle" /\ UNCHANGED <<packages, clears>>
        /\ pc'[r] \in {"profile", "current", "snapshot", "write", "count"}
        /\ \A s \in Requests \ {r} :
             op'[s] = op[s] /\ pc'[s] = pc[s] /\ pkg'[s] = pkg[s] /\ wish'[s] = wish[s]
    BY <1>1, ArrivalFrame DEF TypeOK
  <2>2. clears[r] = {}
    BY <2>1 DEF PlacesOK
  <2>3. \A s \in Requests : RowsHeld(s)' \subseteq RowsHeld(s)
    BY <2>1, <2>2 DEF RowsHeld
  <2>4. QED
    BY <2>1, <2>2, <2>3, QuietHolds DEF HoldsOK
<1>2. ASSUME NEW r \in Requests,
             \/ InsertProfile(r) \/ DefaultPackage(r) \/ Retry(r) \/ Admit(r) \/ ReadCurrent(r)
             \/ Subscribe(r) \/ Snapshot(r) \/ Count(r) \/ CountRefs(r) \/ CommitLogin(r)
             \/ CommitChange(r) \/ Fail(r) \/ Victim(r)
      PROVE  HoldsOK'
  <2>1. /\ UNCHANGED <<op, packages, clears>>
        /\ \A s \in Requests \ {r} : pkg'[s] = pkg[s] /\ wish'[s] = wish[s]
    BY <1>2 DEF InsertProfile, DefaultPackage, Retry, Admit, ReadCurrent, Subscribe, Snapshot,
                Count, CountRefs, CommitLogin, CommitChange, Fail, Victim, Break, TypeOK
  <2>2. \E p : pc' = [pc EXCEPT ![r] = p] /\ p # "snapshot"
    BY <1>2 DEF InsertProfile, DefaultPackage, Retry, Admit, ReadCurrent, Subscribe, Snapshot,
                Count, CountRefs, CommitLogin, CommitChange, Fail, Victim, Break, Goto
  <2>3. /\ pc'[r] = "commit" => op[r] \notin Edits
        /\ pc'[r] \in {"clear", "write", "commit"} /\ pc[r] \notin {"clear", "write", "commit"} =>
             op[r] \notin {"create", "update"} \/ pc[r] = "snapshot"
    BY <1>2 DEF InsertProfile, DefaultPackage, Retry, Admit, ReadCurrent, Subscribe, Snapshot,
                Count, CountRefs, CommitLogin, CommitChange, Fail, Victim, Break, Goto, Edits,
                PlacesOK, TypeOK
  <2>4. /\ pc'[r] = "commit" => op[r] \notin Edits
        /\ pc'[r] \in {"clear", "write", "commit"} =>
             pc[r] \in {"clear", "write", "commit"} \/ clears[r] = {}
    BY <2>3 DEF HoldsOK, PlacesOK
  <2>5. \A s \in Requests : RowsHeld(s)' \subseteq RowsHeld(s)
    BY <2>1, <2>2, <2>4 DEF RowsHeld, TypeOK, Edits
  <2>6. QED
    BY <2>1, <2>2, <2>4, <2>5, QuietHolds DEF HoldsOK, TypeOK
<1>3. ASSUME NEW r \in Requests, Clear(r)
      PROVE  HoldsOK'
  <2>1. PICK p \in toClear[r] \ UNION {RowsHeld(s) : s \in Others(r)} :
          /\ clears' = [clears EXCEPT ![r] = @ \cup {p}]
          /\ Goto(r, IF toClear[r] = {p} THEN "write" ELSE "clear")
    BY <1>3 DEF Clear
  <2>2. UNCHANGED <<op, pkg, wish, packages>> /\ pc[r] = "clear" /\ pc'[r] \in {"write", "clear"}
    BY <1>3, <2>1 DEF Clear, Goto, TypeOK
  <2>3. RowsHeld(r)' \subseteq RowsHeld(r) \cup {p}
    BY <2>1, <2>2 DEF RowsHeld, TypeOK
  <2>4. \A s \in Requests \ {r} : RowsHeld(s)' = RowsHeld(s) /\ pc'[s] = pc[s] /\ clears'[s] = clears[s]
    BY <2>1, <2>2 DEF RowsHeld, Goto, TypeOK
  <2>5. \A s \in Requests \ {r} : p \notin RowsHeld(s)
    BY <2>1, HoldersRun
  <2>6. \A a, b \in Requests : a # b => (RowsHeld(a) \cap RowsHeld(b) = {})'
    BY <2>3, <2>4, <2>5 DEF HoldsOK
  <2>7. QED
    BY <2>2, <2>4, <2>6 DEF HoldsOK, Live
<1>4. ASSUME NEW r \in Requests, WritePackage(r)
      PROVE  HoldsOK'
  <2>1. /\ UNCHANGED <<op, pkg, packages, clears>> /\ pc[r] = "write" /\ op[r] \in Edits
        /\ wish' = [wish EXCEPT ![r] = Effective(r)]
        /\ \/ pc' = [pc EXCEPT ![r] = "commit"] /\ ~ FlushRejected(r)
           \/ pc' = [pc EXCEPT ![r] = "error"]
        /\ \A s \in Others(r) : Effective(r) # "nothing" => pkg[r] \notin RowsHeld(s)
    <3>1. /\ UNCHANGED <<op, pkg, packages, clears>> /\ pc[r] = "write" /\ op[r] \in Edits
          /\ wish' = [wish EXCEPT ![r] = Effective(r)] /\ Blockers(r) = {}
          /\ Goto(r, IF FlushRejected(r) THEN "error" ELSE "commit")
      BY <1>4 DEF WritePackage, Edits
    <3>2. \/ pc' = [pc EXCEPT ![r] = "commit"] /\ ~ FlushRejected(r)
          \/ pc' = [pc EXCEPT ![r] = "error"]
      BY <3>1 DEF Goto
    <3>3. \A s \in Others(r) : Effective(r) # "nothing" => pkg[r] \notin RowsHeld(s)
      BY <3>1 DEF Blockers, Edits
    <3>4. QED
      BY <3>1, <3>2, <3>3
  <2>2. \A s \in Requests \ {r} :
          RowsHeld(s)' = RowsHeld(s) /\ pc'[s] = pc[s] /\ wish'[s] = wish[s]
    BY <2>1 DEF RowsHeld, TypeOK
  <2>3. RowsHeld(r)' \subseteq RowsHeld(r) \cup
                              (IF Effective(r) = "nothing" THEN {} ELSE {pkg[r]})
    BY <2>1 DEF RowsHeld, TypeOK
  <2>4. \A s \in Requests \ {r} : Effective(r) # "nothing" => pkg[r] \notin RowsHeld(s)
    BY <2>1, HoldersRun
  <2>5. \A a, b \in Requests : a # b => (RowsHeld(a) \cap RowsHeld(b) = {})'
    BY <2>2, <2>3, <2>4 DEF HoldsOK
  <2>6. pc'[r] = "commit" =>
          /\ wish'[r] \in {"insert", "insertDefault"} => packages[pkg[r]].state = "none"
          /\ wish'[r] \in {"promote", "demote", "activate", "deactivate"} => pkg[r] \in Live
    <3>1. CASE pc' = [pc EXCEPT ![r] = "commit"] /\ ~ FlushRejected(r)
      BY <2>1, <3>1 DEF FlushRejected, TypeOK
    <3>2. CASE pc' = [pc EXCEPT ![r] = "error"]
      BY <3>2 DEF TypeOK
    <3>3. QED
      BY <2>1, <3>1, <3>2
  <2>7. pc'[r] # "snapshot"
    BY <2>1 DEF TypeOK
  <2>8. QED
    BY <2>1, <2>2, <2>5, <2>6, <2>7 DEF HoldsOK, Live
<1>5. ASSUME NEW r \in Requests, CommitPackage(r)
      PROVE  HoldsOK'
  <2>1. /\ packages' = [p \in Packages |->
                          IF p = pkg[r] THEN Written(packages[p], wish[r])
                          ELSE IF p \in clears[r] THEN Written(packages[p], "demote")
                          ELSE packages[p]]
        /\ pc[r] = "commit" /\ pc' = [pc EXCEPT ![r] = "done"] /\ op[r] \in Edits
        /\ UNCHANGED <<op, pkg, wish, clears>>
    BY <1>5 DEF CommitPackage, Goto, Edits
  <2>2. \A s \in Requests : RowsHeld(s)' \subseteq RowsHeld(s) /\ pc'[s] \in {pc[s], "done"}
    BY <2>1 DEF RowsHeld, TypeOK
  <2>3. ASSUME NEW s \in Requests, s # r, pc[s] = "commit", op[s] \in Edits, wish[s] # "nothing"
        PROVE  packages'[pkg[s]] = packages[pkg[s]]
    <3>1. pkg[s] \in RowsHeld(s) /\ pkg[s] \notin RowsHeld(r) /\ pkg[s] \in Packages
      BY <2>3 DEF RowsHeld, HoldsOK, PlacesOK, Edits
    <3>2. pkg[s] \notin clears[r] /\ (pkg[s] = pkg[r] => wish[r] = "nothing")
      BY <2>1, <3>1 DEF RowsHeld, Edits
    <3>3. \A row : Written(row, "nothing") = row
      BY DEF Written
    <3>4. QED
      BY <2>1, <3>1, <3>2, <3>3
  <2>4. \A a, b \in Requests : a # b => (RowsHeld(a) \cap RowsHeld(b) = {})'
    BY <2>2 DEF HoldsOK
  <2>5. ASSUME NEW s \in Requests, pc'[s] = "commit", op'[s] \in Edits
        PROVE  /\ wish'[s] \in {"insert", "insertDefault"} => packages'[pkg'[s]].state = "none"
               /\ wish'[s] \in {"promote", "demote", "activate", "deactivate"} => pkg'[s] \in Live'
    <3>1. s # r /\ pc[s] = "commit" /\ op[s] \in Edits
      BY <2>1, <2>5 DEF TypeOK
    <3>2. wish[s] # "nothing" => packages'[pkg[s]] = packages[pkg[s]]
      BY <2>3, <3>1
    <3>3. QED
      BY <2>1, <3>1, <3>2 DEF HoldsOK, Live
  <2>6. QED
    BY <2>1, <2>2, <2>4, <2>5 DEF HoldsOK
<1>6. CASE UNCHANGED vars
  BY <1>6, QuietHolds DEF vars, RowsHeld, HoldsOK
<1>7. QED
  BY <1>1, <1>2, <1>3, <1>4, <1>5, <1>6 DEF Next, Step

-----------------------------------------------------------------------------
(* Rows as they were loaded.                                               *)

LEMMA CommitFrame ==
  ASSUME PlaceInv, NEW r \in Requests, CommitPackage(r)
  PROVE  /\ packages' = [p \in Packages |->
                           IF p = pkg[r] THEN Written(packages[p], wish[r])
                           ELSE IF p \in clears[r] THEN Written(packages[p], "demote")
                           ELSE packages[p]]
         /\ pc[r] = "commit" /\ pc' = [pc EXCEPT ![r] = "done"] /\ op[r] \in Edits
         /\ UNCHANGED <<op, begun, work, subs, profile, overlaps>>
         /\ \A p \in Packages :
              /\ packages'[p].state \in {packages[p].state, "live", "deleted"}
              /\ p \in Live /\ p \notin Live' =>
                   packages'[p].state = "deleted" /\ op[r] = "delete"
              /\ p \in Live' /\ p \notin Live => p = pkg[r] /\ wish[r] \in {"insert", "insertDefault"}
<1> USE DEF PlaceInv
<1>1. /\ packages' = [p \in Packages |->
                        IF p = pkg[r] THEN Written(packages[p], wish[r])
                        ELSE IF p \in clears[r] THEN Written(packages[p], "demote")
                        ELSE packages[p]]
      /\ pc[r] = "commit" /\ pc' = [pc EXCEPT ![r] = "done"] /\ op[r] \in Edits
      /\ UNCHANGED <<op, begun, work, subs, profile, overlaps>>
  BY DEF CommitPackage, Goto, Edits
<1>2. \A w : \A row \in Row :
        /\ Written(row, w).state \in {row.state, "live", "deleted"}
        /\ row.state = "live" /\ Written(row, w).state # "live" =>
             Written(row, w).state = "deleted" /\ w = "drop"
        /\ row.state # "live" /\ Written(row, w).state = "live" => w \in {"insert", "insertDefault"}
        /\ Written(row, "demote").state = row.state
  BY DEF Written, Row, RowStates
<1>3. wish[r] = "drop" => op[r] = "delete"
  BY <1>1 DEF PlacesOK, Edits
<1>4. \A p \in Packages : packages[p] \in Row
  BY DEF TypeOK
<1>5. ASSUME NEW p \in Packages
      PROVE  /\ packages'[p].state \in {packages[p].state, "live", "deleted"}
             /\ packages[p].state = "live" /\ packages'[p].state # "live" =>
                  packages'[p].state = "deleted" /\ op[r] = "delete"
             /\ packages[p].state # "live" /\ packages'[p].state = "live" =>
                  p = pkg[r] /\ wish[r] \in {"insert", "insertDefault"}
  <2>1. CASE p = pkg[r]
    BY <1>1, <1>2, <1>3, <1>4, <2>1
  <2>2. CASE p # pkg[r] /\ p \in clears[r]
    BY <1>1, <1>2, <1>4, <2>2
  <2>3. CASE p # pkg[r] /\ p \notin clears[r]
    BY <1>1, <2>3
  <2>4. QED
    BY <2>1, <2>2, <2>3
<1>6. QED
  BY <1>1, <1>5 DEF Live

LEMMA LoadedStep ==
  ASSUME PlaceInv, OverlapOK, LoadedOK, [Next]_vars
  PROVE  LoadedOK'
<1> USE DEF PlaceInv, work, tables
<1>1. ASSUME NEW s \in Requests, NEW kinds, "login" \notin kinds, Meets(s, kinds)
      PROVE  Meets(s, kinds)'
  BY <1>1, MeetsStays
<1>2. "login" \notin Edits /\ "login" \notin {"delete"} /\ "delete" \in Edits
  BY DEF Edits
<1>3. ASSUME NEW r \in Requests, Arrival(r)
      PROVE  LoadedOK'
  <2>1. /\ UNCHANGED packages /\ \A s \in Requests \ {r} :
             op'[s] = op[s] /\ pc'[s] = pc[s] /\ pkg'[s] = pkg[s] /\ was'[s] = was[s]
        /\ op'[r] \in {"update", "delete"} => was'[r] = packages[pkg'[r]] /\ pkg'[r] \in Live
    BY <1>3, ArrivalFrame DEF TypeOK, Edits
  <2>2. Live' = Live /\ \A p \in Live : packages[p].state = "live"
    BY <2>1 DEF Live
  <2>3. ASSUME NEW s \in Requests, op'[s] \in {"update", "delete"}, pc'[s] \in Running
        PROVE  /\ was'[s].state = "live"
               /\ packages'[pkg'[s]] = was'[s] \/ Meets(s, Edits)'
               /\ pkg'[s] \in Live' \/ (packages'[pkg'[s]].state = "deleted" /\ Meets(s, {"delete"})')
    <3>1. CASE s = r
      BY <2>1, <2>2, <2>3, <3>1
    <3>2. CASE s # r
      BY <1>1, <1>2, <2>1, <2>2, <2>3, <3>2 DEF LoadedOK
    <3>3. QED
      BY <3>1, <3>2
  <2>4. QED
    BY <2>3 DEF LoadedOK
<1>4. ASSUME NEW r \in Requests, Step(r) \/ Fail(r), ~ CommitPackage(r)
      PROVE  LoadedOK'
  <2>1. UNCHANGED op /\ pc[r] \in Running /\ \E p : pc' = [pc EXCEPT ![r] = p]
    BY <1>4, StepFrame
  <2>2. /\ UNCHANGED <<packages, was>>
        /\ \A s \in Requests : op[s] # "login" => pkg'[s] = pkg[s]
    BY <1>4 DEF Step, InsertProfile, DefaultPackage, Retry, Admit, ReadCurrent, Subscribe,
                Snapshot, Clear, Count, CountRefs, WritePackage, CommitLogin, CommitChange,
                Fail, Victim, Break, TypeOK, PlacesOK
  <2>3. Live' = Live
    BY <2>2 DEF Live
  <2>4. ASSUME NEW s \in Requests, op'[s] \in {"update", "delete"}, pc'[s] \in Running
        PROVE  /\ was'[s].state = "live"
               /\ packages'[pkg'[s]] = was'[s] \/ Meets(s, Edits)'
               /\ pkg'[s] \in Live' \/ (packages'[pkg'[s]].state = "deleted" /\ Meets(s, {"delete"})')
    <3>1. op[s] \in {"update", "delete"} /\ pc[s] \in Running /\ pkg'[s] = pkg[s]
      BY <2>1, <2>2, <2>4 DEF TypeOK
    <3>2. QED
      BY <1>1, <1>2, <2>2, <2>3, <3>1 DEF LoadedOK
  <2>5. QED
    BY <2>4 DEF LoadedOK
<1>5. ASSUME NEW r \in Requests, CommitPackage(r)
      PROVE  LoadedOK'
  <2>1. /\ pc[r] = "commit" /\ pc' = [pc EXCEPT ![r] = "done"] /\ op[r] \in Edits
        /\ UNCHANGED <<op, pkg, was, overlaps>>
        /\ \A p \in Packages :
             /\ packages'[p].state \in {packages[p].state, "live", "deleted"}
             /\ p \in Live /\ p \notin Live' =>
                  packages'[p].state = "deleted" /\ op[r] = "delete"
    BY <1>5, CommitFrame
  <2>2. ASSUME NEW s \in Requests, op'[s] \in {"update", "delete"}, pc'[s] \in Running
        PROVE  /\ was'[s].state = "live"
               /\ packages'[pkg'[s]] = was'[s] \/ Meets(s, Edits)'
               /\ pkg'[s] \in Live' \/ (packages'[pkg'[s]].state = "deleted" /\ Meets(s, {"delete"})')
    <3>1. s # r /\ op[s] \in {"update", "delete"} /\ pc[s] \in Running /\ pc[r] \in Running
      BY <2>1, <2>2 DEF TypeOK, Running
    <3>2. Meets(s, Edits) /\ (op[r] = "delete" => Meets(s, {"delete"}))
      BY <2>1, <3>1, RunnersMeet
    <3>3. pkg[s] \in Packages
      BY <3>1 DEF PlacesOK, Edits
    <3>4. pkg[s] \in Live' \/ (packages'[pkg[s]].state = "deleted" /\ Meets(s, {"delete"}))
      BY <2>1, <3>1, <3>2, <3>3 DEF LoadedOK, Live
    <3>5. QED
      BY <1>1, <1>2, <2>1, <3>1, <3>2, <3>4 DEF LoadedOK
  <2>3. QED
    BY <2>2 DEF LoadedOK
<1>6. CASE UNCHANGED vars
  BY <1>6 DEF vars, LoadedOK, Live, Meets
<1>7. QED
  BY <1>3, <1>4, <1>5, <1>6 DEF Next

-----------------------------------------------------------------------------
(* What an edit has cleared.                                               *)

\* Steps that leave the cleared rows of every request alone, or end it.
LEMMA QuietClears ==
  ASSUME PlaceInv, OverlapOK, ClearsOK, [Next]_vars, UNCHANGED <<packages, op, clears, toClear>>,
         \A s \in Requests :
           \/ pc'[s] \notin {"clear", "write", "commit"}
           \/ clears[s] = {} /\ toClear[s] = {} /\ ~ Promotes(s)'
           \/ pc'[s] = pc[s] /\ pkg'[s] = pkg[s] /\ wish'[s] = wish[s] /\ was'[s] = was[s]
  PROVE  ClearsOK'
<1>1. \A s \in Requests : Meets(s, {"create"}) => Meets(s, {"create"})'
  BY MeetsStays
<1>2. Live' = Live
  BY DEF Live
<1>3. QED
  BY <1>1, <1>2 DEF ClearsOK, Promotes

LEMMA ClearsStep ==
  ASSUME PlaceInv, OverlapOK, LocksOK, HoldsOK, ClearsOK, [Next]_vars
  PROVE  ClearsOK'
<1> USE DEF PlaceInv, work, tables
<1>1. \A s \in Requests : Meets(s, {"create"}) => Meets(s, {"create"})'
  BY MeetsStays
<1>2. ASSUME NEW r \in Requests, Arrival(r)
      PROVE  ClearsOK'
  <2>1. /\ pc[r] = "idle" /\ UNCHANGED <<packages, clears, toClear>>
        /\ pc'[r] \in {"profile", "current", "snapshot", "write", "count"}
        /\ \A s \in Requests \ {r} :
             /\ op'[s] = op[s] /\ pc'[s] = pc[s] /\ pkg'[s] = pkg[s]
             /\ wish'[s] = wish[s] /\ was'[s] = was[s]
    BY <1>2, ArrivalFrame DEF TypeOK
  <2>2. pc'[r] = "write" => ~ Promotes(r)'
    <3>1. CASE ArriveLogin(r) \/ ArriveChange(r) \/ ArriveDelete(r)
      BY <3>1 DEF ArriveLogin, ArriveChange, ArriveDelete, Arrive, Goto, TypeOK
    <3>2. CASE ArriveCreate(r)
      BY <3>2 DEF ArriveCreate, Arrive, Wants, Goto, Promotes, TypeOK
    <3>3. CASE ArriveUpdate(r)
      BY <3>3 DEF ArriveUpdate, Arrive, Wants, Goto, Promotes, TypeOK
    <3>4. QED
      BY <1>2, <3>1, <3>2, <3>3 DEF Arrival
  <2>3. clears[r] = {} /\ toClear[r] = {} /\ Live' = Live
    BY <2>1 DEF PlacesOK, Live
  <2>4. \A s \in Requests \ {r} : Promotes(s)' = Promotes(s)
    BY <2>1 DEF Promotes
  <2>5. QED
    BY <1>1, <2>1, <2>2, <2>3, <2>4 DEF ClearsOK
<1>3. ASSUME NEW r \in Requests,
             \/ InsertProfile(r) \/ DefaultPackage(r) \/ Retry(r) \/ Admit(r) \/ ReadCurrent(r)
             \/ Subscribe(r) \/ Count(r) \/ CountRefs(r) \/ CommitLogin(r) \/ CommitChange(r)
      PROVE  ClearsOK'
  <2>1. /\ UNCHANGED <<op, packages, clears, toClear, was>> /\ op[r] \notin {"create", "update"}
        /\ \A s \in Requests \ {r} : pkg'[s] = pkg[s] /\ wish'[s] = wish[s] /\ pc'[s] = pc[s]
        /\ wish'[r] \in {wish[r], "deactivate", "drop"}
    BY <1>3 DEF InsertProfile, DefaultPackage, Retry, Admit, ReadCurrent, Subscribe, Count,
                CountRefs, CommitLogin, CommitChange, Goto, PlacesOK, TypeOK
  <2>2. clears[r] = {} /\ toClear[r] = {} /\ ~ Promotes(r)'
    BY <2>1, ChangeStates DEF PlacesOK, Promotes, TypeOK, Ops, States
  <2>3. QED
    BY <2>1, <2>2, QuietClears
<1>4. ASSUME NEW r \in Requests, Fail(r) \/ Victim(r)
      PROVE  ClearsOK'
  BY <1>4, QuietClears DEF Fail, Victim, Break, Goto, TypeOK
<1>5. ASSUME NEW r \in Requests, Snapshot(r)
      PROVE  ClearsOK'
  <2>1. /\ UNCHANGED <<op, pkg, wish, was, packages, clears>> /\ pc[r] = "snapshot"
        /\ toClear' = [toClear EXCEPT ![r] = Live \ {pkg[r]}]
        /\ \/ Live \subseteq {pkg[r]} /\ pc' = [pc EXCEPT ![r] = "write"]
           \/ pc' = [pc EXCEPT ![r] = "clear"]
    <3>1. CASE Live \subseteq {pkg[r]}
      BY <1>5, <3>1 DEF Snapshot, Goto
    <3>2. CASE ~ (Live \subseteq {pkg[r]})
      BY <1>5, <3>2 DEF Snapshot, Goto
    <3>3. QED
      BY <3>1, <3>2
  <2>2. Live' = Live /\ \A s \in Requests : Promotes(s)' = Promotes(s)
    BY <2>1 DEF Live, Promotes
  <2>3. toClear'[r] = Live \ {pkg[r]} /\ (pc'[r] = "clear" \/ (pc'[r] = "write" /\ toClear'[r] = {}))
    BY <2>1 DEF TypeOK
  <2>4. \A s \in Requests \ {r} : pc'[s] = pc[s] /\ toClear'[s] = toClear[s]
    BY <2>1 DEF TypeOK
  <2>5. QED
    BY <1>1, <2>1, <2>2, <2>3, <2>4 DEF ClearsOK
<1>6. ASSUME NEW r \in Requests, Clear(r)
      PROVE  ClearsOK'
  <2>1. PICK p \in toClear[r] :
          /\ toClear' = [toClear EXCEPT ![r] = @ \ {p}]
          /\ clears' = [clears EXCEPT ![r] = @ \cup {p}]
          /\ Goto(r, IF toClear[r] = {p} THEN "write" ELSE "clear")
    BY <1>6 DEF Clear
  <2>2. UNCHANGED <<op, pkg, wish, was, packages>> /\ pc[r] = "clear"
    BY <1>6 DEF Clear
  <2>3. Live' = Live /\ \A s \in Requests : Promotes(s)' = Promotes(s)
    BY <2>2 DEF Live, Promotes
  <2>4. /\ toClear'[r] \cup clears'[r] = toClear[r] \cup clears[r]
        /\ pc'[r] = "clear" \/ (pc'[r] = "write" /\ toClear'[r] = {})
    BY <2>1 DEF Goto, TypeOK
  <2>5. \A s \in Requests \ {r} :
          toClear'[s] = toClear[s] /\ clears'[s] = clears[s] /\ pc'[s] = pc[s]
    BY <2>1 DEF Goto, TypeOK
  <2>6. Promotes(r)
    BY <2>2 DEF LocksOK
  <2>7. QED
    BY <1>1, <2>2, <2>3, <2>4, <2>5, <2>6 DEF ClearsOK
<1>7. ASSUME NEW r \in Requests, WritePackage(r)
      PROVE  ClearsOK'
  <2>1. /\ UNCHANGED <<op, pkg, was, packages, clears, toClear>> /\ pc[r] = "write"
        /\ wish' = [wish EXCEPT ![r] = Effective(r)]
        /\ \E p \in {"commit", "error"} : pc' = [pc EXCEPT ![r] = p]
    BY <1>7 DEF WritePackage, Goto
  <2>2. Live' = Live /\ \A s \in Requests \ {r} : Promotes(s)' = Promotes(s) /\ wish'[s] = wish[s]
    BY <2>1 DEF Live, Promotes, TypeOK
  <2>3. /\ clears[r] # {} => Promotes(r) /\ op[r] \in {"create", "update"}
        /\ Promotes(r)' => Promotes(r)
    BY <2>1 DEF LocksOK, PlacesOK, Promotes, Effective, TypeOK
  <2>4. clears[r] # {} =>
          Promotes(r)' \/ (op[r] = "update" /\ wish'[r] = "nothing" /\ was[r].default)
    BY <2>1, <2>3 DEF PlacesOK, Promotes, Effective, TypeOK
  <2>5. /\ \A s \in Requests \ {r} : pc'[s] = pc[s]
        /\ pc'[r] \in {"commit", "error"}
    BY <2>1 DEF TypeOK
  <2>6. QED
    BY <1>1, <2>1, <2>2, <2>3, <2>4, <2>5 DEF ClearsOK
<1>8. ASSUME NEW r \in Requests, CommitPackage(r)
      PROVE  ClearsOK'
  <2>1. /\ pc[r] = "commit" /\ pc' = [pc EXCEPT ![r] = "done"] /\ op[r] \in Edits
        /\ UNCHANGED <<op, pkg, wish, was, clears, toClear>>
        /\ \A p \in Packages : p \in Live' /\ p \notin Live =>
             p = pkg[r] /\ wish[r] \in {"insert", "insertDefault"}
    BY <1>8, CommitFrame
  <2>2. /\ wish[r] \in {"insert", "insertDefault"} => op[r] = "create"
        /\ Live' \subseteq Packages
    BY <2>1 DEF PlacesOK, Edits, Live
  <2>3. ASSUME NEW s \in Requests, s # r, pc[s] \in {"clear", "write", "commit"}
        PROVE  Live' \subseteq Live \/ Meets(s, {"create"})
    <3>1. CASE op[r] = "create"
      BY <2>1, <2>3, <3>1, RunnersMeet DEF Running
    <3>2. CASE op[r] # "create"
      BY <2>1, <2>2, <3>2
    <3>3. QED
      BY <3>1, <3>2
  <2>4. pc'[r] = "done" /\ \A s \in Requests \ {r} : pc'[s] = pc[s]
    BY <2>1 DEF TypeOK
  <2>5. \A s \in Requests : Promotes(s)' = Promotes(s)
    BY <2>1 DEF Promotes
  <2>6. QED
    BY <1>1, <2>1, <2>3, <2>4, <2>5 DEF ClearsOK
<1>9. CASE UNCHANGED vars
  BY <1>9, QuietClears DEF vars
<1>10. QED
  BY <1>2, <1>3, <1>4, <1>5, <1>6, <1>7, <1>8, <1>9 DEF Next, Step

-----------------------------------------------------------------------------
(* What a first login has chosen, and what a deletion has counted.         *)

LEMMA ChosenStep ==
  ASSUME PlaceInv, OverlapOK, ChosenOK, [Next]_vars
  PROVE  ChosenOK'
<1> USE DEF PlaceInv, work, tables
<1>1. \A s \in Requests : Meets(s, Edits) => Meets(s, Edits)'
  BY MeetsStays DEF Edits
<1>2. ASSUME NEW r \in Requests, Arrival(r)
      PROVE  ChosenOK'
  <2>1. /\ UNCHANGED packages
        /\ \A s \in Requests \ {r} : op'[s] = op[s] /\ pc'[s] = pc[s] /\ pkg'[s] = pkg[s]
        /\ op'[r] = "login" => pc'[r] \notin {"write", "commit"}
    BY <1>2, ArrivalFrame DEF TypeOK
  <2>2. Defaults' = Defaults
    BY <2>1 DEF Defaults, Live
  <2>3. QED
    BY <1>1, <2>1, <2>2 DEF ChosenOK
<1>3. ASSUME NEW r \in Requests, Step(r) \/ Fail(r), ~ DefaultPackage(r), ~ CommitPackage(r)
      PROVE  ChosenOK'
  <2>1. UNCHANGED op /\ \E p : pc' = [pc EXCEPT ![r] = p]
    BY <1>3, StepFrame
  <2>2. UNCHANGED <<packages, pkg>>
    BY <1>3 DEF Step, InsertProfile, Retry, Admit, ReadCurrent, Subscribe, Snapshot, Clear, Count,
                CountRefs, WritePackage, CommitLogin, CommitChange, Fail, Victim, Break
  <2>3. op[r] = "login" /\ pc'[r] \in {"write", "commit"} => pc[r] = "write"
    BY <1>3 DEF Step, InsertProfile, Retry, Admit, ReadCurrent, Subscribe, Snapshot, Clear, Count,
                CountRefs, WritePackage, CommitLogin, CommitChange, Fail, Victim, Break, Goto,
                TypeOK, PlacesOK
  <2>4. Defaults' = Defaults
    BY <2>2 DEF Defaults, Live
  <2>5. \A s \in Requests \ {r} : pc'[s] = pc[s]
    BY <2>1 DEF TypeOK
  <2>6. QED
    BY <1>1, <2>1, <2>2, <2>3, <2>4, <2>5 DEF ChosenOK
<1>4. ASSUME NEW r \in Requests, DefaultPackage(r)
      PROVE  ChosenOK'
  <2>1. /\ UNCHANGED <<op, packages>> /\ pc[r] = "package"
        /\ \/ /\ Cardinality(Defaults) <= 1
              /\ \E p \in IF Defaults # {} THEN Defaults ELSE {Free} \cap Live :
                   pkg' = [pkg EXCEPT ![r] = p]
              /\ pc' = [pc EXCEPT ![r] = "write"]
           \/ pc' = [pc EXCEPT ![r] = "error"] /\ pkg' = pkg
    BY <1>4 DEF DefaultPackage, Goto
  <2>2. Defaults' = Defaults
    BY <2>1 DEF Defaults, Live
  <2>3. \A s \in Requests \ {r} : pc'[s] = pc[s] /\ pkg'[s] = pkg[s]
    BY <2>1 DEF TypeOK
  <2>4. pc'[r] \in {"write", "commit"} => pkg'[r] \in Defaults \/ (pkg'[r] = Free /\ Defaults = {})
    BY <2>1 DEF TypeOK
  <2>5. QED
    BY <1>1, <2>1, <2>2, <2>3, <2>4 DEF ChosenOK
<1>5. ASSUME NEW r \in Requests, CommitPackage(r)
      PROVE  ChosenOK'
  <2>1. /\ pc[r] = "commit" /\ pc' = [pc EXCEPT ![r] = "done"] /\ op[r] \in Edits
        /\ UNCHANGED op
    BY <1>5, CommitFrame
  <2>2. ASSUME NEW s \in Requests, op'[s] = "login", pc'[s] \in {"write", "commit"}
        PROVE  Meets(s, Edits)'
    BY <1>1, <2>1, <2>2, RunnersMeet DEF Edits, Running, TypeOK
  <2>3. QED
    BY <2>2 DEF ChosenOK
<1>6. CASE UNCHANGED vars
  BY <1>6 DEF vars, ChosenOK, Defaults, Live, Meets
<1>7. QED
  BY <1>2, <1>3, <1>4, <1>5, <1>6 DEF Next

\* A request that commits a subscription has none before.
LEMMA CommitsFirst ==
  ASSUME ProvisionInv, NEW r \in Requests, CommitLogin(r) \/ CommitChange(r)
  PROVE  r \notin Subscribed
<1>1. CASE CommitLogin(r)
  <2>1. op[r] = "login" /\ Provisioning(r)
    BY <1>1 DEF CommitLogin, Provisioning
  <2>2. QED
    BY <2>1, SubscriptionRequests DEF ProvisionInv, ProvisionOK, Provisioned
<1>2. CASE CommitChange(r)
  BY <1>2 DEF CommitChange, ProvisionInv, PlaceInv, PlacesOK, Running, Subscribed, NoSub
<1>3. QED
  BY <1>1, <1>2

LEMMA RefsStep ==
  ASSUME ProvisionInv, RefsOK, [Next]_vars
  PROVE  RefsOK'
<1> USE DEF ProvisionInv, PlaceInv, work, tables
<1>1. ASSUME NEW r \in Requests, Arrival(r)
      PROVE  RefsOK'
  <2>1. /\ UNCHANGED subs
        /\ \A s \in Requests \ {r} :
             /\ op'[s] = op[s] /\ pc'[s] = pc[s] /\ pkg'[s] = pkg[s]
             /\ wish'[s] = wish[s] /\ was'[s] = was[s]
    BY <1>1, ArrivalFrame DEF TypeOK
  <2>2. op'[r] = "delete" => pc'[r] = "count"
    BY <1>1 DEF Arrival, ArriveLogin, ArriveChange, ArriveCreate, ArriveUpdate, ArriveDelete,
                Arrive, Goto, TypeOK
  <2>3. QED
    BY <2>1, <2>2 DEF RefsOK, Subscribed
<1>2. ASSUME NEW r \in Requests, Step(r) \/ Fail(r),
             ~ CountRefs(r), ~ WritePackage(r), ~ CommitLogin(r), ~ CommitChange(r)
      PROVE  RefsOK'
  <2>1. UNCHANGED <<op, was, wish, subs>>
    BY <1>2 DEF Step, InsertProfile, DefaultPackage, Retry, Admit, ReadCurrent, Subscribe, Snapshot,
                Clear, Count, CommitPackage, Fail, Victim, Break
  <2>2. /\ \A s \in Requests \ {r} : pc'[s] = pc[s]
        /\ op[r] = "delete" => pc'[r] \notin {"write", "commit"}
    BY <1>2 DEF Step, InsertProfile, DefaultPackage, Retry, Admit, ReadCurrent, Subscribe, Snapshot,
                Clear, Count, CommitPackage, Fail, Victim, Break, Goto, TypeOK, PlacesOK
  <2>3. \A s \in Requests : op[s] = "delete" => pkg'[s] = pkg[s]
    BY <1>2 DEF Step, InsertProfile, DefaultPackage, Retry, Admit, ReadCurrent, Subscribe, Snapshot,
                Clear, Count, CommitPackage, Fail, Victim, Break, TypeOK, PlacesOK
  <2>4. QED
    BY <2>1, <2>2, <2>3 DEF RefsOK, Subscribed
<1>3. ASSUME NEW r \in Requests, CountRefs(r)
      PROVE  RefsOK'
  <2>1. /\ wish' = [wish EXCEPT ![r] = IF \E s \in Subscribed : subs[s].package = pkg[r]
                                       THEN "deactivate" ELSE "drop"]
        /\ pc' = [pc EXCEPT ![r] = "write"] /\ UNCHANGED <<op, pkg, was, subs>>
    BY <1>3 DEF CountRefs, Goto
  <2>2. /\ pc'[r] = "write" /\ wish'[r] \in {"deactivate", "drop"}
        /\ wish'[r] # "drop" => \E s \in Subscribed : subs[s].package = pkg[r]
    BY <2>1 DEF TypeOK
  <2>3. \A s \in Requests \ {r} : pc'[s] = pc[s] /\ wish'[s] = wish[s]
    BY <2>1 DEF TypeOK
  <2>4. QED
    BY <2>1, <2>2, <2>3 DEF RefsOK, Subscribed
<1>4. ASSUME NEW r \in Requests, WritePackage(r)
      PROVE  RefsOK'
  <2>1. /\ wish' = [wish EXCEPT ![r] = Effective(r)] /\ pc[r] = "write"
        /\ \E p \in {"commit", "error"} : pc' = [pc EXCEPT ![r] = p]
        /\ UNCHANGED <<op, pkg, was, subs>>
    BY <1>4 DEF WritePackage, Goto
  <2>2. /\ wish[r] = "drop" => Effective(r) = "drop"
        /\ wish[r] = "deactivate" /\ Effective(r) = "nothing" => ~ was[r].active
    BY DEF Effective
  <2>3. pc'[r] # "write" /\ wish'[r] = Effective(r)
    BY <2>1 DEF TypeOK
  <2>4. \A s \in Requests \ {r} : pc'[s] = pc[s] /\ wish'[s] = wish[s]
    BY <2>1 DEF TypeOK
  <2>5. QED
    BY <2>1, <2>2, <2>3, <2>4 DEF RefsOK, Subscribed
<1>5. ASSUME NEW r \in Requests, CommitLogin(r) \/ CommitChange(r)
      PROVE  RefsOK'
  <2>1. /\ UNCHANGED <<op, pkg, wish, was>> /\ op[r] # "delete" /\ pc[r] = "commit"
        /\ \E p : pc' = [pc EXCEPT ![r] = p]
    BY <1>5 DEF CommitLogin, CommitChange, Goto
  <2>2. /\ Subscribed \subseteq Subscribed'
        /\ \A s \in Subscribed \ {r} : subs'[s].package = subs[s].package
    BY <1>5, ChangedSubs
  <2>3. r \notin Subscribed
    BY <1>5, CommitsFirst
  <2>4. QED
    BY <2>1, <2>2, <2>3 DEF RefsOK, TypeOK
<1>6. CASE UNCHANGED vars
  BY <1>6 DEF vars, RefsOK, Subscribed
<1>7. QED
  BY <1>1, <1>2, <1>3, <1>4, <1>5, <1>6 DEF Next
-----------------------------------------------------------------------------
(* What a change has read.                                                 *)

LEMMA ChangeStep ==
  ASSUME ProvisionInv, OverlapOK, OrderOK, ChangeOK, [Next]_vars
  PROVE  ChangeOK'
<1> USE DEF ProvisionInv, PlaceInv, work, tables
<1>1. IsFiniteSet(Started) /\ Cardinality(Started) \in Nat
  BY SubscriptionRequests, FS_Subset, FS_CardinalityType DEF Started
<1>2. Subscribed \subseteq Started /\ \A s \in Requests : begun[s] \in Nat
  BY SubscribedStarted, SubscriptionRequests, FS_CardinalityType DEF TypeOK
<1>3. /\ overlaps \subseteq overlaps'
      /\ \A s \in Requests : op[s] # "login" => op'[s] = op[s]
  BY OverlapStep
<1>4. \A s \in Requests : Meets(s, {"change"}) => Meets(s, {"change"})'
  BY MeetsStays
<1>5. ASSUME NEW r \in Requests, Arrival(r)
      PROVE  ChangeOK'
  <2>1. /\ pc[r] = "idle" /\ UNCHANGED <<subs, seen>>
        /\ begun' = [begun EXCEPT ![r] = 1 + Cardinality(Started)]
        /\ \A s \in Requests \ {r} : op'[s] = op[s] /\ pc'[s] = pc[s]
    BY <1>5, ArrivalFrame DEF TypeOK
  <2>2. op'[r] = "change" => pc'[r] \notin {"write", "commit"}
    BY <1>5, ArrivalFrame DEF TypeOK
  <2>3. Subscribed' = Subscribed /\ ActiveSubs' = ActiveSubs /\ r \notin Subscribed
    BY <1>2, <2>1 DEF Subscribed, ActiveSubs, Started
  <2>4. /\ begun'[r] = 1 + Cardinality(Started)
        /\ \A s \in Requests \ {r} : begun'[s] = begun[s]
    BY <2>1 DEF TypeOK
  <2>5. Newest' = Newest
    BY <2>3, <2>4 DEF Newest, Subscribed
  <2>6. \A s \in Subscribed : begun'[s] < begun'[r]
    BY <1>1, <1>2, <2>3, <2>4 DEF OrderOK, Started
  <2>7. ASSUME NEW s \in Requests, s # r, op'[s] = "change", pc'[s] \in Running
        PROVE  /\ \A t \in Subscribed :
                    begun'[t] < begun'[s] \/ (op'[t] = "change" /\ {s, t} \in overlaps')
               /\ pc'[s] \in {"write", "commit"} =>
                    \/ /\ seen'[s].sub \in Newest
                       /\ seen'[s].active <=> seen'[s].sub \in ActiveSubs
                    \/ Meets(s, {"change"})'
    <3>1. op[s] = "change" /\ pc'[s] = pc[s] /\ UNCHANGED seen
      BY <2>1, <2>7
    <3>2. \A t \in Subscribed : t \in Requests \ {r}
      BY <2>3 DEF Subscribed
    <3>3. \A t \in Subscribed : begun[t] < begun[s] \/ (op[t] = "change" /\ {s, t} \in overlaps)
      BY <2>7, <3>1 DEF ChangeOK
    <3>4. pc[s] \in {"write", "commit"} =>
            \/ seen[s].sub \in Newest /\ (seen[s].active <=> seen[s].sub \in ActiveSubs)
            \/ Meets(s, {"change"})
      BY <2>7, <3>1 DEF ChangeOK
    <3>5. \A t \in Subscribed :
            begun'[t] < begun'[s] \/ (op'[t] = "change" /\ {s, t} \in overlaps')
      <4>1. begun'[s] = begun[s] /\ \A t \in Subscribed : begun'[t] = begun[t] /\ op'[t] = op[t]
        BY <2>1, <2>4, <2>7, <3>2
      <4>2. QED
        BY <1>3, <3>3, <4>1
    <3>6. QED
      BY <1>4, <3>1, <3>4, <3>5
  <2>8. QED
    BY <2>1, <2>2, <2>3, <2>5, <2>6, <2>7 DEF ChangeOK
<1>6. ASSUME NEW r \in Requests, Step(r) \/ Fail(r), UNCHANGED subs, ~ ReadCurrent(r)
      PROVE  ChangeOK'
  <2>1. UNCHANGED <<op, begun, overlaps>> /\ pc[r] \in Running /\ \E p : pc' = [pc EXCEPT ![r] = p]
    BY <1>6, StepFrame
  <2>2. UNCHANGED seen
    BY <1>6 DEF Step, InsertProfile, DefaultPackage, Retry, Admit, Subscribe, Snapshot, Clear,
                Count, CountRefs, WritePackage, CommitLogin, CommitChange, CommitPackage,
                Fail, Victim, Break
  <2>3. op[r] = "change" /\ pc'[r] \in {"write", "commit"} => pc[r] \in {"write", "commit"}
    BY <1>6 DEF Step, InsertProfile, DefaultPackage, Retry, Admit, Subscribe, Snapshot, Clear,
                Count, CountRefs, WritePackage, CommitLogin, CommitChange, CommitPackage,
                Fail, Victim, Break, Goto, PlacesOK, TypeOK
  <2>4. Subscribed' = Subscribed /\ ActiveSubs' = ActiveSubs /\ Newest' = Newest
    BY <1>6, <2>1 DEF Subscribed, ActiveSubs, Newest
  <2>5. \A s \in Requests : pc'[s] \in Running => pc[s] \in Running
    BY <2>1 DEF TypeOK
  <2>6. \A s \in Requests :
          op[s] = "change" /\ pc'[s] \in {"write", "commit"} => pc[s] \in {"write", "commit"}
    BY <2>1, <2>3 DEF TypeOK
  <2>7. QED
    BY <1>4, <1>6, <2>1, <2>2, <2>4, <2>5, <2>6 DEF ChangeOK
<1>7. ASSUME NEW r \in Requests, ReadCurrent(r)
      PROVE  ChangeOK'
  <2>1. PICK s \in Newest :
          seen' = [seen EXCEPT ![r] = [sub |-> s, active |-> subs[s].status = "active"]]
    BY <1>7 DEF ReadCurrent
  <2>2. /\ pc[r] = "current" /\ pc' = [pc EXCEPT ![r] = "write"]
        /\ UNCHANGED <<op, begun, subs, overlaps>>
    BY <1>7 DEF ReadCurrent, Goto
  <2>3. Subscribed' = Subscribed /\ ActiveSubs' = ActiveSubs /\ Newest' = Newest
    BY <2>2 DEF Subscribed, ActiveSubs, Newest
  <2>4. seen'[r].sub = s /\ (seen'[r].active <=> s \in ActiveSubs)
    BY <2>1 DEF TypeOK, ActiveSubs, Newest, Subscribed
  <2>5. \A t \in Requests \ {r} : seen'[t] = seen[t] /\ pc'[t] = pc[t]
    BY <2>1, <2>2 DEF TypeOK
  <2>6. QED
    BY <1>4, <2>1, <2>2, <2>3, <2>4, <2>5 DEF ChangeOK, Running
<1>8. ASSUME NEW r \in Requests, CommitLogin(r)
      PROVE  ChangeOK'
  <2>1. Provisioning(r) /\ UNCHANGED op
    BY <1>8 DEF CommitLogin, Provisioning
  <2>2. \A s \in Requests : op'[s] # "change"
    BY <2>1 DEF ProvisionOK
  <2>3. QED
    BY <2>2 DEF ChangeOK
<1>9. ASSUME NEW r \in Requests, CommitChange(r)
      PROVE  ChangeOK'
  <2>1. /\ op[r] = "change" /\ pc[r] = "commit" /\ pc' = [pc EXCEPT ![r] = "done"]
        /\ UNCHANGED <<op, begun, overlaps>>
    BY <1>9 DEF CommitChange, Goto
  <2>2. Subscribed' = Subscribed \cup {r}
    BY <1>9, ChangedSubs
  <2>3. ASSUME NEW s \in Requests, op[s] = "change", pc'[s] \in Running
        PROVE  s # r /\ pc[s] \in Running /\ {s, r} \in overlaps /\ Meets(s, {"change"})
    <3>1. s # r /\ pc[s] \in Running /\ pc[r] \in Running
      BY <2>1, <2>3 DEF Running, TypeOK
    <3>2. QED
      BY <2>1, <3>1, RunnersMeet DEF OverlapOK
  <2>4. QED
    BY <1>4, <2>1, <2>2, <2>3 DEF ChangeOK
<1>10. CASE UNCHANGED vars
  BY <1>4, <1>10 DEF vars, ChangeOK, Newest, ActiveSubs, Subscribed
<1>11. ASSUME NEW r \in Requests, Step(r) \/ Fail(r),
              ~ ReadCurrent(r), ~ CommitLogin(r), ~ CommitChange(r)
       PROVE  ChangeOK'
  <2>1. UNCHANGED subs
    BY <1>11 DEF Step, InsertProfile, DefaultPackage, Retry, Admit, Subscribe, Snapshot, Clear,
                 Count, CountRefs, WritePackage, CommitPackage, Fail, Victim, Break
  <2>2. QED
    BY <1>6, <1>11, <2>1
<1>12. QED
  BY <1>5, <1>7, <1>8, <1>9, <1>10, <1>11 DEF Next

LEMMA BookStart == Init => BookInv
<1> SUFFICES ASSUME Init
             PROVE  BookInv
  OBVIOUS
<1>1. ProvisionInv /\ KeptOK /\ OverlapOK /\ DeleteOK /\ LocksOK
  BY ProvisionStart, KeptStart, DeleteStart, LocksStart DEF KeptInv, DeleteInv, LocksInv
<1>2. OrderOK
  BY SubsStart DEF SubsInv
<1>3. HoldsOK
  BY DEF Init, HoldsOK, RowsHeld
<1>4. LoadedOK /\ ClearsOK /\ ChosenOK /\ RefsOK /\ ChangeOK
  BY DEF Init, LoadedOK, ClearsOK, ChosenOK, RefsOK, ChangeOK, Running
<1>5. QED
  BY <1>1, <1>2, <1>3, <1>4 DEF BookInv, BookOK

LEMMA BookInvStep == BookInv /\ [Next]_vars => BookInv'
BY ProvisionInvStep, KeptStep, OverlapStep, DeleteStep, OrderStep, LocksStep, HoldsStep, LoadedStep,
   ClearsStep, ChosenStep, RefsStep, ChangeStep
   DEF BookInv, BookOK, ProvisionInv, DeleteInv

-----------------------------------------------------------------------------
(* The rows and the current subscription as the book has them.             *)

LEMMA RowsSeen ==
  ASSUME PlaceInv
  PROVE  /\ Rows \in [Packages -> Row]
         /\ \A p \in Packages :
              /\ Rows[p].state = packages[p].state
              /\ p \in Live => Rows[p] = packages[p]
              /\ p \notin Live => Rows[p] = [NoRow EXCEPT !.state = packages[p].state]
         /\ Book!Live = Live /\ Book!Defaults = Defaults
<1> USE DEF PlaceInv
<1>1. \A p \in Packages : packages[p] \in Row
  BY DEF TypeOK
<1>2. ASSUME NEW p \in Packages
      PROVE  /\ Rows[p] \in Row /\ Rows[p].state = packages[p].state
             /\ p \in Live => Rows[p] = packages[p]
             /\ p \notin Live => Rows[p] = [NoRow EXCEPT !.state = packages[p].state]
  BY <1>1 DEF Rows, NoRow, Row
<1>3. Rows \in [Packages -> Row]
  BY <1>2 DEF Rows
<1>4. Book!Live = Live
  BY <1>2 DEF Book!Live, Live
<1>5. Book!Defaults = Defaults
  BY <1>2, <1>4 DEF Book!Defaults, Defaults, Live
<1>6. QED
  BY <1>2, <1>3, <1>4, <1>5

LEMMA SeenMet ==
  ASSUME NEW r \in Requests, NEW kinds
  PROVE  Meets(r, kinds) <=> Book!Met(r, kinds)
BY DEF Meets, Book!Met

\* The current subscription is one, as the transactions have begun one by one.
LEMMA NewestIsOne ==
  ASSUME PlaceInv, OrderOK, NEW a \in Newest, NEW b \in Newest
  PROVE  a = b
<1>1. Subscribed \subseteq Started /\ \A s \in Requests : begun[s] \in Nat
  BY SubscribedStarted, SubscriptionRequests, FS_CardinalityType DEF PlaceInv, TypeOK
<1>2. /\ a \in Started /\ b \in Started /\ begun[a] \in Nat /\ begun[b] \in Nat
      /\ begun[a] <= begun[b] /\ begun[b] <= begun[a]
  BY <1>1 DEF Newest, Started
<1>3. QED
  BY <1>2 DEF OrderOK

LEMMA BookArrival ==
  ASSUME BookInv, NEW r \in Requests, Arrival(r)
  PROVE  \E o \in {"login", "change"} \cup Book!Edits : Book!Arrive(r, o)
<1> USE DEF BookInv, ProvisionInv, PlaceInv
<1>1. PICK o \in Ops, place \in {"profile", "current", "snapshot", "write", "count"} :
        /\ pc[r] = "idle"
        /\ op' = [op EXCEPT ![r] = o] /\ pc' = [pc EXCEPT ![r] = place]
        /\ begun' = [begun EXCEPT ![r] = 1 + Cardinality(Started)]
        /\ overlaps' = overlaps \cup {{r, s} : s \in Others(r)}
        /\ UNCHANGED <<packages, subs, profile>>
  BY ArrivalFrame
<1>2. o \in {"login", "change"} \cup Book!Edits
  BY DEF Ops, Book!Edits
<1>3. op[r] = "login" /\ subs[r] = NoSub /\ r \notin Subscribed
  BY <1>1 DEF PlacesOK, Subscribed, NoSub
<1>4. Newest' = Newest
  <2>1. Subscribed' = Subscribed /\ \A s \in Subscribed : begun'[s] = begun[s]
    BY <1>1, <1>3 DEF Subscribed, TypeOK
  <2>2. QED
    BY <2>1 DEF Newest
<1>5. Replied' = Replied
  BY <1>1 DEF Replied, TypeOK
<1>6. Rows' = Rows
  BY <1>1 DEF Rows, Live
<1>7. \A S \in overlaps' \ overlaps : r \in S
  BY <1>1
<1>8. Book!Arrive(r, o)
  BY <1>1, <1>3, <1>4, <1>5, <1>6, <1>7 DEF Book!Arrive, Book!NoSub, NoSub
<1>9. QED
  BY <1>2, <1>8

\* Steps that commit nothing.
LEMMA BookQuiet ==
  ASSUME BookInv, NEW r \in Requests, Step(r) \/ Fail(r),
         ~ CommitLogin(r), ~ CommitChange(r), ~ CommitPackage(r)
  PROVE  UNCHANGED Book!vars
<1> USE DEF BookInv, ProvisionInv, PlaceInv, work, tables
<1>1. UNCHANGED <<op, begun, overlaps>>
  BY StepFrame
<1>2. UNCHANGED <<packages, subs, profile>> /\ pc[r] \in Running
  BY StepFrame DEF Step, InsertProfile, DefaultPackage, Retry, Admit, ReadCurrent, Subscribe, Snapshot,
         Clear, Count, CountRefs, WritePackage, Fail, Victim, Break
<1>3. \E p : pc' = [pc EXCEPT ![r] = p] /\ (p = "done" => op[r] = "login")
  BY DEF Step, InsertProfile, DefaultPackage, Retry, Admit, ReadCurrent, Subscribe, Snapshot,
         Clear, Count, CountRefs, WritePackage, Fail, Victim, Break, Goto
<1>4. Replied' = Replied
  BY <1>1, <1>2, <1>3 DEF Replied, TypeOK, Running
<1>5. Rows' = Rows /\ Newest' = Newest
  BY <1>1, <1>2 DEF Rows, Live, Newest, Subscribed
<1>6. QED
  BY <1>1, <1>2, <1>4, <1>5 DEF Book!vars

LEMMA BookProvision ==
  ASSUME BookInv, NEW r \in Requests, CommitLogin(r)
  PROVE  pkg[r] \in Packages /\ Book!Provision(r, pkg[r])
<1> USE DEF BookInv, ProvisionInv, PlaceInv, work
<1>1. /\ Provisioning(r) /\ op[r] = "login" /\ pc[r] = "commit" /\ pc' = [pc EXCEPT ![r] = "current"]
      /\ profile' = r /\ subs' = [subs EXCEPT ![r] = [package |-> pkg[r], status |-> "active"]]
      /\ UNCHANGED <<op, begun, packages, overlaps>>
  BY DEF CommitLogin, Provisioning, Goto
<1>2. pkg[r] \in Packages /\ pkg[r] \in Live
  BY <1>1 DEF KeptOK, Subscribing, PlacesOK
<1>3. profile = None /\ \A s \in Requests : op[s] # "change"
  BY <1>1 DEF ProvisionOK
<1>4. Subscribed = {}
  BY <1>3, SubscriptionRequests
     DEF ProvisionOK, Provisioned, PlacesOK, TypeOK, Ops, Edits, Subscribed, NoSub
<1>5. Newest' = {r}
  <2>1. Subscribed' = {r}
    BY <1>1, <1>4 DEF Subscribed, TypeOK
  <2>2. begun'[r] <= begun'[r]
    BY <1>1, SubscriptionRequests, FS_CardinalityType DEF TypeOK
  <2>3. QED
    BY <2>1, <2>2 DEF Newest
<1>6. Rows' = Rows /\ Replied' = Replied
  BY <1>1 DEF Rows, Live, Replied, TypeOK
<1>7. \/ pkg[r] \in Book!Defaults \/ (pkg[r] = Free /\ Book!Defaults = {})
      \/ Book!Met(r, Book!Edits)
  BY <1>1, RowsSeen, SeenMet DEF BookOK, ChosenOK, Edits, Book!Edits
<1>8. QED
  BY <1>1, <1>2, <1>3, <1>5, <1>6, <1>7, RowsSeen DEF Book!Provision

LEMMA BookChange ==
  ASSUME BookInv, NEW r \in Requests, CommitChange(r)
  PROVE  pkg[r] \in Packages /\ wish[r] \in ChangeTo /\ Book!Change(r, pkg[r], wish[r])
<1> DEFINE ended == IF seen[r].active THEN {seen[r].sub} ELSE {}
<1> USE DEF BookInv, ProvisionInv, PlaceInv, work
<1>1. /\ op[r] = "change" /\ pc[r] = "commit" /\ pc' = [pc EXCEPT ![r] = "done"]
      /\ subs' = [s \in Requests |->
                    IF s = r THEN [package |-> pkg[r], status |-> wish[r]]
                    ELSE IF seen[r].active /\ s = seen[r].sub
                         THEN [subs[s] EXCEPT !.status = "cancelled"]
                         ELSE subs[s]]
      /\ UNCHANGED <<op, begun, packages, profile, overlaps>>
  BY DEF CommitChange, Goto
<1>2. /\ pkg[r] \in Live /\ pkg[r] \in Packages /\ wish[r] \in ChangeTo
      /\ subs[r] = NoSub /\ profile # None
  BY <1>1 DEF KeptOK, Subscribing, PlacesOK, Running, ProvisionOK
<1>3. r \notin Subscribed /\ Subscribed' = Subscribed \cup {r}
  BY CommitsFirst, ChangedSubs
<1>4. /\ ended \in {{}} \cup {{s} : s \in Requests \ {r}}
      /\ \A s \in ended : subs[s] # NoSub
  BY <1>3 DEF PlacesOK, Subscribed, NoSub
<1>5. ended = {s \in Newest : subs[s].status = "active"} \/ Book!Met(r, {"change"})
  <2>1. CASE Meets(r, {"change"})
    BY <2>1, SeenMet
  <2>2. CASE ~ Meets(r, {"change"})
    <3>1. seen[r].sub \in Newest /\ (seen[r].active <=> seen[r].sub \in ActiveSubs)
      BY <1>1, <2>2 DEF BookOK, ChangeOK, Running
    <3>2. Newest = {seen[r].sub} /\ seen[r].sub \in Requests
      BY <3>1, NewestIsOne DEF Newest, Subscribed
    <3>3. QED
      BY <3>1, <3>2 DEF ActiveSubs
  <2>3. QED
    BY <2>1, <2>2
<1>6. subs' = [s \in Requests |->
                 IF s = r THEN [package |-> pkg[r], status |-> wish[r]]
                 ELSE IF s \in ended THEN [subs[s] EXCEPT !.status = "cancelled"]
                 ELSE subs[s]]
  BY <1>1
<1>7. Newest' = {r} \/ (Newest' = Newest /\ Book!Met(r, {"change"}))
  <2>1. \A s \in Requests : begun[s] \in Nat
    BY SubscriptionRequests, FS_CardinalityType DEF TypeOK
  <2>2. Newest' = {t \in Subscribed \cup {r} : \A s \in Subscribed \cup {r} : begun[s] <= begun[t]}
    BY <1>1, <1>3 DEF Newest
  <2>3. Subscribed \subseteq Requests
    BY DEF Subscribed
  <2>4. CASE \A s \in Subscribed : begun[s] < begun[r]
    BY <2>1, <2>2, <2>3, <2>4
  <2>5. ASSUME NEW t \in Subscribed, ~ (begun[t] < begun[r])
        PROVE  Newest' = Newest /\ Book!Met(r, {"change"})
    <3>1. op[t] = "change" /\ {r, t} \in overlaps /\ t # r
      BY <1>1, <1>3, <2>5 DEF BookOK, ChangeOK, Running
    <3>2. begun[r] < begun[t]
      <4>1. r \in Started /\ t \in Started /\ begun[t] # begun[r]
        BY <1>1, <3>1, SubscribedStarted DEF Started, OrderOK
      <4>2. QED
        BY <2>1, <2>3, <2>5, <4>1
    <3>3. \A n \in Subscribed : begun[t] <= begun[n] => begun[r] <= begun[n]
      BY <2>1, <2>3, <3>2
    <3>4. ~ (begun[t] <= begun[r])
      BY <2>1, <2>3, <3>2
    <3>5. Newest' = Newest
      BY <2>2, <3>3, <3>4 DEF Newest
    <3>6. QED
      BY <2>3, <3>1, <3>5 DEF Book!Met
  <2>6. QED
    BY <2>4, <2>5
<1>8. r \notin Replied /\ Replied' = Replied \cup {r} /\ Rows' = Rows
  BY <1>1 DEF Replied, Rows, Live, TypeOK
<1>9. Book!Answer(r, "change")
  BY <1>1, <1>8 DEF Book!Answer
<1>10. QED
  BY <1>1, <1>2, <1>4, <1>5, <1>6, <1>7, <1>8, <1>9, RowsSeen DEF Book!Change, Book!NoSub, NoSub

\* What the commit of an edit does to the rows that are seen.
LEMMA EditCommit ==
  ASSUME BookInv, NEW r \in Requests, CommitPackage(r)
  PROVE  /\ pkg[r] \in Packages /\ op[r] \in Edits /\ pc[r] = "commit"
         /\ Book!Answer(r, op[r])
         /\ Book!Put(pkg[r], Rows'[pkg[r]], clears[r] \ {pkg[r]})
         /\ packages'[pkg[r]] = Written(packages[pkg[r]], wish[r])
         /\ Written(packages[pkg[r]], wish[r]).state = "live" =>
              Rows'[pkg[r]] = Written(packages[pkg[r]], wish[r])
         /\ Written(packages[pkg[r]], wish[r]).state # "live" =>
              Rows'[pkg[r]] =
                [NoRow EXCEPT !.state = Written(packages[pkg[r]], wish[r]).state]
<1> DEFINE p == pkg[r]
<1> USE DEF BookInv, ProvisionInv, PlaceInv
<1>1. /\ packages' = [q \in Packages |->
                        IF q = p THEN Written(packages[q], wish[r])
                        ELSE IF q \in clears[r] THEN Written(packages[q], "demote")
                        ELSE packages[q]]
      /\ pc[r] = "commit" /\ pc' = [pc EXCEPT ![r] = "done"] /\ op[r] \in Edits
      /\ UNCHANGED <<op, begun, work, subs, profile, overlaps>>
  BY CommitFrame
<1>2. p \in Packages
  BY <1>1 DEF PlacesOK
<1>3. \A q \in Packages : packages[q] \in Row /\ packages'[q] \in Row
  BY PlaceStep, CommitKeepsPlaces DEF TypeOK
<1>4. \A q \in Packages :
        Rows'[q] = IF packages'[q].state = "live" THEN packages'[q]
                   ELSE [NoRow EXCEPT !.state = packages'[q].state]
  BY DEF Rows, Live
<1>5. ASSUME NEW q \in Packages, q # p
      PROVE  Rows'[q] = IF q \in clears[r] \ {p} THEN [Rows[q] EXCEPT !.default = FALSE] ELSE Rows[q]
  <2>1. Rows[q] = IF packages[q].state = "live" THEN packages[q]
                  ELSE [NoRow EXCEPT !.state = packages[q].state]
    BY DEF Rows, Live
  <2>2. CASE q \in clears[r]
    <3>1. packages'[q] = [packages[q] EXCEPT !.default = FALSE]
      BY <1>1, <1>5, <2>2 DEF Written
    <3>2. packages[q] \in Row /\ packages'[q].state = packages[q].state
      BY <1>3, <3>1 DEF Row
    <3>3. CASE packages[q].state = "live"
      BY <1>4, <1>5, <2>1, <2>2, <3>1, <3>2, <3>3
    <3>4. CASE packages[q].state # "live"
      <4>1. Rows'[q] = [NoRow EXCEPT !.state = packages[q].state] /\ Rows[q] = Rows'[q]
        BY <1>4, <2>1, <3>2, <3>4
      <4>2. [Rows[q] EXCEPT !.default = FALSE] = Rows[q]
        BY <3>2, <4>1 DEF NoRow
      <4>3. QED
        BY <1>5, <2>2, <4>1, <4>2
    <3>5. QED
      BY <3>3, <3>4
  <2>3. CASE q \notin clears[r]
    BY <1>1, <1>4, <1>5, <2>1, <2>3
  <2>4. QED
    BY <2>2, <2>3
<1>6. Newest' = Newest
  BY <1>1 DEF Newest, Subscribed
<1>7. Rows' = [q \in Packages |->
                 IF q = p THEN Rows'[p]
                 ELSE IF q \in clears[r] \ {p} THEN [Rows[q] EXCEPT !.default = FALSE]
                 ELSE Rows[q]]
  <2>1. Rows' = [q \in Packages |-> IF q \in Live' THEN packages'[q]
                                   ELSE [NoRow EXCEPT !.state = packages'[q].state]]
    BY DEF Rows
  <2>2. Rows' = [q \in Packages |-> Rows'[q]]
    BY <2>1
  <2>3. QED
    BY <1>5, <2>2
<1>8. Book!Put(p, Rows'[p], clears[r] \ {p})
  BY <1>1, <1>6, <1>7 DEF Book!Put
<1>9. r \notin Replied /\ Replied' = Replied \cup {r}
  BY <1>1 DEF Replied, TypeOK, Edits
<1>10. Book!Answer(r, op[r])
  BY <1>1, <1>9 DEF Book!Answer
<1>11. packages'[p] = Written(packages[p], wish[r])
  BY <1>1, <1>2
<1>12. QED
  BY <1>1, <1>2, <1>4, <1>8, <1>10, <1>11

\* An edit that cleared rows has cleared all it had to, or met a creation.
LEMMA ClearedAll ==
  ASSUME BookInv, NEW r \in Requests, CommitPackage(r), Promotes(r) \/ clears[r] # {}
  PROVE  clears[r] \ {pkg[r]} \in Book!Demoted(r, pkg[r])
<1>1. clears[r] \in SUBSET Packages /\ pc[r] = "commit"
  BY EditCommit DEF BookInv, ProvisionInv, PlaceInv, TypeOK
<1>2. Live \ {pkg[r]} \subseteq clears[r] \/ Meets(r, {"create"})
  BY <1>1 DEF BookInv, BookOK, ClearsOK
<1>3. Book!Live = Live
  BY RowsSeen DEF BookInv, ProvisionInv
<1>4. QED
  BY <1>1, <1>2, <1>3, SeenMet DEF Book!Demoted

LEMMA BookCreate ==
  ASSUME BookInv, NEW r \in Requests, CommitPackage(r), op[r] = "create"
  PROVE  Book!Create(r, pkg[r])
<1> DEFINE p == pkg[r]
           C == clears[r] \ {p}
<1> USE DEF BookInv, ProvisionInv, PlaceInv
<1>1. wish[r] \in {"insert", "insertDefault"} /\ p \in Packages
  BY EditCommit DEF PlacesOK
<1>2. packages[p].state = "none"
  BY <1>1, EditCommit DEF BookOK, HoldsOK
<1>3. Rows[p] = Book!Absent
  BY <1>1, <1>2, RowsSeen DEF Live, NoRow, Book!Absent
<1>4. Rows'[p] = [state |-> "live", active |-> TRUE, default |-> wish[r] = "insertDefault"]
  BY <1>1, EditCommit DEF Written
<1>5. C \in IF wish[r] = "insertDefault" THEN Book!Demoted(r, p) ELSE {{}}
  <2>1. CASE wish[r] = "insertDefault"
    BY <2>1, ClearedAll DEF Promotes
  <2>2. CASE wish[r] # "insertDefault"
    <3>1. clears[r] = {}
      BY <1>1, <2>2, EditCommit DEF BookOK, ClearsOK, Promotes
    <3>2. QED
      BY <2>2, <3>1
  <2>3. QED
    BY <2>1, <2>2
<1>6. C \in SUBSET Packages
  BY DEF TypeOK
<1>7. Book!Answer(r, "create") /\ Book!Put(p, Rows'[p], C)
  BY EditCommit
<1>8. (wish[r] = "insertDefault") \in BOOLEAN
  OBVIOUS
<1>9. \E default \in BOOLEAN, D \in SUBSET Packages :
        /\ D \in IF default THEN Book!Demoted(r, p) ELSE {{}}
        /\ Book!Put(p, [state |-> "live", active |-> TRUE, default |-> default], D)
  BY <1>4, <1>5, <1>6, <1>7, <1>8
<1>10. QED
  BY <1>3, <1>7, <1>9 DEF Book!Create

LEMMA BookUpdate ==
  ASSUME BookInv, NEW r \in Requests, CommitPackage(r), op[r] = "update"
  PROVE  \E w \in {"promote", "demote", "activate", "deactivate"} : Book!Update(r, pkg[r], w)
<1> DEFINE p == pkg[r]
           C == clears[r] \ {p}
<1> USE DEF BookInv, ProvisionInv, PlaceInv
<1>1. /\ p \in Packages /\ pc[r] = "commit" /\ packages[p] \in Row
      /\ wish[r] \in {"promote", "demote", "activate", "deactivate", "nothing"}
  BY EditCommit DEF PlacesOK, TypeOK
<1>2. Book!Answer(r, "update") /\ Book!Put(p, Rows'[p], C)
  BY EditCommit
<1>3. clears[r] # {} => wish[r] = "promote" \/ (wish[r] = "nothing" /\ was[r].default)
  BY <1>1 DEF BookOK, ClearsOK, Promotes
<1>4. C \in SUBSET Packages /\ (clears[r] = {} => C \in {{}} \cap SUBSET Packages)
  BY DEF TypeOK
<1>5. wish[r] = "promote" \/ clears[r] # {} => C \in Book!Demoted(r, p)
  BY ClearedAll DEF Promotes
<1>6. CASE wish[r] # "nothing"
  <2>1. p \in Live /\ Rows[p] = packages[p] /\ Book!Live = Live
    BY <1>1, <1>6, RowsSeen DEF BookOK, HoldsOK, Edits
  <2>2. /\ Written(packages[p], wish[r]) = Book!Turned(Rows[p], wish[r])
        /\ Written(packages[p], wish[r]).state = "live"
    BY <1>1, <1>6, <2>1 DEF Written, Book!Turned, Live, Row
  <2>3. Book!Put(p, Book!Turned(Rows[p], wish[r]), C)
    BY <1>2, <2>2, EditCommit
  <2>4. C \in IF wish[r] = "promote" THEN Book!Demoted(r, p) ELSE {{}}
    BY <1>3, <1>4, <1>5, <1>6
  <2>5. Book!Update(r, p, wish[r])
    BY <1>2, <2>1, <2>3, <2>4 DEF Book!Update
  <2>6. QED
    BY <1>1, <1>6, <2>5
<1>7. CASE wish[r] = "nothing"
  <2>1. packages'[p] = packages[p] /\ Rows'[p] = Rows[p]
    BY <1>1, <1>7, EditCommit, RowsSeen DEF Written, Live
  <2>2. (packages[p] = was[r] /\ was[r].state = "live") \/ Book!Met(r, Book!Edits)
    BY <1>1, SeenMet DEF BookOK, LoadedOK, Running, Edits, Book!Edits
  <2>3. ASSUME NEW w, packages[p] = was[r] => Book!Turned(packages[p], w) = packages[p],
               C \in IF w = "promote" THEN Book!Demoted(r, p) ELSE {{}}
        PROVE  Book!Update(r, p, w)
    <3>1. CASE packages[p] = was[r] /\ was[r].state = "live"
      <4>1. p \in Book!Live /\ Rows[p] = packages[p]
        BY <1>1, <3>1, RowsSeen DEF Live
      <4>2. Book!Put(p, Book!Turned(Rows[p], w), C)
        BY <1>2, <2>1, <2>3, <3>1, <4>1
      <4>3. QED
        BY <1>2, <2>3, <4>1, <4>2 DEF Book!Update
    <3>2. CASE Book!Met(r, Book!Edits)
      BY <1>2, <2>1, <2>3, <3>2 DEF Book!Update
    <3>3. QED
      BY <2>2, <3>1, <3>2
  <2>4. CASE clears[r] # {}
    <3>1. was[r].default /\ C \in Book!Demoted(r, p)
      BY <1>3, <1>5, <1>7, <2>4
    <3>2. packages[p] = was[r] => Book!Turned(packages[p], "promote") = packages[p]
      BY <1>1, <3>1 DEF Book!Turned, Row
    <3>3. Book!Update(r, p, "promote")
      BY <2>3, <3>1, <3>2
    <3>4. QED
      BY <3>3
  <2>5. CASE clears[r] = {}
    <3>1. C = {}
      BY <2>5
    <3>2. CASE packages[p].active
      <4>1. Book!Turned(packages[p], "activate") = packages[p]
        BY <1>1, <3>2 DEF Book!Turned, Row
      <4>2. Book!Update(r, p, "activate")
        BY <2>3, <3>1, <4>1
      <4>3. QED
        BY <4>2
    <3>3. CASE ~ packages[p].active
      <4>1. Book!Turned(packages[p], "deactivate") = packages[p]
        BY <1>1, <3>3 DEF Book!Turned, Row
      <4>2. Book!Update(r, p, "deactivate")
        BY <2>3, <3>1, <4>1
      <4>3. QED
        BY <4>2
    <3>4. QED
      BY <3>2, <3>3
  <2>6. QED
    BY <2>4, <2>5
<1>8. QED
  BY <1>6, <1>7

LEMMA BookDelete ==
  ASSUME BookInv, NEW r \in Requests, CommitPackage(r), op[r] = "delete"
  PROVE  Book!Delete(r, pkg[r])
<1> DEFINE p == pkg[r]
<1> USE DEF BookInv, ProvisionInv, PlaceInv
<1>1. /\ p \in Packages /\ pc[r] = "commit" /\ packages[p] \in Row /\ clears[r] \ {p} = {}
      /\ wish[r] \in {"drop", "deactivate", "nothing"}
  BY EditCommit DEF PlacesOK, TypeOK
<1>2. Book!Answer(r, "delete") /\ Book!Put(p, Rows'[p], {})
  BY <1>1, EditCommit
<1>3. Rows[p].default => Book!Met(r, {"create", "update"})
  <2>1. Rows[p].default => packages[p].default
    BY <1>1, RowsSeen DEF NoRow
  <2>2. packages[p].default =>
          \E s \in Requests : op[s] \in {"create", "update"} /\ {r, s} \in overlaps
    BY <1>1 DEF DeleteOK, Running
  <2>3. QED
    BY <2>1, <2>2 DEF Book!Met
<1>4. \A s \in Requests :
        subs[s].package = p /\ subs[s].status = "active" => {r, s} \in overlaps
  BY <1>1 DEF DeleteOK, ActiveSubs
<1>5. \A s \in Requests : subs[s].package = p => s \in Subscribed
  BY <1>1, SubscriptionRequests DEF TypeOK, Sub, NoSub, States, Subscribed
<1>6. CASE \E s \in Requests : subs[s].package = p
  <2>1. p \in Live /\ wish[r] # "drop"
    BY <1>1, <1>5, <1>6 DEF KeptOK, PackagesKept, Dropping
  <2>2. p \in Book!Live /\ Rows[p] = packages[p]
    BY <1>1, <2>1, RowsSeen
  <2>3. CASE wish[r] = "deactivate"
    <3>1. Rows'[p] = Book!Turned(Rows[p], "deactivate")
      BY <1>1, <2>1, <2>2, <2>3, EditCommit DEF Written, Book!Turned, Live, Row
    <3>2. QED
      BY <1>2, <1>3, <1>4, <1>6, <2>2, <3>1 DEF Book!Delete
  <2>4. CASE wish[r] = "nothing"
    <3>1. Rows'[p] = Rows[p] /\ ~ was[r].active
      BY <1>1, <2>1, <2>2, <2>4, EditCommit DEF Written, Live, BookOK, RefsOK
    <3>2. packages[p] = was[r] \/ Book!Met(r, Book!Edits)
      BY <1>1, SeenMet DEF BookOK, LoadedOK, Running, Edits, Book!Edits
    <3>3. packages[p] = was[r] => Book!Turned(Rows[p], "deactivate") = Rows[p]
      BY <1>1, <2>2, <3>1 DEF Book!Turned, Row
    <3>4. QED
      BY <1>2, <1>3, <1>4, <1>6, <2>2, <3>1, <3>2, <3>3 DEF Book!Delete
  <2>5. QED
    BY <1>1, <2>1, <2>3, <2>4
<1>7. CASE ~ \E s \in Requests : subs[s].package = p
  <2>1. wish[r] = "drop"
    BY <1>1, <1>7 DEF BookOK, RefsOK, Subscribed
  <2>2. p \in Live \/ (packages[p].state = "deleted" /\ Book!Met(r, {"delete"}))
    BY <1>1, SeenMet DEF BookOK, LoadedOK, Running
  <2>3. p \in Book!Live \/ (Rows[p] = Book!Gone /\ Book!Met(r, {"delete"}))
    BY <1>1, <2>2, RowsSeen DEF Live, NoRow, Book!Gone
  <2>4. Rows'[p] = Book!Gone
    <3>1. Written(packages[p], wish[r]).state = "deleted"
      BY <1>1, <2>1 DEF Written, Row
    <3>2. QED
      BY <3>1, EditCommit DEF NoRow, Book!Gone
  <2>5. QED
    BY <1>2, <1>3, <1>4, <1>7, <2>3, <2>4 DEF Book!Delete
<1>8. QED
  BY <1>6, <1>7

\* A request that is answered has done one thing to the packages and the
\* subscriptions, at once: what it has read before, without a lock, still holds
\* at its commit, but for what it met; one that fails has done nothing.
THEOREM BookKept == Spec => KeepsBook
<1>1. Init => Book!Init
  <2> SUFFICES ASSUME Init
               PROVE  Book!Init
    OBVIOUS
  <2>1. Rows = [p \in Packages |->
                  IF p \in Initial
                  THEN [state |-> "live", active |-> TRUE, default |-> p = Free]
                  ELSE Book!Absent]
    BY DEF Init, Rows, Live, NoRow, Book!Absent
  <2>2. Newest = {} /\ Replied = {}
    BY DEF Init, Newest, Subscribed, NoSub, Replied
  <2>3. QED
    BY <2>1, <2>2 DEF Init, NoSub, Book!Init, Book!NoSub
<1>2. BookInv /\ [Next]_vars => [Book!Next]_(Book!vars)
  <2> SUFFICES ASSUME BookInv, [Next]_vars
               PROVE  Book!Next \/ UNCHANGED Book!vars
    OBVIOUS
  <2>1. ASSUME NEW r \in Requests, Arrival(r)
        PROVE  Book!Next
    BY <2>1, BookArrival DEF Book!Next
  <2>2. ASSUME NEW r \in Requests, CommitLogin(r)
        PROVE  Book!Next
    BY <2>2, BookProvision DEF Book!Next
  <2>3. ASSUME NEW r \in Requests, CommitChange(r)
        PROVE  Book!Next
    BY <2>3, BookChange DEF Book!Next
  <2>4. ASSUME NEW r \in Requests, CommitPackage(r)
        PROVE  Book!Next
    <3>1. op[r] \in Edits /\ pkg[r] \in Packages
      BY <2>4, EditCommit
    <3>2. CASE op[r] = "create"
      BY <2>4, <3>1, <3>2, BookCreate DEF Book!Next
    <3>3. CASE op[r] = "update"
      BY <2>4, <3>1, <3>3, BookUpdate DEF Book!Next
    <3>4. CASE op[r] = "delete"
      BY <2>4, <3>1, <3>4, BookDelete DEF Book!Next
    <3>5. QED
      BY <3>1, <3>2, <3>3, <3>4 DEF Edits
  <2>5. CASE UNCHANGED vars
    BY <2>5 DEF vars, tables, Book!vars, Rows, Live, Newest, Subscribed, Replied
  <2>6. QED
    BY <2>1, <2>2, <2>3, <2>4, <2>5, BookQuiet DEF Next
<1>3. QED
  BY <1>1, <1>2, BookStart, BookInvStep, PTL DEF Spec, KeepsBook, Book!Spec

-----------------------------------------------------------------------------
(* What SubscriptionBook promises is enough: whatever implements it keeps   *)
(* packages, has one subscription and one default package.                 *)

DefaultRows == {p \in Packages : Rows[p].default}

EnoughInv ==
  /\ Rows \in [Packages -> Row] /\ subs \in [Requests -> Sub] /\ op \in [Requests -> Ops]
  /\ \A r \in Requests : subs[r] # NoSub => subs[r].package \in Book!Live
  /\ profile = None => \A r \in Requests : subs[r] = NoSub
  /\ Overlapped({"change"}) \/ (/\ ActiveSubs \subseteq Newest
                                /\ \A r \in Newest : subs[r].status # "cancelled")
  /\ Overlapped(Editors) \/ \A p, q \in DefaultRows : p = q

LEMMA EnoughStart == Book!Init => EnoughInv
<1> SUFFICES ASSUME Book!Init
             PROVE  EnoughInv
  OBVIOUS
<1>1. Rows \in [Packages -> Row] /\ DefaultRows \subseteq {Free}
  BY DEF Book!Init, Book!Absent, Row, RowStates, DefaultRows
<1>2. /\ \A r \in Requests : subs[r] = NoSub
      /\ subs \in [Requests -> Sub] /\ op \in [Requests -> Ops]
      /\ Newest = {} /\ ActiveSubs = {}
  BY DEF Book!Init, Book!NoSub, NoSub, Sub, Ops, ActiveSubs
<1>3. QED
  BY <1>1, <1>2 DEF EnoughInv

LEMMA BookOverlaps ==
  ASSUME EnoughInv, [Book!Next]_(Book!vars), NEW S, "login" \notin S, Overlapped(S)
  PROVE  Overlapped(S)'
<1>1. overlaps \subseteq overlaps' /\ \A s \in Requests : op[s] # "login" => op'[s] = op[s]
  <2>1. ASSUME NEW r \in Requests, NEW o, Book!Arrive(r, o)
        PROVE  overlaps \subseteq overlaps' /\ \A s \in Requests : op[s] # "login" => op'[s] = op[s]
    BY <2>1 DEF Book!Arrive, EnoughInv
  <2>2. CASE UNCHANGED <<op, overlaps>>
    BY <2>2
  <2>3. QED
    BY <2>1, <2>2 DEF Book!Next, Book!vars, Book!Provision, Book!Change, Book!Create, Book!Update,
                      Book!Delete, Book!Answer
<1>2. QED
  BY <1>1 DEF Overlapped

\* A request that met one of its own kind overlapped it.
LEMMA MetOverlapped ==
  ASSUME NEW S, NEW kinds \in SUBSET S, NEW r \in Requests, op[r] \in S, Book!Met(r, kinds)
  PROVE  Overlapped(S)
BY DEF Overlapped, Book!Met

\* No deleted or absent row is a default.
LEMMA DefaultRowsLive == DefaultRows \subseteq Book!Live
BY DEF DefaultRows, Book!Live, Rows, NoRow, Live

LEMMA PutRows ==
  ASSUME Rows \in [Packages -> Row], NEW p \in Packages, NEW row \in Row, NEW C, Book!Put(p, row, C)
  PROVE  /\ Rows' \in [Packages -> Row] /\ Rows'[p] = row /\ UNCHANGED <<subs, Newest>>
         /\ \A q \in Packages \ {p} :
              /\ Rows'[q].state = Rows[q].state
              /\ Rows'[q].default => Rows[q].default /\ q \notin C
BY DEF Book!Put, Row

LEMMA TurnedRow ==
  ASSUME NEW row \in Row, NEW w \in {"promote", "demote", "activate", "deactivate"}
  PROVE  /\ Book!Turned(row, w) \in Row /\ Book!Turned(row, w).state = row.state
         /\ w # "promote" /\ Book!Turned(row, w).default => row.default
BY DEF Book!Turned, Row

\* Steps that write rows: no package with a subscription goes, and of two defaults
\* one is taken away unless edits overlapped.
LEMMA EnoughRows ==
  ASSUME EnoughInv, [Book!Next]_(Book!vars), UNCHANGED profile, op' \in [Requests -> Ops],
         NEW p \in Packages, NEW row \in Row, NEW C, Book!Put(p, row, C),
         row.state = "live" \/ \A s \in Requests : subs[s].package # p,
         \/ Overlapped(Editors)
         \/ row.default => Rows[p].default
         \/ Book!Live \ {p} \subseteq C
  PROVE  EnoughInv'
<1>1. /\ Rows' \in [Packages -> Row] /\ Rows'[p] = row /\ UNCHANGED <<subs, Newest>>
      /\ \A q \in Packages \ {p} :
           /\ Rows'[q].state = Rows[q].state
           /\ Rows'[q].default => Rows[q].default /\ q \notin C
  BY PutRows DEF EnoughInv
<1>2. \A r \in Requests : subs'[r] # NoSub => subs'[r].package \in Book!Live'
  BY <1>1 DEF EnoughInv, Book!Live
<1>3. Overlapped({"change"})' \/ (/\ ActiveSubs' \subseteq Newest'
                                  /\ \A r \in Newest' : subs'[r].status # "cancelled")
  BY <1>1, BookOverlaps DEF EnoughInv, ActiveSubs
<1>4. Overlapped(Editors)' \/ \A a, b \in DefaultRows' : a = b
  <2>1. CASE Overlapped(Editors)
    BY <2>1, BookOverlaps DEF Editors
  <2>2. CASE row.default => Rows[p].default
    <3>1. DefaultRows' \subseteq DefaultRows
      BY <1>1, <2>2 DEF DefaultRows
    <3>2. CASE Overlapped(Editors)
      BY <3>2, BookOverlaps DEF Editors
    <3>3. QED
      BY <3>1, <3>2 DEF EnoughInv
  <2>3. CASE Book!Live \ {p} \subseteq C
    BY <1>1, <2>3, DefaultRowsLive DEF DefaultRows
  <2>4. QED
    BY <2>1, <2>2, <2>3
<1>5. QED
  BY <1>1, <1>2, <1>3, <1>4 DEF EnoughInv

LEMMA EnoughStep == EnoughInv /\ [Book!Next]_(Book!vars) => EnoughInv'
<1> SUFFICES ASSUME EnoughInv, [Book!Next]_(Book!vars)
             PROVE  EnoughInv'
  OBVIOUS
<1>1. /\ Overlapped({"change"}) => Overlapped({"change"})'
      /\ Overlapped(Editors) => Overlapped(Editors)'
  BY BookOverlaps DEF Editors
<1>2. CASE UNCHANGED Book!vars
  BY <1>1, <1>2 DEF EnoughInv, Book!vars, Book!Live, ActiveSubs, DefaultRows
<1>3. ASSUME NEW r \in Requests, NEW o \in {"login", "change"} \cup Book!Edits, Book!Arrive(r, o)
      PROVE  EnoughInv'
  <2>1. UNCHANGED <<Rows, subs, Newest, profile>> /\ op' \in [Requests -> Ops]
    BY <1>3 DEF Book!Arrive, Book!Edits, EnoughInv, Ops
  <2>2. QED
    BY <1>1, <2>1 DEF EnoughInv, Book!Live, ActiveSubs, DefaultRows
<1>4. ASSUME NEW r \in Requests, NEW p \in Packages, Book!Provision(r, p)
      PROVE  EnoughInv'
  <2>1. /\ profile = None /\ p \in Book!Live /\ profile' = r /\ Newest' = {r}
        /\ subs' = [subs EXCEPT ![r] = [package |-> p, status |-> "active"]]
        /\ UNCHANGED <<Rows, op>>
    BY <1>4 DEF Book!Provision
  <2>2. \A s \in Requests \ {r} : subs'[s] = NoSub
    BY <2>1 DEF EnoughInv
  <2>3. subs'[r] = [package |-> p, status |-> "active"] /\ subs' \in [Requests -> Sub]
    BY <2>1 DEF EnoughInv, Sub, States
  <2>4. ActiveSubs' \subseteq {r} /\ \A s \in Newest' : subs'[s].status # "cancelled"
    BY <2>1, <2>2, <2>3 DEF ActiveSubs, NoSub
  <2>5. \A s \in Requests : subs'[s] # NoSub => subs'[s].package \in Book!Live'
    BY <2>1, <2>2, <2>3 DEF Book!Live
  <2>6. QED
    BY <1>1, <2>1, <2>3, <2>4, <2>5, SubscriptionRequests DEF EnoughInv, DefaultRows
<1>5. ASSUME NEW r \in Requests, NEW p \in Packages, NEW status \in ChangeTo,
             Book!Change(r, p, status)
      PROVE  EnoughInv'
  <2>1. PICK ended \in {{}} \cup {{s} : s \in Requests \ {r}} :
          /\ \A s \in ended : subs[s] # NoSub
          /\ ended = {s \in Newest : subs[s].status = "active"} \/ Book!Met(r, {"change"})
          /\ subs' = [s \in Requests |->
                        IF s = r THEN [package |-> p, status |-> status]
                        ELSE IF s \in ended THEN [subs[s] EXCEPT !.status = "cancelled"]
                        ELSE subs[s]]
    BY <1>5 DEF Book!Change, Book!NoSub, NoSub
  <2>2. /\ op[r] = "change" /\ p \in Book!Live /\ profile # None
        /\ UNCHANGED <<Rows, op, profile, overlaps>>
        /\ Newest' = {r} \/ Book!Met(r, {"change"})
    BY <1>5 DEF Book!Change, Book!Answer
  <2>3. \A s \in ended : subs[s] \in [package : Packages, status : States]
    BY <2>1 DEF EnoughInv, Sub
  <2>4. \A s \in Requests \ {r} :
          \/ s \notin ended /\ subs'[s] = subs[s]
          \/ /\ s \in ended /\ subs[s] # NoSub /\ subs'[s] \in [package : Packages, status : States]
             /\ subs'[s].package = subs[s].package /\ subs'[s].status = "cancelled"
    BY <2>1, <2>3 DEF States
  <2>5. subs'[r] = [package |-> p, status |-> status] /\ status \in States \ {"cancelled"}
    BY <2>1, ChangeStates
  <2>6. subs' \in [Requests -> Sub]
    BY <2>1, <2>4, <2>5 DEF EnoughInv, Sub
  <2>7. \A s \in Requests : subs'[s] # NoSub => subs'[s].package \in Book!Live'
    BY <2>2, <2>4, <2>5 DEF EnoughInv, Book!Live
  <2>8. ASSUME ~ Overlapped({"change"})
        PROVE  ActiveSubs' \subseteq Newest' /\ \A s \in Newest' : subs'[s].status # "cancelled"
    <3>1. ~ Book!Met(r, {"change"})
      BY <2>2, <2>8, MetOverlapped
    <3>2. Newest' = {r} /\ ended = {s \in Newest : subs[s].status = "active"}
      BY <2>1, <2>2, <3>1
    <3>3. \A s \in Requests \ {r} : s \notin ActiveSubs'
      BY <2>4, <2>8, <3>2 DEF ActiveSubs, EnoughInv
    <3>4. QED
      BY <2>5, <3>2, <3>3 DEF ActiveSubs
  <2>9. QED
    BY <1>1, <2>2, <2>6, <2>7, <2>8 DEF EnoughInv, DefaultRows
<1>6. ASSUME NEW r \in Requests, NEW p \in Packages, Book!Create(r, p)
      PROVE  EnoughInv'
  <2>1. op[r] = "create" /\ UNCHANGED <<profile, op>>
    BY <1>6 DEF Book!Create, Book!Answer
  <2>2. PICK default \in BOOLEAN, C \in SUBSET Packages :
          /\ C \in IF default THEN Book!Demoted(r, p) ELSE {{}}
          /\ Book!Put(p, [state |-> "live", active |-> TRUE, default |-> default], C)
    BY <1>6 DEF Book!Create
  <2>3. [state |-> "live", active |-> TRUE, default |-> default] \in Row
    BY DEF Row, RowStates
  <2>4. Overlapped(Editors) \/ ~ default \/ Book!Live \ {p} \subseteq C
    BY <2>1, <2>2, MetOverlapped DEF Book!Demoted, Editors
  <2>5. QED
    BY <2>1, <2>2, <2>3, <2>4, EnoughRows DEF EnoughInv
<1>7. ASSUME NEW r \in Requests, NEW p \in Packages,
             NEW w \in {"promote", "demote", "activate", "deactivate"}, Book!Update(r, p, w)
      PROVE  EnoughInv'
  <2>1. op[r] = "update" /\ UNCHANGED <<profile, op>> /\ Rows[p] \in Row
    BY <1>7 DEF Book!Update, Book!Answer, EnoughInv
  <2>2. PICK C \in IF w = "promote" THEN Book!Demoted(r, p) ELSE {{}} :
          \/ p \in Book!Live /\ Book!Put(p, Book!Turned(Rows[p], w), C)
          \/ Book!Put(p, Rows[p], C)
    BY <1>7 DEF Book!Update
  <2>3. Overlapped(Editors) \/ w # "promote" \/ Book!Live \ {p} \subseteq C
    BY <2>1, <2>2, MetOverlapped DEF Book!Demoted, Editors
  <2>4. CASE p \in Book!Live /\ Book!Put(p, Book!Turned(Rows[p], w), C)
    <3>1. Rows[p].state = "live"
      BY <2>4 DEF Book!Live
    <3>2. QED
      BY <2>1, <2>3, <2>4, <3>1, TurnedRow, EnoughRows DEF EnoughInv
  <2>5. CASE Book!Put(p, Rows[p], C)
    <3>1. Rows[p].state = "live" \/ \A s \in Requests : subs[s].package # p
      BY SubscriptionRequests DEF EnoughInv, NoSub, Book!Live
    <3>2. QED
      BY <2>1, <2>5, <3>1, EnoughRows DEF EnoughInv
  <2>6. QED
    BY <2>2, <2>4, <2>5
<1>8. ASSUME NEW r \in Requests, NEW p \in Packages, Book!Delete(r, p)
      PROVE  EnoughInv'
  <2>1. UNCHANGED <<profile, op>> /\ Rows[p] \in Row
    BY <1>8 DEF Book!Delete, Book!Answer, EnoughInv
  <2>2. CASE \E s \in Requests : subs[s].package = p
    <3>1. PICK row \in {Rows[p], Book!Turned(Rows[p], "deactivate")} :
            p \in Book!Live /\ Book!Put(p, row, {})
      BY <1>8, <2>2 DEF Book!Delete
    <3>2. row \in Row /\ row.state = "live" /\ (row.default => Rows[p].default)
      BY <2>1, <3>1, TurnedRow DEF Book!Live
    <3>3. QED
      BY <2>1, <3>1, <3>2, EnoughRows DEF EnoughInv
  <2>3. CASE ~ \E s \in Requests : subs[s].package = p
    <3>1. Book!Put(p, Book!Gone, {}) /\ Book!Gone \in Row /\ ~ Book!Gone.default
      BY <1>8, <2>3 DEF Book!Delete, Book!Gone, Row, RowStates
    <3>2. QED
      BY <2>1, <2>3, <3>1, EnoughRows DEF EnoughInv
  <2>4. QED
    BY <2>2, <2>3
<1>9. QED
  BY <1>2, <1>3, <1>4, <1>5, <1>6, <1>7, <1>8 DEF Book!Next

\* What is proved of every service that implements the book: no package that was
\* subscribed to goes, only the current subscription is active unless changes
\* overlapped, and there is one default unless edits did.
THEOREM BookIsEnough == KeepsBook => [](PackagesKept /\ OneSubscription /\ OneDefault)
<1>1. EnoughInv => PackagesKept /\ OneSubscription /\ OneDefault
  <2> SUFFICES ASSUME EnoughInv
               PROVE  PackagesKept /\ OneSubscription /\ OneDefault
    OBVIOUS
  <2>1. Book!Live = Live /\ {p \in Live : packages[p].default} = DefaultRows
    BY DEF Book!Live, Live, Rows, NoRow, DefaultRows
  <2>2. PackagesKept
    BY <2>1 DEF EnoughInv, PackagesKept, Subscribed, NoSub
  <2>3. OneSubscription
    BY DEF EnoughInv, OneSubscription
  <2>4. OneDefault
    BY <2>1, AtMostOne DEF EnoughInv, OneDefault, Editors
  <2>5. QED
    BY <2>2, <2>3, <2>4
<1>2. QED
  BY <1>1, EnoughStart, EnoughStep, PTL DEF KeepsBook, Book!Spec
=============================================================================
