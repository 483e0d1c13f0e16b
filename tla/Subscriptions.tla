---------------------------- MODULE Subscriptions ----------------------------
(***************************************************************************)
(* The packages of the service and the subscriptions of one tenant: the    *)
(* first login that provisions it, package changes by admins, and the      *)
(* creation, update and deletion of packages (package_service.py,          *)
(* auth_service.get_or_create_profile, the admin endpoints over them).     *)
(*                                                                         *)
(* Every request has one READ COMMITTED transaction (get_db): a SELECT     *)
(* sees what is committed, a row object keeps the columns it was loaded    *)
(* with, and a flush writes only those that were changed.  A multi-row     *)
(* UPDATE touches the rows its snapshot saw and locks them one by one.      *)
(* created_at is PostgreSQL's now(): the moment the transaction began, not *)
(* the moment of the INSERT.                                               *)
(***************************************************************************)
EXTENDS Naturals, FiniteSets

CONSTANTS
  Requests,     \* the requests of a behaviour
  Packages,     \* the packages, by their unique names
  Free,         \* the package DEFAULT_PACKAGE_NAME names
  OpsOf,        \* OpsOf[r]: what r may turn out to be
  Initial,      \* the packages the migration seeds, Free the default of them
  ChangeTo,     \* the states an admin gives a new subscription
  None,         \* no request, no package
  Fallible      \* the requests of which a step may raise, or the worker die

VARIABLES
  op,           \* op[r]: the operation of r
  pc,           \* pc[r]: where r's handler stands
  begun,        \* begun[r]: when r's transaction began, among the others
  pkg,          \* pkg[r]: the package r works on
  wish,         \* wish[r]: what r writes to that package's row
  was,          \* was[r]: that row as r has loaded it
  toClear,      \* toClear[r]: the rows r's UPDATE ... is_default=False has yet to lock
  clears,       \* clears[r]: the rows it has locked, and clears
  seen,         \* seen[r]: the subscription r has read as the current one
  packages,     \* packages[p]: the committed row of p
  subs,         \* subs[r]: the committed subscription r has made
  profile,      \* the login that provisioned the user, or None
  overlaps      \* history: the pairs of requests that ran at the same time

tables == <<packages, subs, profile>>
work == <<pkg, wish, was, toClear, clears, seen>>
vars == <<op, pc, begun, work, tables, overlaps>>

Ops == {"login", "change", "create", "update", "delete"}
Wishes == {"nothing", "insert", "insertDefault", "promote", "demote",
           "activate", "deactivate", "drop"}

\* active stands for trial and active (ACTIVE_STATES), suspended for the states
\* that keep the tenant out.
States == {"active", "suspended", "cancelled"}
RowStates == {"none", "live", "deleted"}
Row == [state : RowStates, active : BOOLEAN, default : BOOLEAN]
NoRow == [state |-> "none", active |-> FALSE, default |-> FALSE]
NoSub == [package |-> None, status |-> "none"]
Sub == {NoSub} \cup [package : Packages, status : States]
Seen == [sub : Requests \cup {None}, active : BOOLEAN]
Unseen == [sub |-> None, active |-> FALSE]

ASSUME SubscriptionRequests == IsFiniteSet(Requests) /\ None \notin Requests \cup Packages
ASSUME SubscriptionOps == OpsOf \in [Requests -> SUBSET Ops]
ASSUME SeededPackages == Free \in Initial /\ Initial \subseteq Packages
ASSUME ChangeStates == ChangeTo \subseteq States \ {"cancelled"}
ASSUME FallibleAssumption == Fallible \subseteq Requests

Running == {"profile", "package", "retry", "current", "snapshot", "clear",
            "count", "refs", "write", "commit"}
Finished == {"done", "rejected", "error"}

TypeOK ==
  /\ op \in [Requests -> Ops]
  /\ pc \in [Requests -> {"idle"} \cup Running \cup Finished]
  /\ begun \in [Requests -> 0..Cardinality(Requests)]
  /\ pkg \in [Requests -> Packages \cup {None}]
  /\ wish \in [Requests -> Wishes \cup States]
  /\ was \in [Requests -> Row]
  /\ toClear \in [Requests -> SUBSET Packages]
  /\ clears \in [Requests -> SUBSET Packages]
  /\ seen \in [Requests -> Seen]
  /\ packages \in [Packages -> Row]
  /\ subs \in [Requests -> Sub]
  /\ profile \in Requests \cup {None}
  /\ overlaps \in SUBSET SUBSET Requests

Init ==
  /\ op = [r \in Requests |-> "login"]
  /\ pc = [r \in Requests |-> "idle"]
  /\ begun = [r \in Requests |-> 0]
  /\ pkg = [r \in Requests |-> None]
  /\ wish = [r \in Requests |-> "nothing"]
  /\ was = [r \in Requests |-> NoRow]
  /\ toClear = [r \in Requests |-> {}]
  /\ clears = [r \in Requests |-> {}]
  /\ seen = [r \in Requests |-> Unseen]
  /\ packages = [p \in Packages |->
                   IF p \in Initial
                   THEN [state |-> "live", active |-> TRUE, default |-> p = Free]
                   ELSE NoRow]
  /\ subs = [r \in Requests |-> NoSub]
  /\ profile = None
  /\ overlaps = {}

Goto(r, place) == pc' = [pc EXCEPT ![r] = place]
Others(r) == {s \in Requests \ {r} : pc[s] \in Running}
Live == {p \in Packages : packages[p].state = "live"}

Subscribed == {r \in Requests : subs[r].status # "none"}
ActiveSubs == {r \in Requests : subs[r].status = "active"}

\* get_current_subscription: ORDER BY created_at DESC LIMIT 1.
Newest == {r \in Subscribed : \A s \in Subscribed : begun[s] <= begun[r]}

-----------------------------------------------------------------------------
(* Locks: whom r waits for.  A transaction holds what it has written until *)
(* it ends.                                                                *)

\* The package rows s has updated, inserted or deleted.
RowsHeld(s) ==
  (IF pc[s] \in {"clear", "write", "commit"} THEN clears[s] ELSE {})
  \cup (IF pc[s] = "commit" /\ op[s] \in {"create", "update", "delete"}
           /\ wish[s] # "nothing"
        THEN {pkg[s]} ELSE {})

\* The packages whose rows s's INSERT of a subscription has share-locked.
RowsShared(s) ==
  IF pc[s] = "commit" /\ op[s] \in {"login", "change"} THEN {pkg[s]} ELSE {}

Provisioning(s) == op[s] = "login" /\ pc[s] \in {"package", "write", "commit"}

\* Both cancel the subscription they have read.
SameCancelled(r, s) ==
  /\ op[s] = "change" /\ pc[s] = "commit"
  /\ seen[r].active /\ seen[s].active /\ seen[r].sub = seen[s].sub

\* What r's flush writes to the row of its package: nothing when the column had
\* the value already.
Effective(r) ==
  IF \/ wish[r] = "promote" /\ was[r].default
     \/ wish[r] = "demote" /\ ~was[r].default
     \/ wish[r] = "activate" /\ was[r].active
     \/ wish[r] = "deactivate" /\ ~was[r].active
  THEN "nothing" ELSE wish[r]

Blockers(r) ==
  {s \in Others(r) :
     \/ pc[r] = "profile" /\ Provisioning(s)
     \/ /\ pc[r] = "clear" /\ RowsHeld(s) \cap toClear[r] # {}
        /\ toClear[r] \subseteq UNION {RowsHeld(q) : q \in Others(r)}
     \/ /\ pc[r] = "write" /\ op[r] \in {"login", "change"}
        /\ \/ wish[s] = "drop" /\ pkg[r] \in RowsHeld(s)
           \/ op[r] = "change" /\ SameCancelled(r, s)
     \/ /\ pc[r] = "write" /\ op[r] \in {"create", "update", "delete"}
        /\ \/ Effective(r) # "nothing" /\ pkg[r] \in RowsHeld(s)
           \/ Effective(r) = "drop" /\ pkg[r] \in RowsShared(s)}

Deadlocked(r) ==
  Blockers(r) # {} /\ \E S \in SUBSET Requests :
    /\ r \in S
    /\ \A s \in S : Blockers(s) \cap S # {} /\ \E t \in S : s \in Blockers(t)

-----------------------------------------------------------------------------
(* Logins.                                                                 *)

\* The first statement of r's handler begins its transaction.
Arrive(r, o, place) ==
  /\ pc[r] = "idle" /\ o \in OpsOf[r]
  /\ op' = [op EXCEPT ![r] = o]
  /\ begun' = [begun EXCEPT ![r] = 1 + Cardinality({s \in Requests : pc[s] # "idle"})]
  /\ overlaps' = overlaps \cup {{r, s} : s \in Others(r)}
  /\ Goto(r, place)

ArriveLogin(r) ==
  /\ Arrive(r, "login", IF profile = None THEN "profile" ELSE "current")
  /\ UNCHANGED <<work, tables>>

\* Mutant: the key of profiles does not keep a second login out.
InsertProfileTwice(r) ==
  /\ pc[r] = "profile"
  /\ Goto(r, "package")
  /\ UNCHANGED <<op, begun, work, tables, overlaps>>

\* The INSERT of the tenant and the profile, or its IntegrityError.
InsertProfile(r) ==
  /\ pc[r] = "profile"
  /\ Blockers(r) = {}
  /\ Goto(r, IF profile = None THEN "package" ELSE "retry")
  /\ UNCHANGED <<op, begun, work, tables, overlaps>>

Defaults == {p \in Live : packages[p].default /\ packages[p].active}

\* get_default_package: scalar_one_or_none raises for two defaults, and without
\* one the package named DEFAULT_PACKAGE_NAME is taken.
DefaultPackage(r) ==
  /\ pc[r] = "package"
  /\ \/ /\ Cardinality(Defaults) <= 1
        /\ \E p \in IF Defaults # {} THEN Defaults ELSE {Free} \cap Live :
             pkg' = [pkg EXCEPT ![r] = p]
        /\ Goto(r, "write")
     \/ /\ Cardinality(Defaults) > 1 \/ (Defaults = {} /\ Free \notin Live)
        /\ Goto(r, "error")
        /\ UNCHANGED pkg
  /\ UNCHANGED <<op, begun, wish, was, toClear, clears, seen, tables, overlaps>>

\* Mutant: after an IntegrityError the provisioning starts over.
RetryForever(r) ==
  /\ pc[r] = "retry"
  /\ Goto(r, "profile")
  /\ UNCHANGED <<op, begun, work, tables, overlaps>>

\* After an IntegrityError: the rollback is done, the winner's profile is read.
Retry(r) ==
  /\ pc[r] = "retry"
  /\ Goto(r, IF profile = None THEN "error" ELSE "current")
  /\ UNCHANGED <<op, begun, work, tables, overlaps>>

\* ensure_subscription finds the current subscription (a profile always has
\* one: Provisioned), and assert_subscription_usable judges it.
Admit(r) ==
  /\ pc[r] = "current" /\ op[r] = "login"
  /\ \E s \in Newest :
       Goto(r, IF subs[s].status = "active" /\ packages[subs[s].package].active
               THEN "done" ELSE "rejected")
  /\ UNCHANGED <<op, begun, work, tables, overlaps>>

-----------------------------------------------------------------------------
(* An admin changes the tenant's package.                                  *)

\* get_user, and get_package in change_package.
ArriveChange(r) ==
  /\ Arrive(r, "change", "current")
  /\ profile # None
  /\ \E p \in Live, status \in ChangeTo :
       /\ pkg' = [pkg EXCEPT ![r] = p]
       /\ wish' = [wish EXCEPT ![r] = status]
  /\ UNCHANGED <<was, toClear, clears, seen, tables>>

\* Mutant: the current subscription is left as it is.
ReadCurrentUnended(r) ==
  /\ pc[r] = "current" /\ op[r] = "change"
  /\ seen' = [seen EXCEPT ![r] =
                [sub |-> CHOOSE s \in Newest : TRUE, active |-> FALSE]]
  /\ Goto(r, "write")
  /\ UNCHANGED <<op, begun, pkg, wish, was, toClear, clears, tables, overlaps>>

ReadCurrent(r) ==
  /\ pc[r] = "current" /\ op[r] = "change"
  /\ \E s \in Newest :
       seen' = [seen EXCEPT ![r] = [sub |-> s, active |-> subs[s].status = "active"]]
  /\ Goto(r, "write")
  /\ UNCHANGED <<op, begun, pkg, wish, was, toClear, clears, tables, overlaps>>

\* The INSERT of the subscription, whose foreign key may find no package.
Subscribe(r) ==
  /\ pc[r] = "write" /\ op[r] \in {"login", "change"}
  /\ Blockers(r) = {}
  /\ Goto(r, IF pkg[r] \in Live THEN "commit"
             ELSE IF op[r] = "login" THEN "retry" ELSE "error")
  /\ UNCHANGED <<op, begun, work, tables, overlaps>>

-----------------------------------------------------------------------------
(* An admin edits the packages.                                            *)

Wants(r, p, w) ==
  /\ pkg' = [pkg EXCEPT ![r] = p]
  /\ wish' = [wish EXCEPT ![r] = w]
  /\ was' = [was EXCEPT ![r] = packages[p]]
  /\ UNCHANGED <<toClear, clears, seen, tables>>

\* create_package, past the check of the name.
ArriveCreate(r) ==
  \E p \in Packages, w \in {"insert", "insertDefault"} :
    /\ packages[p].state = "none"
    /\ Arrive(r, "create", IF w = "insertDefault" THEN "snapshot" ELSE "write")
    /\ Wants(r, p, w)

\* Mutant: whatever an update changes, it clears the other rows' is_default.
ArriveUpdateClears(r) ==
  \E p \in Live, w \in {"promote", "demote", "activate", "deactivate"} :
    Arrive(r, "update", "snapshot") /\ Wants(r, p, w)

\* update_package, past get_package; one column is changed.
ArriveUpdate(r) ==
  \E p \in Live, w \in {"promote", "demote", "activate", "deactivate"} :
    /\ Arrive(r, "update", IF w = "promote" THEN "snapshot" ELSE "write")
    /\ Wants(r, p, w)

ArriveDelete(r) ==
  \E p \in Live : Arrive(r, "delete", "count") /\ Wants(r, p, "drop")

\* UPDATE packages SET is_default = false: the rows it will touch ...
Snapshot(r) ==
  /\ pc[r] = "snapshot"
  /\ toClear' = [toClear EXCEPT ![r] = Live \ {pkg[r]}]
  /\ Goto(r, IF Live \subseteq {pkg[r]} THEN "write" ELSE "clear")
  /\ UNCHANGED <<op, begun, pkg, wish, was, clears, seen, tables, overlaps>>

\* Mutant: the UPDATE does not run.
ClearNothing(r) ==
  /\ pc[r] = "clear"
  /\ toClear' = [toClear EXCEPT ![r] = {}]
  /\ Goto(r, "write")
  /\ UNCHANGED <<op, begun, pkg, wish, was, clears, seen, tables, overlaps>>

\* ... and the UPDATE itself, row by row in the order of its scan.
Clear(r) ==
  /\ pc[r] = "clear"
  /\ \E p \in toClear[r] \ UNION {RowsHeld(s) : s \in Others(r)} :
       /\ toClear' = [toClear EXCEPT ![r] = @ \ {p}]
       /\ clears' = [clears EXCEPT ![r] = @ \cup {p}]
       /\ Goto(r, IF toClear[r] = {p} THEN "write" ELSE "clear")
  /\ UNCHANGED <<op, begun, pkg, wish, was, seen, tables, overlaps>>

\* Mutant: every subscription but an active one counts.
CountInactive(r) ==
  /\ pc[r] = "count"
  /\ Goto(r, IF was[r].default
                \/ \E s \in Subscribed \ ActiveSubs : subs[s].package = pkg[r]
             THEN "rejected" ELSE "refs")
  /\ UNCHANGED <<op, begun, work, tables, overlaps>>

\* delete_package's refusals: active subscriptions, and the default package.
Count(r) ==
  /\ pc[r] = "count"
  /\ Goto(r, IF was[r].default \/ \E s \in ActiveSubs : subs[s].package = pkg[r]
             THEN "rejected" ELSE "refs")
  /\ UNCHANGED <<op, begun, work, tables, overlaps>>

\* A package that was ever subscribed to is deactivated, not deleted.
CountRefs(r) ==
  /\ pc[r] = "refs"
  /\ wish' = [wish EXCEPT ![r] =
                IF \E s \in Subscribed : subs[s].package = pkg[r]
                THEN "deactivate" ELSE "drop"]
  /\ Goto(r, "write")
  /\ UNCHANGED <<op, begun, pkg, was, toClear, clears, seen, tables, overlaps>>

\* Mutant: the foreign key does not restrict deletions.
FlushRejectedLoose(r) ==
  CASE Effective(r) \in {"insert", "insertDefault"} -> packages[pkg[r]].state # "none"
    [] Effective(r) \in {"drop", "nothing"} -> FALSE
    [] OTHER -> pkg[r] \notin Live

\* The unique name, the foreign key of subscriptions (RESTRICT), or an UPDATE
\* that finds no row (StaleDataError) end the flush.
FlushRejected(r) ==
  CASE Effective(r) \in {"insert", "insertDefault"} -> packages[pkg[r]].state # "none"
    [] Effective(r) = "drop"    -> \E s \in Subscribed : subs[s].package = pkg[r]
    [] Effective(r) = "nothing" -> FALSE
    [] OTHER                    -> pkg[r] \notin Live

WritePackage(r) ==
  /\ pc[r] = "write" /\ op[r] \in {"create", "update", "delete"}
  /\ Blockers(r) = {}
  /\ wish' = [wish EXCEPT ![r] = Effective(r)]
  /\ Goto(r, IF FlushRejected(r) THEN "error" ELSE "commit")
  /\ UNCHANGED <<op, begun, pkg, was, toClear, clears, seen, tables, overlaps>>

-----------------------------------------------------------------------------
(* How requests end.                                                       *)

\* The commit in get_or_create_profile: tenant, profile and subscription.
CommitLogin(r) ==
  /\ pc[r] = "commit" /\ op[r] = "login"
  /\ profile' = r
  /\ subs' = [subs EXCEPT ![r] = [package |-> pkg[r], status |-> "active"]]
  /\ Goto(r, "current")
  /\ UNCHANGED <<op, begun, work, packages, overlaps>>

\* Mutant: the ended subscription gets a state of another spelling.
CommitChangeMisspelt(r) ==
  /\ pc[r] = "commit" /\ op[r] = "change"
  /\ subs' = [s \in Requests |->
                IF s = r THEN [package |-> pkg[r], status |-> wish[r]]
                ELSE IF seen[r].active /\ s = seen[r].sub
                     THEN [subs[s] EXCEPT !.status = "canceled"]
                     ELSE subs[s]]
  /\ Goto(r, "done")
  /\ UNCHANGED <<op, begun, work, packages, profile, overlaps>>

\* The new subscription, and the end of the one that was active.
CommitChange(r) ==
  /\ pc[r] = "commit" /\ op[r] = "change"
  /\ subs' = [s \in Requests |->
                IF s = r THEN [package |-> pkg[r], status |-> wish[r]]
                ELSE IF seen[r].active /\ s = seen[r].sub
                     THEN [subs[s] EXCEPT !.status = "cancelled"]
                     ELSE subs[s]]
  /\ Goto(r, "done")
  /\ UNCHANGED <<op, begun, work, packages, profile, overlaps>>

Written(row, w) ==
  CASE w = "insert"        -> [state |-> "live", active |-> TRUE, default |-> FALSE]
    [] w = "insertDefault" -> [state |-> "live", active |-> TRUE, default |-> TRUE]
    [] w = "promote"       -> [row EXCEPT !.default = TRUE]
    [] w = "demote"        -> [row EXCEPT !.default = FALSE]
    [] w = "activate"      -> [row EXCEPT !.active = TRUE]
    [] w = "deactivate"    -> [row EXCEPT !.active = FALSE]
    [] w = "drop"          -> [row EXCEPT !.state = "deleted"]
    [] OTHER               -> row

CommitPackage(r) ==
  /\ pc[r] = "commit" /\ op[r] \in {"create", "update", "delete"}
  /\ packages' = [p \in Packages |->
                    IF p = pkg[r] THEN Written(packages[p], wish[r])
                    ELSE IF p \in clears[r] THEN Written(packages[p], "demote")
                    ELSE packages[p]]
  /\ Goto(r, "done")
  /\ UNCHANGED <<op, begun, work, subs, profile, overlaps>>

\* r ends without an answer and its transaction rolls back.
Break(r) ==
  /\ Goto(r, "error")
  /\ UNCHANGED <<op, begun, work, tables, overlaps>>

\* A step raises, or the worker dies.
Fail(r) == r \in Fallible /\ pc[r] \in Running /\ Break(r)

\* PostgreSQL aborts a transaction of a cycle of waiting ones.
Victim(r) == pc[r] \in Running /\ Deadlocked(r) /\ Break(r)

-----------------------------------------------------------------------------
Arrival(r) ==
  \/ ArriveLogin(r) \/ ArriveChange(r)
  \/ ArriveCreate(r) \/ ArriveUpdate(r) \/ ArriveDelete(r)

Step(r) ==
  \/ InsertProfile(r) \/ DefaultPackage(r) \/ Retry(r) \/ Admit(r)
  \/ ReadCurrent(r) \/ Subscribe(r)
  \/ Snapshot(r) \/ Clear(r) \/ Count(r) \/ CountRefs(r) \/ WritePackage(r)
  \/ CommitLogin(r) \/ CommitChange(r) \/ CommitPackage(r) \/ Victim(r)

Next == \E r \in Requests : Arrival(r) \/ Step(r) \/ Fail(r)

Spec == Init /\ [][Next]_vars

\* The event loop runs every handler on, and PostgreSQL grants freed locks.
FairSpec == Spec /\ \A r \in Requests : WF_vars(Step(r))
-----------------------------------------------------------------------------
(* Properties.                                                             *)

Overlapped(S) == \E c, d \in Requests :
                   c # d /\ op[c] \in S /\ op[d] \in S /\ {c, d} \in overlaps

\* "First login provisions tenant + profile + default subscription": of several
\* first logins at once exactly the one whose profile is there has subscribed.
Provisioned ==
  \A r \in Requests : op[r] = "login" => (r \in Subscribed <=> profile = r)

\* "so historical subscriptions/usage reports stay intact": whatever deletions
\* and changes race, every subscription's package is still there.
PackagesKept == \A r \in Subscribed : subs[r].package \in Live

\* "Ends the current subscription and starts a new one": unless two changes ran
\* at once, only the current subscription is active, and it is not an ended one.
OneSubscription ==
  Overlapped({"change"}) \/
    /\ ActiveSubs \subseteq Newest
    /\ \A r \in Newest : subs[r].status # "cancelled"

\* The same for all changes: the tenant's current subscription is never one that
\* a change has ended.
CurrentNotEnded == \A r \in Newest : subs[r].status # "cancelled"

\* Unless two edits ran at once there is at most one default package, so that
\* get_default_package's scalar_one_or_none does not raise.
OneDefault ==
  Overlapped({"create", "update"}) \/
    Cardinality({p \in Live : packages[p].default}) <= 1

\* "Package has active subscriptions; move them first" and "Cannot delete the
\* default package": a deletion that commits meets neither, but for what was
\* committed while it ran.
DeletionsSafe ==
  [][\A r \in Requests :
       op[r] = "delete" /\ pc[r] = "commit" /\ pc'[r] = "done" =>
         /\ \A s \in ActiveSubs : subs[s].package = pkg[r] => {r, s} \in overlaps
         /\ packages[pkg[r]].default =>
              \E s \in Requests : op[s] \in {"create", "update"} /\ {r, s} \in overlaps
    ]_vars

\* Only the edits that make a package the default can lock each other out, and
\* only with one another: whatever else waits, waits for one that will end.
VictimsClear ==
  [][\A r \in Requests :
       pc[r] \in Running /\ Deadlocked(r) /\ pc'[r] = "error" =>
         /\ wish[r] \in {"insertDefault", "promote"}
         /\ \E s \in Requests \ {r} :
              {r, s} \in overlaps /\ wish[s] \in {"insertDefault", "promote"}]_vars

\* The committed rows; of a package that is deleted only that it is.
Rows == [p \in Packages |-> IF p \in Live THEN packages[p]
                           ELSE [NoRow EXCEPT !.state = packages[p].state]]

\* The changes and edits that are answered.
Replied == {r \in Requests : op[r] # "login" /\ pc[r] = "done"}

Book == INSTANCE SubscriptionBook WITH rows <- Rows, current <- Newest, done <- Replied

\* "Ends the current subscription and starts a new one", "Hard-deletes a package
\* nobody ever subscribed to; otherwise deactivates it": seen through the committed
\* rows a request that is answered has done one thing at once, and what it has
\* read before still holds at its commit, but for what it met.
KeepsBook == Book!Spec

\* Every request is answered: no wait for a lock is endless.
Answered == \A r \in Requests : pc[r] \in Running ~> pc[r] \in Finished
=============================================================================
