--------------------------- MODULE SubscriptionBook ---------------------------
(***************************************************************************)
(* What package_service promises of the packages and of one tenant's       *)
(* subscriptions, without transactions: a request that is answered has     *)
(* done its operation at once, against what is there at that moment, and   *)
(* one that fails has done nothing.  Where the service falls short of that,*)
(* the request has met another that ran at the same time.                  *)
(***************************************************************************)
CONSTANTS
  Requests, Packages, None,
  Free,       \* the package DEFAULT_PACKAGE_NAME names
  Initial,    \* the packages there are at first
  ChangeTo    \* the states an admin gives a new subscription

VARIABLES
  rows,       \* rows[p]: the package p
  subs,       \* subs[r]: the subscription r has made
  current,    \* the tenant's current subscription
  profile,    \* the login that provisioned the user
  op,         \* op[r]: what r does
  done,       \* the changes and edits that are answered
  overlaps    \* the pairs of requests that ran at the same time

vars == <<rows, subs, current, profile, op, done, overlaps>>

Edits == {"create", "update", "delete"}
Live == {p \in Packages : rows[p].state = "live"}
Defaults == {p \in Live : rows[p].default /\ rows[p].active}
Absent == [state |-> "none", active |-> FALSE, default |-> FALSE]
Gone == [state |-> "deleted", active |-> FALSE, default |-> FALSE]
NoSub == [package |-> None, status |-> "none"]

Init ==
  /\ rows = [p \in Packages |->
               IF p \in Initial
               THEN [state |-> "live", active |-> TRUE, default |-> p = Free]
               ELSE Absent]
  /\ subs = [r \in Requests |-> NoSub]
  /\ current = {}
  /\ profile = None
  /\ op = [r \in Requests |-> "login"]
  /\ done = {}
  /\ overlaps = {}

Met(r, kinds) ==
  \E s \in Requests \ {r} : op[s] \in kinds /\ {r, s} \in overlaps

Answer(r, kind) ==
  /\ op[r] = kind /\ r \notin done
  /\ done' = done \cup {r}
  /\ UNCHANGED <<profile, op, overlaps>>

\* What r does shows when it arrives, and is a login until then.
Arrive(r, o) ==
  /\ op[r] = "login" /\ subs[r] = NoSub
  /\ op' = [op EXCEPT ![r] = o]
  /\ overlaps \subseteq overlaps'
  /\ \A S \in overlaps' \ overlaps : r \in S
  /\ UNCHANGED <<rows, subs, current, profile, done>>

\* The first login subscribes to the default package.
Provision(r, p) ==
  /\ op[r] = "login" /\ profile = None
  /\ p \in Live
  /\ p \in Defaults \/ (p = Free /\ Defaults = {}) \/ Met(r, Edits)
  /\ profile' = r
  /\ subs' = [subs EXCEPT ![r] = [package |-> p, status |-> "active"]]
  /\ current' = {r}
  /\ UNCHANGED <<rows, op, done, overlaps>>

\* A change ends the current subscription, if that is active, and its own is
\* the current one from then on.
Change(r, p, status) ==
  /\ Answer(r, "change")
  /\ profile # None /\ subs[r] = NoSub
  /\ p \in Live
  /\ \E ended \in {{}} \cup {{s} : s \in Requests \ {r}} :
       /\ \A s \in ended : subs[s] # NoSub
       /\ ended = {s \in current : subs[s].status = "active"} \/ Met(r, {"change"})
       /\ subs' = [s \in Requests |->
                     IF s = r THEN [package |-> p, status |-> status]
                     ELSE IF s \in ended THEN [subs[s] EXCEPT !.status = "cancelled"]
                     ELSE subs[s]]
  /\ current' = {r} \/ (current' = current /\ Met(r, {"change"}))
  /\ UNCHANGED rows

\* The row of p is written, and the packages of C are no default any more.
Put(p, row, C) ==
  /\ rows' = [q \in Packages |->
                IF q = p THEN row
                ELSE IF q \in C THEN [rows[q] EXCEPT !.default = FALSE]
                ELSE rows[q]]
  /\ UNCHANGED <<subs, current>>

\* The packages that stop being the default when r makes p the default.
Demoted(r, p) ==
  {C \in SUBSET (Packages \ {p}) : Live \ {p} \subseteq C \/ Met(r, {"create"})}

Create(r, p) ==
  /\ Answer(r, "create")
  /\ rows[p] = Absent
  /\ \E default \in BOOLEAN, C \in SUBSET Packages :
       /\ C \in IF default THEN Demoted(r, p) ELSE {{}}
       /\ Put(p, [state |-> "live", active |-> TRUE, default |-> default], C)

Turned(row, w) ==
  CASE w = "promote"    -> [row EXCEPT !.default = TRUE]
    [] w = "demote"     -> [row EXCEPT !.default = FALSE]
    [] w = "activate"   -> [row EXCEPT !.active = TRUE]
    [] w = "deactivate" -> [row EXCEPT !.active = FALSE]

\* An update may be lost on the row of p, or find it deleted, if r met another edit.
Update(r, p, w) ==
  /\ Answer(r, "update")
  /\ \E C \in IF w = "promote" THEN Demoted(r, p) ELSE {{}} :
       \/ p \in Live /\ Put(p, Turned(rows[p], w), C)
       \/ Met(r, Edits) /\ Put(p, rows[p], C)

\* A package that no subscription ever named is deleted, another deactivated;
\* neither is the default or has an active subscription r has not met.  Of two
\* deletions that meet, both may be answered.
Delete(r, p) ==
  /\ Answer(r, "delete")
  /\ rows[p].default => Met(r, {"create", "update"})
  /\ \A s \in Requests :
       subs[s].package = p /\ subs[s].status = "active" => {r, s} \in overlaps
  /\ IF \E s \in Requests : subs[s].package = p
     THEN p \in Live /\ \/ Put(p, Turned(rows[p], "deactivate"), {})
                        \/ Met(r, Edits) /\ Put(p, rows[p], {})
     ELSE (p \in Live \/ (rows[p] = Gone /\ Met(r, {"delete"}))) /\ Put(p, Gone, {})

Next ==
  \E r \in Requests :
    \/ \E o \in {"login", "change"} \cup Edits : Arrive(r, o)
    \/ \E p \in Packages :
         \/ Provision(r, p)
         \/ \E status \in ChangeTo : Change(r, p, status)
         \/ Create(r, p)
         \/ \E w \in {"promote", "demote", "activate", "deactivate"} : Update(r, p, w)
         \/ Delete(r, p)

Spec == Init /\ [][Next]_vars
=============================================================================
