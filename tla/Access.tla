------------------------------- MODULE Access -------------------------------
(***************************************************************************)
(* The way of a request into the service (app/api/deps.py): a database     *)
(* connection, the caller's key or session, the account, the rate limit,   *)
(* the request count, and then a handler that loads rows and commits.      *)
(*                                                                         *)
(* Every arrow between two places of `pc' is an await, so other requests   *)
(* fall between any two steps; the handler's statements up to its commit   *)
(* are the last step, where its rows are written and locked.  A behaviour  *)
(* starts in one of Scenes: the calls that clients make, the rows there    *)
(* are, the horizon of the clock, the size of the pool and the package's   *)
(* api_rate_limit (negative for none).  The callers that are rate limited  *)
(* share one tenant.                                                       *)
(***************************************************************************)
EXTENDS Accounts, RateWindow

CONSTANTS
  Requests,   \* the requests of a behaviour; one that creates a row names it
  Scenes      \* the settings a behaviour may start in

VARIABLES
  now,        \* the clock, in units the window is a multiple of
  scene,      \* the setting of this behaviour
  pc,         \* pc[r]: where r stands
  auth,       \* auth[r]: what r's authentication has loaded
  seen,       \* seen[r]: what r's handler has loaded
  admitted,   \* history: admitted[w]: the requests window w's key let through
  changes,    \* history: how many role changes have committed
  overlapped  \* history: two role changes of the behaviour overlapped

requestVars == <<pc, auth, seen, admitted, changes, overlapped>>
vars == <<accountVars, rateVars, now, scene, requestVars>>

KeyOps == {"use"}
UserOps == {"create", "list", "revoke", "rotate", "usage"}
AdminOps == {"logout", "setRoles", "createAdmin", "setStatus", "deleteUser"}
OpenOps == {"login", "bootstrap"}

\* A request that is running; it holds a connection in every place but the first.
HoldingOne == {"account", "limit", "count", "load", "reserve", "commit"}
Running == {"connect", "reserving"} \cup HoldingOne
Ended == {"done", "failed"}

\* What the schemas of the requests let through.
CallOK(s, c) ==
  /\ c.op \in UserOps \cup {"setStatus", "deleteUser"} => c.user \in Users
  /\ c.op = "create" => c.scopes \subseteq Scopes /\ c.expires \in Nat
  /\ c.op = "setStatus" => c.status \in {"active", "suspended"}
  /\ c.op \in {"createAdmin", "setRoles"} => c.roles \subseteq Roles
  /\ c.op = "bootstrap" => c.roles = {"SUPER_ADMIN"}
  /\ c.op = "setRoles" => c.admin \in DOMAIN s.admins

\* The rows there are at the start: no key is a replacement, a revoked one says
\* when, and if there are admins one of them is a SUPER_ADMIN.
ASSUME ScenesAssumption ==
  \A s \in Scenes :
    /\ TablesOK(s.profiles, s.keys, s.admins, s.sessions)
    /\ \A k \in DOMAIN s.keys : /\ s.keys[k].from = NoKey
                                /\ s.keys[k].status = "revoked" => s.keys[k].revoked
    /\ \A a \in DOMAIN s.admins : s.admins[a].roles = s.admins[a].given
    /\ DOMAIN s.admins = {} \/ \E a \in DOMAIN s.admins : "SUPER_ADMIN" \in s.admins[a].roles
    /\ Requests \cap (DOMAIN s.keys \cup DOMAIN s.admins \cup DOMAIN s.sessions) = {}
    /\ DOMAIN s.keys \cap DOMAIN s.sessions = {}
    /\ Users \cap (Requests \cup DOMAIN s.keys \cup DOMAIN s.sessions) = {}
    /\ s.horizon \in 0..LastTime /\ s.limit \in Int
    /\ \A r \in Requests : CallOK(s, s.calls[r])

Call(r) == scene.calls[r]
Nothing == [none |-> TRUE]

TypeOK ==
  /\ AccountsTypeOK /\ RateTypeOK
  /\ now \in 0..LastTime
  /\ pc \in [Requests -> {"idle"} \cup Running \cup Ended]
  /\ admitted \in [Indices -> SUBSET Requests]
  /\ changes \in Nat /\ overlapped \in BOOLEAN

Init ==
  /\ scene \in Scenes
  /\ profiles = scene.profiles /\ keys = scene.keys
  /\ admins = scene.admins /\ sessions = scene.sessions
  /\ gone = {}
  /\ RateInit
  /\ now = 0
  /\ pc = [r \in Requests |-> "idle"]
  /\ auth = [r \in Requests |-> Nothing]
  /\ seen = [r \in Requests |-> Nothing]
  /\ admitted = [w \in Indices |-> {}]
  /\ changes = 0 /\ overlapped = FALSE

Goto(r, place) == pc' = [pc EXCEPT ![r] = place]
Load(r, what) == seen' = [seen EXCEPT ![r] = what]
At(r, place, ops) == pc[r] = place /\ Call(r).op \in ops

-----------------------------------------------------------------------------
(* The connection pool.                                                    *)

Connections ==
  Cardinality({r \in Requests : pc[r] \in HoldingOne})
    + 2 * Cardinality({r \in Requests : pc[r] = "reserving"})

FreeConnection == Connections < scene.pool

\* What a request that waits for a connection waits with.
Waiting == {"connect", "reserve"}

\* Mutant: a request waits for a connection as long as it takes.
PoolTimeoutNever(r) == FALSE

\* The pool gives up on a request that has waited for its timeout.
PoolTimeout(r) ==
  /\ pc[r] \in Waiting
  /\ ~FreeConnection
  /\ Goto(r, "failed")
  /\ UNCHANGED <<accountVars, rateVars, now, scene, auth, seen, admitted, changes, overlapped>>

-----------------------------------------------------------------------------
(* get_principal, get_admin.                                               *)

\* A client calls; an admin's token is that of a session there is.
Arrive(r) ==
  /\ pc[r] = "idle"
  /\ Call(r).op \in AdminOps => Call(r).session \in DOMAIN sessions
  /\ Call(r).op # "none"
  /\ Goto(r, "connect")
  /\ UNCHANGED <<accountVars, rateVars, now, scene, auth, seen, admitted, changes, overlapped>>

\* authenticate_api_key up to the account.
Authenticate(r) ==
  /\ At(r, "connect", KeyOps)
  /\ FreeConnection
  /\ LET k == Call(r).key IN
       IF k \in DOMAIN keys /\ KeyAdmits(k, now)
       THEN Goto(r, "account") /\ auth' = [auth EXCEPT ![r] = keys[k]]
       ELSE Goto(r, "failed") /\ UNCHANGED auth
  /\ UNCHANGED <<accountVars, rateVars, now, scene, seen, admitted, changes, overlapped>>

UserOf(r) == IF Call(r).op \in KeyOps THEN auth[r].owner ELSE Call(r).user

\* The account, then the package (a package that is not usable: see Fail); the
\* window is chosen before the next await.
CheckAccount(r) ==
  /\ \/ At(r, "account", KeyOps)
     \/ At(r, "connect", UserOps) /\ FreeConnection
  /\ IF AccountAdmits(UserOf(r))
     THEN Goto(r, "limit") /\ Load(r, [window |-> WindowOf(now)])
     ELSE Goto(r, "failed") /\ UNCHANGED seen
  /\ UNCHANGED <<accountVars, rateVars, now, scene, auth, admitted, changes, overlapped>>

\* check_rate_limit.
Limit(r) ==
  /\ pc[r] = "limit"
  /\ scene.limit >= 0
  /\ LET w == seen[r].window IN
       /\ HitWindow(w, now)
       /\ IF WithinLimit(w, now, scene.limit)
          THEN /\ Goto(r, "count")
               /\ admitted' = [admitted EXCEPT ![w] = @ \cup {r}]
          ELSE Goto(r, "failed") /\ UNCHANGED admitted
  /\ UNCHANGED <<accountVars, apiHits, apiRow, now, scene, auth, seen, changes, overlapped>>

\* Redis does not answer: the limiter lets the request pass, or there is none.
LimitOpen(r) ==
  /\ pc[r] = "limit"
  /\ scene.redisFails \/ scene.limit < 0
  /\ Goto(r, "count")
  /\ UNCHANGED <<accountVars, rateVars, now, scene, auth, seen, admitted, changes, overlapped>>

\* record_api_request, which lets Redis's errors through (see Fail).
Count(r) ==
  /\ pc[r] = "count"
  /\ CountRequest
  /\ Goto(r, IF Call(r).op = "use" THEN "reserve" ELSE "load")
  /\ UNCHANGED <<accountVars, hits, apiRow, now, scene, auth, seen, admitted, changes, overlapped>>

Needs(op) == CASE op = "deleteUser" -> {"users.delete"}
               [] op = "setStatus"  -> {"users.write"}
               [] op = "logout"     -> {}
               [] OTHER             -> {"admin.manage"}

\* authenticate, and require_permission: the roles are those of now.
AuthenticateAdmin(r) ==
  /\ At(r, "connect", AdminOps)
  /\ FreeConnection
  /\ LET s     == Call(r).session
         a     == sessions[s].admin
         roles == admins[a].roles
     IN  IF SessionAdmits(s, now) /\ \A p \in Needs(Call(r).op) : RolesAllow(roles, p)
         THEN /\ Goto(r, "load")
              /\ auth' = [auth EXCEPT ![r] = [admin |-> a, roles |-> roles, changes |-> changes]]
         ELSE Goto(r, "failed") /\ UNCHANGED auth
  /\ UNCHANGED <<accountVars, rateVars, now, scene, seen, admitted, changes, overlapped>>

-----------------------------------------------------------------------------
(* A handler that works the pipeline calls quota_service: a second         *)
(* connection while the request holds its own.                             *)

Reserve(r) ==
  /\ pc[r] = "reserve"
  /\ FreeConnection
  /\ Goto(r, "reserving")
  /\ UNCHANGED <<accountVars, rateVars, now, scene, auth, seen, admitted, changes, overlapped>>

Reserved(r) ==
  /\ pc[r] = "reserving"
  /\ Goto(r, "commit")
  /\ UNCHANGED <<accountVars, rateVars, now, scene, auth, seen, admitted, changes, overlapped>>

-----------------------------------------------------------------------------
(* What the handlers load.                                                 *)

\* One of several endings of the loading step of a request.
Proceed(r, what) == Goto(r, "commit") /\ Load(r, what)
Refuse(r) == Goto(r, "failed") /\ UNCHANGED seen

LoadKeys(r) ==
  /\ At(r, "load", {"create", "list", "revoke", "rotate"})
  /\ LET c == Call(r) IN
       CASE c.op = "create" ->
              IF c.expires = Never \/ c.expires > now
              THEN Proceed(r, Nothing) ELSE Refuse(r)
         [] c.op = "list" -> Proceed(r, LapsedKeys(c.user, now))
         [] OTHER ->
              IF c.key \in DOMAIN keys /\ keys[c.key].owner = c.user
              THEN Proceed(r, keys[c.key]) ELSE Refuse(r)
  /\ UNCHANGED <<accountVars, rateVars, now, scene, auth, admitted, changes, overlapped>>

\* The usage page: the month's row, then Redis, which may not answer.
LoadUsage(r) ==
  /\ At(r, "load", {"usage"})
  /\ \E n \in {apiHits} \cup (IF scene.redisFails THEN {0} ELSE {}) :
       Proceed(r, [row |-> apiRow, n |-> n])
  /\ UNCHANGED <<accountVars, rateVars, now, scene, auth, admitted, changes, overlapped>>

\* Mutant: an admin may take the role from itself as well.
MayDemoteAnyone(r) == TRUE

\* You cannot remove your own SUPER_ADMIN role.
MayDemote(r) ==
  ~(/\ Call(r).admin = auth[r].admin
    /\ "SUPER_ADMIN" \notin Call(r).roles /\ "SUPER_ADMIN" \in auth[r].roles)

LoadAdmin(r) ==
  /\ At(r, "load", AdminOps)
  /\ LET c == Call(r) IN
       CASE c.op = "logout" -> Proceed(r, Nothing)
         [] c.op = "setRoles" ->
              IF MayDemote(r) THEN Proceed(r, [roles |-> admins[c.admin].roles]) ELSE Refuse(r)
         [] c.op = "createAdmin" ->
              IF NameTaken(c.name) THEN Refuse(r) ELSE Proceed(r, Nothing)
         [] OTHER -> Proceed(r, profiles[c.user])
  /\ UNCHANGED <<accountVars, rateVars, now, scene, auth, admitted, changes, overlapped>>

\* login checks the password; bootstrap_admin, when a worker starts, that there
\* is no admin.
LoadOpen(r) ==
  /\ At(r, "connect", OpenOps)
  /\ FreeConnection
  /\ IF (IF Call(r).op = "login" THEN NameTaken(Call(r).name) ELSE DOMAIN admins = {})
     THEN Proceed(r, Nothing) ELSE Refuse(r)
  /\ UNCHANGED <<accountVars, rateVars, now, scene, auth, admitted, changes, overlapped>>

-----------------------------------------------------------------------------
(* The end of a request: its writes, and get_db's commit.                  *)

CommitUse(r) ==
  /\ At(r, "commit", KeyOps)
  /\ MarkUsed(Call(r).key, auth[r])
  /\ UNCHANGED <<profiles, admins, sessions, gone, rateVars, changes, overlapped>>

CommitKeys(r) ==
  /\ At(r, "commit", {"create", "list", "revoke", "rotate"})
  /\ LET c == Call(r) IN
       \/ /\ c.op = "create"
          /\ keys' = WithKey(keys, r, FreshKey(c.user, c.scopes, c.expires, NoKey))
          /\ UNCHANGED gone
       \/ c.op = "list" /\ MarkExpired(seen[r]) /\ UNCHANGED gone
       \/ c.op = "revoke" /\ RevokeKey(c.key, seen[r])
       \/ c.op = "rotate" /\ RotateKey(r, c.key, seen[r])
  /\ UNCHANGED <<profiles, admins, sessions, rateVars, changes, overlapped>>

CommitUsage(r) ==
  /\ At(r, "commit", {"usage"})
  /\ SyncRow(seen[r].row, seen[r].n)
  /\ UNCHANGED <<accountVars, hits, apiHits, changes, overlapped>>

CommitUser(r) ==
  /\ At(r, "commit", {"setStatus", "deleteUser"})
  /\ LET c == Call(r) IN
       \/ c.op = "setStatus" /\ SetUserStatus(c.user, seen[r], c.status) /\ UNCHANGED gone
       \/ c.op = "deleteUser" /\ SoftDeleteUser(c.user, seen[r])
  /\ UNCHANGED <<keys, admins, sessions, rateVars, changes, overlapped>>

CommitSession(r) ==
  /\ At(r, "commit", {"login", "logout"})
  /\ LET c == Call(r) IN
       \/ /\ c.op = "login"
          /\ \E a \in DOMAIN admins : admins[a].name = c.name /\ NewSession(r, a, now)
          /\ UNCHANGED gone
       \/ c.op = "logout" /\ EndSession(c.session)
  /\ UNCHANGED <<profiles, keys, admins, rateVars, changes, overlapped>>

CommitAdmin(r) ==
  /\ At(r, "commit", {"createAdmin", "bootstrap", "setRoles"})
  /\ LET c == Call(r) IN
       \/ /\ c.op # "setRoles" /\ ~NameTaken(c.name)
          /\ NewAdmin(r, c.name, c.roles)
          /\ UNCHANGED <<changes, overlapped>>
       \/ /\ c.op = "setRoles" /\ ~RolesConflict(c.admin, seen[r].roles, c.roles)
          /\ SetAdminRoles(c.admin, seen[r].roles, c.roles)
          /\ changes' = changes + 1
          /\ overlapped' = (overlapped \/ changes # auth[r].changes)
  /\ UNCHANGED <<profiles, keys, sessions, gone, rateVars>>

\* The unique username, or the primary key of user_roles, is violated.
CommitConflicts(r) ==
  /\ At(r, "commit", {"createAdmin", "bootstrap", "setRoles"})
  /\ LET c == Call(r) IN
       IF c.op = "setRoles" THEN RolesConflict(c.admin, seen[r].roles, c.roles)
       ELSE NameTaken(c.name)
  /\ Goto(r, "failed")
  /\ UNCHANGED <<accountVars, rateVars, now, scene, auth, seen, admitted, changes, overlapped>>

Commit(r) ==
  /\ \/ CommitUse(r) \/ CommitKeys(r) \/ CommitUsage(r)
     \/ CommitUser(r) \/ CommitSession(r) \/ CommitAdmin(r)
  /\ Goto(r, "done")
  /\ UNCHANGED <<now, scene, auth, seen, admitted>>

\* Anything else raises: the database, Redis in record_api_request, an unusable
\* package, the handler itself.  The session rolls back, nothing is written.
Fail(r) ==
  /\ scene.failures
  /\ pc[r] \in Running
  /\ Goto(r, "failed")
  /\ UNCHANGED <<accountVars, rateVars, now, scene, auth, seen, admitted, changes, overlapped>>

Tick ==
  /\ now < scene.horizon
  /\ now' = now + 1
  /\ UNCHANGED <<accountVars, rateVars, scene, requestVars>>

-----------------------------------------------------------------------------
Step(r) ==
  \/ Authenticate(r) \/ CheckAccount(r) \/ Limit(r) \/ LimitOpen(r) \/ Count(r)
  \/ AuthenticateAdmin(r) \/ Reserve(r) \/ Reserved(r)
  \/ LoadKeys(r) \/ LoadUsage(r) \/ LoadAdmin(r) \/ LoadOpen(r)
  \/ Commit(r) \/ CommitConflicts(r) \/ PoolTimeout(r)

Next ==
  \/ \E r \in Requests : Arrive(r) \/ Step(r) \/ Fail(r)
  \/ Tick

\* The event loop resumes a request whose await is over, and every await ends:
\* a connection is handed out or the pool's timeout runs out.
Fairness == \A r \in Requests : WF_vars(Step(r))

Spec == Init /\ [][Next]_vars /\ Fairness
-----------------------------------------------------------------------------
(* Properties.                                                             *)

\* "Revocation is immediate": once a revocation, a rotation or a logout has
\* committed, no lookup admits the key or session again, whatever requests that
\* had loaded the row before still write to it.
WithdrawnStayOut ==
  /\ \A k \in gone \cap DOMAIN keys : ~KeyAdmits(k, now)
  /\ \A s \in gone \cap DOMAIN sessions : ~SessionAdmits(s, now)

\* A deleted user stays out: a status that an admin sets later, or had loaded
\* before the deletion, does not let the account in again.
DeletedStaysOut == \A u \in gone \cap Users : ~AccountAdmits(u)

\* "Revokes the key and returns a new one with the same name, scopes and
\* expiry": a replacement never outlives what it replaces nor can it do more, and
\* its predecessor is out, through every chain of concurrent rotations.
ReplacementsNeverOutlive ==
  \A k \in DOMAIN keys : keys[k].from # NoKey =>
    LET old == keys[keys[k].from] IN
    /\ keys[k].from \in gone
    /\ keys[k].expires = old.expires /\ keys[k].scopes = old.scopes

\* "You cannot remove your own SUPER_ADMIN role" keeps one SUPER_ADMIN, and an
\* admin has the roles it was last given: both as long as no two role changes
\* overlap, whatever becomes of a role between its holder's login and its use.
RolesAsGiven ==
  ~overlapped =>
    /\ DOMAIN admins = {} \/ \E a \in DOMAIN admins : "SUPER_ADMIN" \in admins[a].roles
    /\ \A a \in DOMAIN admins : admins[a].roles = admins[a].given

\* "Fixed window": a window's key lets the limit through, and requests that chose
\* the window and reach Redis after its key has died no more than the limit once
\* again in each window since.
WindowAdmits ==
  scene.limit >= 0 =>
    \A w \in 0..WindowOf(now) :
      Cardinality(admitted[w]) <= scene.limit * (WindowOf(now) + 1 - w)

\* No request waits for ever, though each may need a second connection while it
\* holds one: everyone waiting for everyone ends with the pool's timeout.
EveryRequestEnds == \A r \in Requests : pc[r] \in Running ~> pc[r] \in Ended
=============================================================================
