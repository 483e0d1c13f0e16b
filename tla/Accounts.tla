------------------------------ MODULE Accounts ------------------------------
(***************************************************************************)
(* The rows that decide whether a caller gets in: profiles with the status *)
(* of their tenant, API keys, admin users with their roles, and admin      *)
(* sessions (auth_service, api_key_service, admin_service).                *)
(*                                                                         *)
(* The variables are the committed rows.  An ORM session writes, at its    *)
(* commit, the columns it has changed of the rows it has loaded, so a      *)
(* write below names the columns it touches and leaves the others to       *)
(* whoever committed last.  There is one tenant per user.                  *)
(***************************************************************************)
EXTENDS Integers, FiniteSets

CONSTANTS
  Users,        \* the users of the platform
  Scopes,       \* ALL_SCOPES
  SessionTTL    \* how long an admin session lasts

VARIABLES
  profiles,     \* profiles[u]: u's profile, and the status of its tenant
  keys,         \* the rows of api_keys, by id
  admins,       \* the rows of admin_users with their user_roles, by id
  sessions,     \* the rows of admin_sessions, by id
  gone          \* history: the users, keys and sessions that a committed
                \* deletion, revocation or logout has withdrawn

accountVars == <<profiles, keys, admins, sessions, gone>>

Never == 0      \* expires_at of a key that does not expire
NoKey == "none" \* rotated_from_id of a key that replaces none

\* The permissions that the calls below ask for.
Permissions == {"admin.manage", "users.write", "users.delete"}
Roles == {"SUPER_ADMIN", "ADMIN", "MANAGER", "SUPPORT", "VIEWER"}
RolePermissions ==
  [r \in Roles |-> CASE r = "SUPER_ADMIN" -> Permissions
                     [] r = "ADMIN"       -> Permissions \ {"admin.manage"}
                     [] r = "VIEWER"      -> {}
                     [] OTHER             -> {"users.write"}]

ASSUME ScopesAssumption == Scopes # {}
ASSUME SessionTTLAssumption == SessionTTL \in Nat

Profile ==
  [status : {"active", "suspended", "deleted"}, deleted : BOOLEAN, tenant : {"active", "suspended"}]
ApiKey(ids) ==
  [owner : Users, status : {"active", "revoked", "expired"}, revoked : BOOLEAN, used : BOOLEAN,
   expires : Nat, scopes : (SUBSET Scopes) \ {{}}, from : ids \cup {NoKey}]
AdminSession(ids) == [admin : ids, expires : Nat, revoked : BOOLEAN]
AdminUserOK(row) ==
  DOMAIN row = {"name", "roles", "given"} /\ row.roles \subseteq Roles /\ row.given \subseteq Roles

TablesOK(people, keyRows, users, logins) ==
  /\ people \in [Users -> Profile]
  /\ \A k \in DOMAIN keyRows : keyRows[k] \in ApiKey(DOMAIN keyRows)
  /\ \A a \in DOMAIN users : AdminUserOK(users[a])
  /\ \A s \in DOMAIN logins : logins[s] \in AdminSession(DOMAIN users)

AccountsTypeOK == TablesOK(profiles, keys, admins, sessions)

-----------------------------------------------------------------------------
(* Who is admitted.                                                        *)

\* Mutant: only the status column is looked at.
AccountAdmitsByStatus(u) ==
  /\ profiles[u].status \notin {"deleted", "suspended"}
  /\ profiles[u].tenant # "suspended"

\* _assert_active
AccountAdmits(u) ==
  /\ profiles[u].status # "deleted" /\ ~profiles[u].deleted
  /\ profiles[u].status # "suspended" /\ profiles[u].tenant # "suspended"

PastExpiry(k, t) == keys[k].expires # Never /\ keys[k].expires < t

\* authenticate_api_key, before it looks at the account.  The "expired" mark it
\* makes is lost: the exception that follows rolls it back.
KeyAdmits(k, t) ==
  /\ keys[k].status # "revoked" /\ ~keys[k].revoked
  /\ ~PastExpiry(k, t)

\* decode_admin_token and authenticate, before the permissions; nothing in the
\* code ever clears is_active.
SessionAdmits(s, t) == sessions[s].expires > t /\ ~sessions[s].revoked

RolesAllow(roles, permission) ==
  \E r \in roles : permission \in RolePermissions[r]

-----------------------------------------------------------------------------
(* Writes of API keys.                                                     *)

WithKey(table, k, row) ==
  [x \in DOMAIN table \cup {k} |-> IF x = k THEN row ELSE table[x]]

\* Mutant: the row that was loaded is written back as a whole.
MarkUsedWhole(k, loaded) == keys' = [keys EXCEPT ![k] = [loaded EXCEPT !.used = TRUE]]

MarkUsed(k, loaded) == keys' = [keys EXCEPT ![k].used = TRUE]

\* The lazy expiry of list_keys: the keys the call saw active and past expiry.
LapsedKeys(u, t) ==
  {k \in DOMAIN keys : keys[k].owner = u /\ keys[k].status = "active" /\ PastExpiry(k, t)}

MarkExpired(lapsed) ==
  keys' = [k \in DOMAIN keys |->
             IF k \in lapsed THEN [keys[k] EXCEPT !.status = "expired"] ELSE keys[k]]

\* revoke_key, of a key loaded as the row `loaded'.
Revoked(k, loaded) ==
  IF loaded.status # "revoked"
  THEN [keys EXCEPT ![k] = [@ EXCEPT !.status = "revoked", !.revoked = TRUE]]
  ELSE keys

\* Mutant: a key asked for without scopes has none.
ValidScopesAsAsked(asked) == asked

\* validate_scopes of known scopes: none at all stands for every scope.
ValidScopes(asked) == IF asked = {} THEN Scopes ELSE asked

\* create_key.
FreshKey(u, asked, expires, from) ==
  [owner |-> u, status |-> "active", revoked |-> FALSE, used |-> FALSE,
   expires |-> expires, scopes |-> ValidScopes(asked), from |-> from]

RevokeKey(k, loaded) ==
  /\ keys' = Revoked(k, loaded)
  /\ gone' = gone \cup {k}

\* Mutant: the replacement starts a life of its own.
RotateKeyForever(id, k, loaded) ==
  /\ keys' = WithKey(Revoked(k, loaded), id, FreshKey(loaded.owner, loaded.scopes, Never, k))
  /\ gone' = gone \cup {k}

\* rotate_key: the old key is revoked and its replacement is created, in one
\* transaction, whatever state the old key was in.
RotateKey(id, k, loaded) ==
  /\ keys' = WithKey(Revoked(k, loaded), id,
                     FreshKey(loaded.owner, loaded.scopes, loaded.expires, k))
  /\ gone' = gone \cup {k}

-----------------------------------------------------------------------------
(* Writes of profiles.                                                     *)

\* The columns of u's profile and tenant that differ from the loaded ones.
Written(loaded, new, row) ==
  [status  |-> IF new.status # loaded.status THEN new.status ELSE row.status,
   deleted |-> IF new.deleted # loaded.deleted THEN new.deleted ELSE row.deleted,
   tenant  |-> IF new.tenant # loaded.tenant THEN new.tenant ELSE row.tenant]

WriteProfile(u, loaded, new) ==
  profiles' = [profiles EXCEPT ![u] = Written(loaded, new, profiles[u])]

SetUserStatus(u, loaded, status) ==
  WriteProfile(u, loaded, [loaded EXCEPT !.status = status, !.tenant = status])

SoftDeleteUser(u, loaded) ==
  /\ WriteProfile(u, loaded, [status |-> "deleted", deleted |-> TRUE, tenant |-> "suspended"])
  /\ gone' = gone \cup {u}

-----------------------------------------------------------------------------
(* Writes of admin users and sessions.                                     *)

NameTaken(name) == \E a \in DOMAIN admins : admins[a].name = name

\* create_admin's INSERTs; `given' is history, the roles last asked for.
NewAdmin(id, name, roles) ==
  admins' = WithKey(admins, id, [name |-> name, roles |-> roles, given |-> roles])

\* set_admin_roles deletes the rows it has loaded and inserts the new ones; a
\* role that another change has inserted meanwhile violates the primary key.
RolesConflict(a, loaded, roles) == (admins[a].roles \ loaded) \cap roles # {}

SetAdminRoles(a, loaded, roles) ==
  admins' = [admins EXCEPT ![a].roles = (@ \ loaded) \cup roles, ![a].given = roles]

NewSession(id, a, t) ==
  sessions' = WithKey(sessions, id, [admin |-> a, expires |-> t + SessionTTL, revoked |-> FALSE])

\* logout
EndSession(s) ==
  /\ sessions' = [sessions EXCEPT ![s].revoked = TRUE]
  /\ gone' = gone \cup {s}
=============================================================================
