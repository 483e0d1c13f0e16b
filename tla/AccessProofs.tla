---------------------------- MODULE AccessProofs ----------------------------
(***************************************************************************)
(* Theorems about Access for every set of requests, users and scopes and   *)
(* every setting: what was withdrawn stays out, replacements of keys, the  *)
(* roles of admins, and the rate limit within a window.                    *)
(***************************************************************************)
EXTENDS Access, FiniteSetTheorems, TLAPS

ControlOK ==
  /\ scene \in Scenes
  /\ now \in 0..LastTime
  /\ pc \in [Requests -> {"idle"} \cup Running \cup Ended]
  /\ seen = [r \in Requests |-> seen[r]]
  /\ apiHits \in Nat /\ apiRow \in Nat

\* A row that a request has added is named by it, and it is done by then.
IdsOK ==
  /\ DOMAIN keys \subseteq Requests \cup DOMAIN scene.keys
  /\ DOMAIN sessions \subseteq Requests \cup DOMAIN scene.sessions
  /\ \A r \in Requests \cap DOMAIN keys : pc[r] = "done" /\ Call(r).op \in {"create", "rotate"}
  /\ \A r \in Requests \cap DOMAIN sessions : pc[r] = "done" /\ Call(r).op = "login"
  /\ gone \subseteq Users \cup DOMAIN keys \cup DOMAIN sessions

\* The column revoked_at is never cleared, whatever becomes of the status.
KeysOK ==
  \A k \in DOMAIN keys :
    /\ keys[k].status = "revoked" \/ k \in gone => keys[k].revoked
    /\ keys[k].from # NoKey =>
         /\ keys[k].from \in gone /\ keys[k].from \in DOMAIN keys
         /\ keys[k].expires = keys[keys[k].from].expires
         /\ keys[k].scopes = keys[keys[k].from].scopes

SessionsOK == \A s \in gone \cap DOMAIN sessions : sessions[s].revoked
ProfilesOK == \A u \in gone \cap Users : profiles[u].deleted

\* What a handler has loaded still agrees with the row in the columns that nobody
\* changes; revoked and deleted rows remain so.
SeesOK(r) ==
  /\ pc[r] = "limit" => seen[r].window \in Indices /\ seen[r].window <= WindowOf(now)
  /\ pc[r] \in {"reserve", "reserving"} => Call(r).op = "use"
  /\ At(r, "commit", {"usage"}) => seen[r].row \in Nat /\ seen[r].n \in Nat
  /\ At(r, "commit", {"revoke", "rotate"}) =>
       /\ Call(r).key \in DOMAIN keys
       /\ seen[r].owner = keys[Call(r).key].owner
       /\ seen[r].expires = keys[Call(r).key].expires
       /\ seen[r].scopes = keys[Call(r).key].scopes
       /\ seen[r].status = "revoked" => keys[Call(r).key].revoked
  /\ At(r, "commit", {"setStatus", "deleteUser"}) =>
       seen[r] \in Profile /\ (seen[r].deleted => profiles[Call(r).user].deleted)
  /\ Call(r).op \in AdminOps /\ pc[r] # "idle" => Call(r).session \in DOMAIN sessions

AccessInv ==
  /\ ControlOK /\ AccountsTypeOK /\ IdsOK /\ KeysOK /\ SessionsOK /\ ProfilesOK
  /\ \A r \in Requests : SeesOK(r)

-----------------------------------------------------------------------------
(* Steps that write no account rows.                                       *)

\* A step of request r.
Turn(r) ==
  /\ pc[r] \notin Ended
  /\ pc' = [pc EXCEPT ![r] = pc'[r]] /\ pc'[r] \in Running \cup Ended
  /\ seen' = [x \in Requests |-> IF x = r THEN seen'[r] ELSE seen[x]]
  /\ UNCHANGED <<scene, now>>

\* What no step undoes.
RowsKeep ==
  /\ DOMAIN keys \subseteq DOMAIN keys'
  /\ \A k \in DOMAIN keys :
       /\ keys'[k].owner = keys[k].owner /\ keys'[k].expires = keys[k].expires
       /\ keys'[k].scopes = keys[k].scopes /\ keys'[k].from = keys[k].from
       /\ keys[k].revoked => keys'[k].revoked
  /\ DOMAIN sessions \subseteq DOMAIN sessions'
  /\ \A u \in Users : profiles[u].deleted => profiles'[u].deleted

\* What the assumption says of the setting of a behaviour.
LEMMA SettingOK ==
  ASSUME ControlOK
  PROVE  /\ \A r \in Requests : CallOK(scene, Call(r))
         /\ Requests \cap (DOMAIN scene.keys \cup DOMAIN scene.sessions) = {}
         /\ DOMAIN scene.keys \cap DOMAIN scene.sessions = {}
         /\ Users \cap (Requests \cup DOMAIN scene.keys \cup DOMAIN scene.sessions) = {}
         /\ scene.horizon \in 0..LastTime /\ scene.limit \in Int
BY ScenesAssumption DEF ControlOK, Call

LEMMA TurnControl ==
  ASSUME AccessInv, NEW r \in Requests, Turn(r), apiHits' \in Nat, apiRow' \in Nat
  PROVE  /\ ControlOK'
         /\ pc'[r] \in Running \cup Ended
         /\ \A x \in Requests : x # r => pc'[x] = pc[x] /\ seen'[x] = seen[x]
         /\ \A x : Call(x)' = Call(x)
<1>1. pc \in [Requests -> {"idle"} \cup Running \cup Ended]
  BY DEF AccessInv, ControlOK
<1>2. pc' \in [Requests -> {"idle"} \cup Running \cup Ended]
  BY <1>1 DEF Turn
<1>3. seen' = [x \in Requests |-> seen'[x]]
  BY DEF Turn
<1>4. \A x \in Requests : x # r => pc'[x] = pc[x] /\ seen'[x] = seen[x]
  BY <1>1 DEF Turn
<1>5. QED
  BY <1>2, <1>3, <1>4 DEF Turn, AccessInv, ControlOK, Call

LEMMA OthersSee ==
  ASSUME AccessInv, NEW r \in Requests, Turn(r), RowsKeep, SeesOK(r)',
         apiHits' \in Nat, apiRow' \in Nat
  PROVE  \A x \in Requests : SeesOK(x)'
<1>1. SUFFICES ASSUME NEW x \in Requests, x # r
               PROVE  SeesOK(x)'
  OBVIOUS
<1>2. pc'[x] = pc[x] /\ seen'[x] = seen[x] /\ Call(x)' = Call(x) /\ now' = now
  BY <1>1, TurnControl DEF Turn
<1>3. SeesOK(x) /\ CallOK(scene, Call(x))
  BY SettingOK DEF AccessInv
<1>4. At(x, "commit", {"setStatus", "deleteUser"}) => Call(x).user \in Users
  BY <1>3 DEF CallOK, At
<1>5. QED
  BY <1>2, <1>3, <1>4 DEF SeesOK, At, RowsKeep, WindowOf

LEMMA QuietKeeps ==
  ASSUME AccessInv, NEW r \in Requests, Turn(r), UNCHANGED accountVars, SeesOK(r)',
         apiHits' \in Nat, apiRow' \in Nat
  PROVE  AccessInv'
<1>1. RowsKeep
  BY DEF RowsKeep, accountVars
<1>2. \A x \in Requests : SeesOK(x)'
  BY <1>1, OthersSee
<1>3. AccountsTypeOK' /\ KeysOK' /\ SessionsOK' /\ ProfilesOK'
  BY DEF AccessInv, AccountsTypeOK, KeysOK, SessionsOK, ProfilesOK, accountVars
<1>4. IdsOK'
  BY TurnControl DEF AccessInv, IdsOK, accountVars, Turn, Ended
<1>5. QED
  BY <1>2, <1>3, <1>4, TurnControl DEF AccessInv

LEMMA Windows ==
  ASSUME NEW t \in Nat
  PROVE  /\ WindowOf(t) \in Nat
         /\ WindowOf(t) * Window <= t /\ t < (WindowOf(t) + 1) * Window
BY WindowAssumption DEF WindowOf

LEMMA LaterWindows ==
  ASSUME NEW s \in Nat, NEW t \in Nat, s <= t
  PROVE  WindowOf(s) <= WindowOf(t)
<1>1. /\ WindowOf(s) \in Nat /\ WindowOf(t) \in Nat /\ Window \in Nat \ {0}
      /\ WindowOf(s) * Window <= s /\ t < (WindowOf(t) + 1) * Window
  BY Windows, WindowAssumption
<1>2. SUFFICES ASSUME WindowOf(s) >= WindowOf(t) + 1
               PROVE  FALSE
  BY <1>1
<1>3. \A m \in Nat, n \in Nat : m >= n => m * Window >= n * Window
  BY <1>1
<1>4. QED
  BY <1>1, <1>2, <1>3

LEMMA NowIndex ==
  ASSUME now \in 0..LastTime
  PROVE  WindowOf(now) \in Indices
BY LaterWindows, Windows, LastTimeAssumption DEF Indices, WindowOf

\* The steps before a handler's end, and those that end a request without one.
LEMMA QuietSteps ==
  ASSUME AccessInv, NEW r \in Requests,
         \/ PoolTimeout(r) \/ Arrive(r) \/ Authenticate(r) \/ CheckAccount(r) \/ Limit(r)
         \/ LimitOpen(r) \/ Count(r) \/ AuthenticateAdmin(r) \/ Reserve(r) \/ Reserved(r)
         \/ LoadKeys(r) \/ LoadUsage(r) \/ LoadAdmin(r) \/ LoadOpen(r)
         \/ CommitConflicts(r) \/ Fail(r)
  PROVE  AccessInv' /\ Turn(r)
<1> DEFINE Quiet == UNCHANGED accountVars /\ apiHits' \in Nat /\ apiRow' \in Nat
<1>1. /\ pc \in [Requests -> {"idle"} \cup Running \cup Ended]
      /\ seen = [x \in Requests |-> seen[x]]
      /\ apiHits \in Nat /\ apiRow \in Nat /\ now \in 0..LastTime
      /\ SeesOK(r) /\ CallOK(scene, Call(r))
  BY SettingOK DEF AccessInv, ControlOK
<1>2. CASE PoolTimeout(r) \/ CommitConflicts(r) \/ Fail(r)
  <2>1. Turn(r) /\ Quiet /\ pc'[r] = "failed" /\ pc[r] # "idle"
    BY <1>1, <1>2 DEF PoolTimeout, CommitConflicts, Fail, Goto, Turn, rateVars, Ended, Running,
       HoldingOne, Waiting, At
  <2>2. SeesOK(r)'
    BY <1>1, <2>1 DEF SeesOK, At, Turn, Call, accountVars
  <2>3. QED
    BY <2>1, <2>2, QuietKeeps
<1>3. CASE Arrive(r)
  <2>1. Turn(r) /\ Quiet /\ pc'[r] = "connect"
    BY <1>1, <1>3 DEF Arrive, Goto, Turn, rateVars, Ended, Running
  <2>2. SeesOK(r)'
    BY <1>1, <1>3, <2>1 DEF Arrive, SeesOK, At, Turn, Call, accountVars
  <2>3. QED
    BY <2>1, <2>2, QuietKeeps
<1>4. CASE Authenticate(r) \/ AuthenticateAdmin(r)
  <2>1. Turn(r) /\ Quiet /\ pc'[r] \in {"account", "load", "failed"} /\ pc[r] # "idle"
    BY <1>1, <1>4 DEF Authenticate, AuthenticateAdmin, Goto, Turn, rateVars, Ended, Running,
       HoldingOne, At
  <2>2. SeesOK(r)'
    BY <1>1, <2>1 DEF SeesOK, At, Turn, Call, accountVars
  <2>3. QED
    BY <2>1, <2>2, QuietKeeps
<1>5. CASE CheckAccount(r)
  <2>1. Turn(r) /\ Quiet /\ pc[r] # "idle"
        /\ \/ pc'[r] = "failed"
           \/ pc'[r] = "limit" /\ seen'[r].window = WindowOf(now)
    BY <1>1, <1>5 DEF CheckAccount, Goto, Load, Turn, rateVars, Ended, Running, HoldingOne, At
  <2>2. WindowOf(now) \in Indices /\ WindowOf(now) <= WindowOf(now)
    BY <1>1, NowIndex DEF Indices
  <2>3. SeesOK(r)'
    BY <1>1, <2>1, <2>2 DEF SeesOK, At, Turn, Call, accountVars, WindowOf, Indices
  <2>4. QED
    BY <2>1, <2>3, QuietKeeps
<1>6. CASE Limit(r) \/ LimitOpen(r) \/ Count(r) \/ Reserve(r)
  <2>1. /\ Turn(r) /\ Quiet /\ pc'[r] \in {"count", "load", "reserve", "reserving", "failed"}
        /\ pc[r] # "idle"
    BY <1>1, <1>6 DEF Limit, LimitOpen, Count, Reserve, CountRequest, Goto, Turn, rateVars, Ended,
       Running, HoldingOne, At
  <2>2. pc'[r] \in {"reserve", "reserving"} => Call(r).op = "use"
    BY <1>1, <1>6 DEF Limit, LimitOpen, Count, Reserve, Goto, SeesOK
  <2>3. SeesOK(r)'
    BY <1>1, <2>1, <2>2 DEF SeesOK, At, Turn, Call, accountVars
  <2>4. QED
    BY <2>1, <2>3, QuietKeeps
<1>7. CASE Reserved(r)
  <2>1. Turn(r) /\ Quiet /\ pc'[r] = "commit" /\ Call(r).op = "use"
    BY <1>1, <1>7 DEF Reserved, Goto, Turn, rateVars, Ended, Running, HoldingOne, SeesOK
  <2>2. SeesOK(r)'
    BY <1>1, <2>1 DEF SeesOK, At, Turn, Call, accountVars, AdminOps
  <2>3. QED
    BY <2>1, <2>2, QuietKeeps
<1>8. CASE LoadKeys(r)
  <2>1. /\ Turn(r) /\ Quiet /\ pc'[r] \in {"commit", "failed"}
        /\ Call(r).op \in {"create", "list", "revoke", "rotate"}
    BY <1>1, <1>8 DEF LoadKeys, Proceed, Refuse, Load, Goto, Turn, rateVars, Ended, Running,
       HoldingOne, At
  <2>2. pc'[r] = "commit" /\ Call(r).op \in {"revoke", "rotate"} =>
          Call(r).key \in DOMAIN keys /\ seen'[r] = keys[Call(r).key]
    BY <1>1, <1>8 DEF LoadKeys, Proceed, Refuse, Load, Goto, At
  <2>3. \A k \in DOMAIN keys : keys[k].status = "revoked" => keys[k].revoked
    BY DEF AccessInv, KeysOK
  <2>4. SeesOK(r)'
    BY <1>1, <2>1, <2>2, <2>3 DEF SeesOK, At, Turn, Call, accountVars, AdminOps
  <2>5. QED
    BY <2>1, <2>4, QuietKeeps
<1>9. CASE LoadUsage(r)
  <2>1. /\ Turn(r) /\ Quiet /\ pc'[r] = "commit" /\ Call(r).op = "usage"
        /\ seen'[r].row \in Nat /\ seen'[r].n \in Nat
    BY <1>1, <1>9 DEF LoadUsage, Proceed, Load, Goto, Turn, rateVars, Ended, Running, HoldingOne, At
  <2>2. SeesOK(r)'
    BY <1>1, <2>1 DEF SeesOK, At, Turn, Call, accountVars, AdminOps
  <2>3. QED
    BY <2>1, <2>2, QuietKeeps
<1>10. CASE LoadAdmin(r)
  <2>1. /\ Turn(r) /\ Quiet /\ pc'[r] \in {"commit", "failed"} /\ pc[r] # "idle"
        /\ Call(r).op \in AdminOps
    BY <1>1, <1>10 DEF LoadAdmin, Proceed, Refuse, Load, Goto, Turn, rateVars, Ended, Running,
       HoldingOne, At
  <2>2. pc'[r] = "commit" /\ Call(r).op \in {"setStatus", "deleteUser"} =>
          seen'[r] = profiles[Call(r).user]
    BY <1>1, <1>10 DEF LoadAdmin, Proceed, Refuse, Load, Goto, At
  <2>3. Call(r).op \in {"setStatus", "deleteUser"} => profiles[Call(r).user] \in Profile
    BY <1>1 DEF CallOK, AccessInv, AccountsTypeOK, TablesOK
  <2>4. SeesOK(r)'
    BY <1>1, <2>1, <2>2, <2>3 DEF SeesOK, At, Turn, Call, accountVars, AdminOps
  <2>5. QED
    BY <2>1, <2>4, QuietKeeps
<1>11. CASE LoadOpen(r)
  <2>1. /\ Turn(r) /\ Quiet /\ pc'[r] \in {"commit", "failed"} /\ Call(r).op \in OpenOps
    BY <1>1, <1>11 DEF LoadOpen, Proceed, Refuse, Load, Goto, Turn, rateVars, Ended, Running,
       HoldingOne, At
  <2>2. SeesOK(r)'
    BY <1>1, <2>1 DEF SeesOK, At, Turn, Call, accountVars, AdminOps, OpenOps
  <2>3. QED
    BY <2>1, <2>2, QuietKeeps
<1>12. QED
  BY <1>2, <1>3, <1>4, <1>5, <1>6, <1>7, <1>8, <1>9, <1>10, <1>11

-----------------------------------------------------------------------------
(* Commits.                                                                *)

\* The ids of keys, sessions and users are distinct, and r's is free.
LEMMA IdsApart ==
  ASSUME AccessInv
  PROVE  /\ DOMAIN keys \cap DOMAIN sessions = {}
         /\ Users \cap (DOMAIN keys \cup DOMAIN sessions) = {}
         /\ \A r \in Requests : pc[r] # "done" =>
              r \notin DOMAIN keys /\ r \notin DOMAIN sessions /\ r \notin gone
<1>1. ControlOK /\ IdsOK
  BY DEF AccessInv
<1>2. DOMAIN keys \cap DOMAIN sessions = {}
  BY <1>1, SettingOK DEF IdsOK
<1>3. Users \cap (DOMAIN keys \cup DOMAIN sessions) = {}
  BY <1>1, SettingOK DEF IdsOK
<1>4. QED
  BY <1>1, <1>2, <1>3, SettingOK DEF IdsOK

\* What every write of keys by request r's commit comes to.
Edits(r) ==
  /\ DOMAIN keys \subseteq DOMAIN keys' /\ DOMAIN keys' \subseteq DOMAIN keys \cup {r}
  /\ \A k \in DOMAIN keys :
       /\ keys'[k] \in ApiKey(DOMAIN keys)
       /\ keys'[k].owner = keys[k].owner /\ keys'[k].expires = keys[k].expires
       /\ keys'[k].scopes = keys[k].scopes /\ keys'[k].from = keys[k].from
       /\ keys[k].revoked \/ keys'[k].status = "revoked" => keys'[k].revoked
  /\ gone \subseteq gone'
  /\ \A k \in gone' : k \in gone \/ (k \in DOMAIN keys /\ keys'[k].revoked)
  /\ r \in DOMAIN keys' =>
       /\ Call(r).op \in {"create", "rotate"}
       /\ keys'[r] \in ApiKey(DOMAIN keys)
       /\ keys'[r].status = "active"
       /\ keys'[r].from # NoKey => /\ keys'[r].from \in gone'
                                   /\ keys'[r].expires = keys[keys'[r].from].expires
                                   /\ keys'[r].scopes = keys[keys'[r].from].scopes
  /\ UNCHANGED <<profiles, admins, sessions>>

LEMMA EditsKeep ==
  ASSUME AccessInv, NEW r \in Requests, Turn(r), pc[r] = "commit", pc'[r] = "done", Edits(r),
         UNCHANGED <<apiHits, apiRow>>
  PROVE  AccessInv'
<1>1. apiHits' \in Nat /\ apiRow' \in Nat
  BY DEF AccessInv, ControlOK
<1>2. /\ ControlOK' /\ ControlOK
      /\ \A x \in Requests : x # r => pc'[x] = pc[x] /\ seen'[x] = seen[x]
      /\ \A x : Call(x)' = Call(x)
  BY <1>1, TurnControl DEF AccessInv
<1>3. RowsKeep
  BY DEF Edits, RowsKeep
<1>4. SeesOK(r)'
  BY <1>2 DEF AccessInv, SeesOK, At, Edits
<1>5. \A x \in Requests : SeesOK(x)'
  BY <1>1, <1>3, <1>4, OthersSee
<1>6. r \notin DOMAIN keys /\ r \notin DOMAIN sessions /\ r \notin gone
  BY IdsApart DEF Turn, Ended
<1>7. AccountsTypeOK'
  <2>1. \A k \in DOMAIN keys' : keys'[k] \in ApiKey(DOMAIN keys)
    BY DEF Edits
  <2>2. \A row \in ApiKey(DOMAIN keys) : row \in ApiKey(DOMAIN keys')
    BY DEF Edits, ApiKey
  <2>3. QED
    BY <2>1, <2>2 DEF Edits, AccessInv, AccountsTypeOK, TablesOK
<1>8. IdsOK'
  BY <1>2, <1>6 DEF AccessInv, IdsOK, Edits, Turn, Ended
<1>9. KeysOK'
  <2>1. ASSUME NEW k \in DOMAIN keys', keys'[k].status = "revoked" \/ k \in gone'
        PROVE  keys'[k].revoked
    BY <1>6, <2>1 DEF AccessInv, KeysOK, Edits
  <2>2. ASSUME NEW k \in DOMAIN keys', keys'[k].from # NoKey
        PROVE  /\ keys'[k].from \in gone' /\ keys'[k].from \in DOMAIN keys'
               /\ keys'[k].expires = keys'[keys'[k].from].expires
               /\ keys'[k].scopes = keys'[keys'[k].from].scopes
    <3>1. CASE k \in DOMAIN keys
      BY <2>2, <3>1 DEF AccessInv, KeysOK, Edits
    <3>2. CASE k = r
      <4>1. keys'[r].from \in DOMAIN keys
        BY <2>2, <3>2 DEF Edits, ApiKey
      <4>2. QED
        BY <2>2, <3>2, <4>1 DEF Edits
    <3>3. QED
      BY <3>1, <3>2 DEF Edits
  <2>3. QED
    BY <2>1, <2>2 DEF KeysOK
<1>10. SessionsOK' /\ ProfilesOK'
  BY IdsApart DEF AccessInv, SessionsOK, ProfilesOK, Edits
<1>11. QED
  BY <1>2, <1>5, <1>7, <1>8, <1>9, <1>10 DEF AccessInv

LEMMA FreshRow ==
  ASSUME NEW ids, NEW u \in Users, NEW asked \in SUBSET Scopes, NEW expires \in Nat,
         NEW from \in ids \cup {NoKey}
  PROVE  /\ FreshKey(u, asked, expires, from) \in ApiKey(ids)
         /\ FreshKey(u, asked, expires, from).status = "active"
         /\ FreshKey(u, asked, expires, from).from = from
         /\ FreshKey(u, asked, expires, from).expires = expires
         /\ asked # {} => FreshKey(u, asked, expires, from).scopes = asked
<1>1. ValidScopes(asked) \in (SUBSET Scopes) \ {{}} /\ (asked # {} => ValidScopes(asked) = asked)
  BY ScopesAssumption DEF ValidScopes
<1>2. QED
  BY <1>1 DEF FreshKey, ApiKey

LEMMA KeySteps ==
  ASSUME AccessInv, NEW r \in Requests, CommitUse(r) \/ CommitKeys(r), Goto(r, "done"),
         UNCHANGED <<now, scene, seen>>
  PROVE  AccessInv' /\ Turn(r)
<1>1. Turn(r) /\ pc[r] = "commit" /\ pc'[r] = "done"
  BY DEF CommitUse, CommitKeys, Goto, Turn, At, Ended, AccessInv, ControlOK
<1>2. UNCHANGED <<apiHits, apiRow, profiles, admins, sessions>>
  BY DEF CommitUse, CommitKeys, rateVars
<1>3. /\ \A k \in DOMAIN keys : keys[k] \in ApiKey(DOMAIN keys)
      /\ \A k \in DOMAIN keys : keys[k].status = "revoked" => keys[k].revoked
      /\ SeesOK(r) /\ CallOK(scene, Call(r))
  BY SettingOK DEF AccessInv, AccountsTypeOK, TablesOK, KeysOK
<1>4. r \notin DOMAIN keys
  BY <1>1, IdsApart
<1>5. CASE CommitUse(r)
  <2>1. /\ DOMAIN keys' = DOMAIN keys /\ gone' = gone
        /\ \A k \in DOMAIN keys : keys'[k] = keys[k] \/ keys'[k] = [keys[k] EXCEPT !.used = TRUE]
    BY <1>5 DEF CommitUse, MarkUsed
  <2>2. ASSUME NEW k \in DOMAIN keys
        PROVE  /\ keys'[k] \in ApiKey(DOMAIN keys)
               /\ keys'[k].owner = keys[k].owner /\ keys'[k].expires = keys[k].expires
               /\ keys'[k].scopes = keys[k].scopes /\ keys'[k].from = keys[k].from
               /\ keys[k].revoked => keys'[k].revoked
               /\ keys'[k].status = keys[k].status
    <3>1. keys[k] \in ApiKey(DOMAIN keys)
      BY <1>3
    <3>2. CASE keys'[k] = keys[k]
      BY <3>1, <3>2
    <3>3. CASE keys'[k] = [keys[k] EXCEPT !.used = TRUE]
      BY <3>1, <3>3 DEF ApiKey
    <3>4. QED
      BY <2>1, <3>2, <3>3
  <2>3. Edits(r)
    BY <1>2, <1>3, <1>4, <2>1, <2>2 DEF Edits
  <2>4. QED
    BY <1>1, <1>2, <2>3, EditsKeep
<1>6. CASE At(r, "commit", {"list"}) /\ MarkExpired(seen[r]) /\ UNCHANGED gone
  <2>1. /\ DOMAIN keys' = DOMAIN keys /\ gone' = gone
        /\ \A k \in DOMAIN keys : keys'[k] = keys[k] \/ keys'[k] = [keys[k] EXCEPT !.status = "expired"]
    BY <1>6 DEF MarkExpired
  <2>2. ASSUME NEW k \in DOMAIN keys
        PROVE  /\ keys'[k] \in ApiKey(DOMAIN keys)
               /\ keys'[k].owner = keys[k].owner /\ keys'[k].expires = keys[k].expires
               /\ keys'[k].scopes = keys[k].scopes /\ keys'[k].from = keys[k].from
               /\ keys[k].revoked => keys'[k].revoked
               /\ keys'[k].status = "revoked" => keys[k].status = "revoked"
    <3>1. keys[k] \in ApiKey(DOMAIN keys)
      BY <1>3
    <3>2. CASE keys'[k] = keys[k]
      BY <3>1, <3>2
    <3>3. CASE keys'[k] = [keys[k] EXCEPT !.status = "expired"]
      BY <3>1, <3>3 DEF ApiKey
    <3>4. QED
      BY <2>1, <3>2, <3>3
  <2>3. Edits(r)
    BY <1>2, <1>3, <1>4, <2>1, <2>2 DEF Edits
  <2>4. QED
    BY <1>1, <1>2, <2>3, EditsKeep
<1>7. CASE /\ At(r, "commit", {"create"})
           /\ keys' = WithKey(keys, r, FreshKey(Call(r).user, Call(r).scopes, Call(r).expires, NoKey))
           /\ UNCHANGED gone
  <2> DEFINE fresh == FreshKey(Call(r).user, Call(r).scopes, Call(r).expires, NoKey)
  <2>1. fresh \in ApiKey(DOMAIN keys) /\ fresh.status = "active" /\ fresh.from = NoKey
    <3>1. /\ Call(r).user \in Users /\ Call(r).scopes \in SUBSET Scopes /\ Call(r).expires \in Nat
          /\ NoKey \in DOMAIN keys \cup {NoKey}
      BY <1>3, <1>7 DEF CallOK, At, UserOps
    <3>2. QED
      BY <3>1, FreshRow
  <2>2. /\ DOMAIN keys' = DOMAIN keys \cup {r} /\ keys'[r] = fresh
        /\ \A k \in DOMAIN keys : keys'[k] = keys[k]
    BY <1>4, <1>7 DEF WithKey
  <2>3. Edits(r)
    BY <1>2, <1>3, <1>7, <2>1, <2>2 DEF Edits, At
  <2>4. QED
    BY <1>1, <1>2, <2>3, EditsKeep
<1>8. ASSUME NEW k, k = Call(r).key, At(r, "commit", {"revoke", "rotate"})
      PROVE  /\ k \in DOMAIN keys /\ DOMAIN Revoked(k, seen[r]) = DOMAIN keys
             /\ \A x \in DOMAIN keys :
                  /\ Revoked(k, seen[r])[x] \in ApiKey(DOMAIN keys)
                  /\ Revoked(k, seen[r])[x].owner = keys[x].owner
                  /\ Revoked(k, seen[r])[x].expires = keys[x].expires
                  /\ Revoked(k, seen[r])[x].scopes = keys[x].scopes
                  /\ Revoked(k, seen[r])[x].from = keys[x].from
                  /\ keys[x].revoked \/ x = k \/ Revoked(k, seen[r])[x].status = "revoked" =>
                       Revoked(k, seen[r])[x].revoked
  <2>1. k \in DOMAIN keys /\ (seen[r].status = "revoked" => keys[k].revoked)
    BY <1>3, <1>8 DEF SeesOK
  <2>2. DOMAIN Revoked(k, seen[r]) = DOMAIN keys
    BY DEF Revoked
  <2>3. /\ \A x \in DOMAIN keys : x # k => Revoked(k, seen[r])[x] = keys[x]
        /\ seen[r].status = "revoked" => Revoked(k, seen[r])[k] = keys[k]
        /\ seen[r].status # "revoked" =>
             Revoked(k, seen[r])[k] = [keys[k] EXCEPT !.status = "revoked", !.revoked = TRUE]
    BY <2>1 DEF Revoked
  <2>4. ASSUME NEW x \in DOMAIN keys
        PROVE  /\ Revoked(k, seen[r])[x] \in ApiKey(DOMAIN keys)
               /\ Revoked(k, seen[r])[x].owner = keys[x].owner
               /\ Revoked(k, seen[r])[x].expires = keys[x].expires
               /\ Revoked(k, seen[r])[x].scopes = keys[x].scopes
               /\ Revoked(k, seen[r])[x].from = keys[x].from
               /\ keys[x].revoked \/ x = k \/ Revoked(k, seen[r])[x].status = "revoked" =>
                    Revoked(k, seen[r])[x].revoked
    <3>1. keys[x] \in ApiKey(DOMAIN keys) /\ (keys[x].status = "revoked" => keys[x].revoked)
      BY <1>3
    <3>2. CASE x # k
      BY <2>3, <3>1, <3>2
    <3>3. CASE x = k /\ seen[r].status = "revoked"
      BY <2>1, <2>3, <3>1, <3>3
    <3>4. CASE x = k /\ seen[r].status # "revoked"
      <4>1. Revoked(k, seen[r])[x] = [keys[x] EXCEPT !.status = "revoked", !.revoked = TRUE]
        BY <2>3, <3>4
      <4>2. QED
        BY <3>1, <4>1 DEF ApiKey
    <3>5. QED
      BY <3>2, <3>3, <3>4
  <2>5. QED
    BY <2>1, <2>2, <2>4
<1>9. CASE At(r, "commit", {"revoke"}) /\ RevokeKey(Call(r).key, seen[r])
  <2>1. keys' = Revoked(Call(r).key, seen[r]) /\ gone' = gone \cup {Call(r).key}
    BY <1>9 DEF RevokeKey
  <2>2. At(r, "commit", {"revoke", "rotate"})
    BY <1>9 DEF At
  <2>3. Edits(r)
    BY <1>2, <1>4, <1>8, <2>1, <2>2 DEF Edits
  <2>4. QED
    BY <1>1, <1>2, <2>3, EditsKeep
<1>10. CASE At(r, "commit", {"rotate"}) /\ RotateKey(r, Call(r).key, seen[r])
  <2> DEFINE k == Call(r).key
             fresh == FreshKey(seen[r].owner, seen[r].scopes, seen[r].expires, k)
  <2>1. keys' = WithKey(Revoked(k, seen[r]), r, fresh) /\ gone' = gone \cup {k}
    BY <1>10 DEF RotateKey
  <2>2. At(r, "commit", {"revoke", "rotate"}) /\ Call(r).op = "rotate"
    BY <1>10 DEF At
  <2>3. /\ k \in DOMAIN keys /\ seen[r].owner = keys[k].owner
        /\ seen[r].expires = keys[k].expires /\ seen[r].scopes = keys[k].scopes
    BY <1>3, <2>2 DEF SeesOK
  <2>4. /\ fresh \in ApiKey(DOMAIN keys) /\ fresh.status = "active" /\ fresh.from = k
        /\ fresh.expires = keys[k].expires /\ fresh.scopes = keys[k].scopes
    <3>1. keys[k] \in ApiKey(DOMAIN keys)
      BY <1>3, <2>3
    <3>2. /\ keys[k].owner \in Users /\ keys[k].scopes \in SUBSET Scopes /\ keys[k].scopes # {}
          /\ keys[k].expires \in Nat /\ k \in DOMAIN keys \cup {NoKey}
      BY <2>3, <3>1 DEF ApiKey
    <3>3. ValidScopes(seen[r].scopes) = keys[k].scopes
      BY <2>3, <3>2 DEF ValidScopes
    <3>4. QED
      BY <2>3, <3>2, <3>3 DEF FreshKey, ApiKey
  <2>5. /\ DOMAIN keys' = DOMAIN keys \cup {r} /\ keys'[r] = fresh
        /\ \A x \in DOMAIN keys : keys'[x] = Revoked(k, seen[r])[x]
    BY <1>4, <1>8, <2>1, <2>2 DEF WithKey
  <2>6. Edits(r)
    BY <1>2, <1>8, <2>1, <2>2, <2>4, <2>5 DEF Edits
  <2>7. QED
    BY <1>1, <1>2, <2>6, EditsKeep
<1>11. QED
  BY <1>5, <1>6, <1>7, <1>9, <1>10 DEF CommitKeys, At

\* What every other commit comes to.
Others(r) ==
  /\ profiles' \in [Users -> Profile]
  /\ \A u \in Users : profiles[u].deleted => profiles'[u].deleted
  /\ DOMAIN admins \subseteq DOMAIN admins'
  /\ \A a \in DOMAIN admins' : AdminUserOK(admins'[a])
  /\ DOMAIN sessions \subseteq DOMAIN sessions' /\ DOMAIN sessions' \subseteq DOMAIN sessions \cup {r}
  /\ \A s \in DOMAIN sessions' : sessions'[s] \in AdminSession(DOMAIN admins)
  /\ \A s \in DOMAIN sessions : sessions[s].revoked => sessions'[s].revoked
  /\ r \in DOMAIN sessions' => Call(r).op = "login"
  /\ gone \subseteq gone'
  /\ \A x \in gone' : \/ x \in gone
                      \/ x \in Users /\ profiles'[x].deleted
                      \/ x \in DOMAIN sessions /\ sessions'[x].revoked
  /\ keys' = keys

LEMMA OthersKeep ==
  ASSUME AccessInv, NEW r \in Requests, Turn(r), pc[r] = "commit", pc'[r] = "done", Others(r),
         apiHits' \in Nat, apiRow' \in Nat
  PROVE  AccessInv'
<1>1. /\ ControlOK' /\ ControlOK
      /\ \A x \in Requests : x # r => pc'[x] = pc[x] /\ seen'[x] = seen[x]
      /\ \A x : Call(x)' = Call(x)
  BY TurnControl DEF AccessInv
<1>2. RowsKeep
  BY DEF Others, RowsKeep
<1>3. SeesOK(r)'
  BY <1>1 DEF AccessInv, SeesOK, At, Others
<1>4. \A x \in Requests : SeesOK(x)'
  BY <1>2, <1>3, OthersSee
<1>5. r \notin DOMAIN keys /\ r \notin DOMAIN sessions /\ r \notin gone
  BY IdsApart DEF Turn, Ended
<1>6. AccountsTypeOK'
  <2>1. \A s \in DOMAIN sessions' : sessions'[s] \in AdminSession(DOMAIN admins')
    BY DEF Others, AdminSession
  <2>2. QED
    BY <2>1 DEF Others, AccessInv, AccountsTypeOK, TablesOK
<1>7. IdsOK'
  BY <1>1, <1>5 DEF AccessInv, IdsOK, Others, Turn, Ended
<1>8. KeysOK'
  BY IdsApart DEF AccessInv, KeysOK, Others
<1>9. SessionsOK'
  BY <1>5, IdsApart, SettingOK DEF AccessInv, SessionsOK, Others
<1>10. ProfilesOK'
  BY IdsApart DEF AccessInv, ProfilesOK, Others
<1>11. QED
  BY <1>1, <1>4, <1>6, <1>7, <1>8, <1>9, <1>10 DEF AccessInv

LEMMA OtherSteps ==
  ASSUME AccessInv, NEW r \in Requests, Goto(r, "done"), UNCHANGED <<now, scene, seen>>,
         CommitUsage(r) \/ CommitUser(r) \/ CommitSession(r) \/ CommitAdmin(r)
  PROVE  AccessInv' /\ Turn(r)
<1>1. Turn(r) /\ pc[r] = "commit" /\ pc'[r] = "done"
  BY DEF CommitUsage, CommitUser, CommitSession, CommitAdmin, Goto, Turn, At, Ended, AccessInv, ControlOK
<1>2. /\ profiles \in [Users -> Profile]
      /\ \A a \in DOMAIN admins : AdminUserOK(admins[a])
      /\ \A s \in DOMAIN sessions : sessions[s] \in AdminSession(DOMAIN admins)
      /\ SeesOK(r) /\ CallOK(scene, Call(r)) /\ apiHits \in Nat /\ apiRow \in Nat /\ now \in Nat
  BY SettingOK, LastTimeAssumption DEF AccessInv, AccountsTypeOK, TablesOK, ControlOK
<1>3. r \notin DOMAIN keys /\ r \notin DOMAIN sessions
  BY <1>1, IdsApart
<1>4. CASE CommitUsage(r)
  <2>1. Others(r) /\ apiHits' = apiHits
    BY <1>2, <1>3, <1>4 DEF CommitUsage, Others, accountVars
  <2>2. apiRow' \in Nat
    BY <1>2, <1>4 DEF CommitUsage, SyncRow, SyncedCount, SeesOK
  <2>3. QED
    BY <1>1, <1>2, <2>1, <2>2, OthersKeep
<1>5. CASE CommitUser(r)
  <2> DEFINE u == Call(r).user
             row == profiles[u]
  <2>1. u \in Users /\ row \in Profile /\ seen[r] \in Profile /\ (seen[r].deleted => row.deleted)
        /\ UNCHANGED <<keys, admins, sessions, apiHits, apiRow>>
    BY <1>2, <1>5 DEF CommitUser, CallOK, At, SeesOK, rateVars
  <2>2. CASE Call(r).op = "setStatus" /\ SetUserStatus(u, seen[r], Call(r).status) /\ UNCHANGED gone
    <3> DEFINE new == [seen[r] EXCEPT !.status = Call(r).status, !.tenant = Call(r).status]
    <3>1. new \in Profile /\ new.deleted = seen[r].deleted
      BY <1>2, <2>1, <2>2 DEF CallOK, Profile
    <3>2. Written(seen[r], new, row) \in Profile /\ Written(seen[r], new, row).deleted = row.deleted
      BY <2>1, <3>1 DEF Written, Profile
    <3>3. profiles' = [profiles EXCEPT ![u] = Written(seen[r], new, row)]
      BY <2>2 DEF SetUserStatus, WriteProfile
    <3>4. profiles' \in [Users -> Profile] /\ \A x \in Users : profiles'[x].deleted = profiles[x].deleted
      BY <1>2, <2>1, <3>2, <3>3
    <3>5. Others(r)
      BY <1>2, <1>3, <2>1, <2>2, <3>4 DEF Others
    <3>6. QED
      BY <1>1, <1>2, <2>1, <3>5, OthersKeep
  <2>3. CASE Call(r).op = "deleteUser" /\ SoftDeleteUser(u, seen[r])
    <3> DEFINE new == [status |-> "deleted", deleted |-> TRUE, tenant |-> "suspended"]
    <3>1. Written(seen[r], new, row) \in Profile /\ Written(seen[r], new, row).deleted = TRUE
      BY <2>1 DEF Written, Profile
    <3>2. profiles' = [profiles EXCEPT ![u] = Written(seen[r], new, row)] /\ gone' = gone \cup {u}
      BY <2>3 DEF SoftDeleteUser, WriteProfile
    <3>3. /\ profiles' \in [Users -> Profile] /\ profiles'[u].deleted
          /\ \A x \in Users : profiles[x].deleted => profiles'[x].deleted
      BY <1>2, <2>1, <3>1, <3>2
    <3>4. Others(r)
      BY <1>2, <1>3, <2>1, <3>2, <3>3 DEF Others
    <3>5. QED
      BY <1>1, <1>2, <2>1, <3>4, OthersKeep
  <2>4. QED
    BY <1>5, <2>2, <2>3 DEF CommitUser
<1>6. CASE CommitSession(r)
  <2>1. UNCHANGED <<profiles, keys, admins, apiHits, apiRow>>
    BY <1>6 DEF CommitSession, rateVars
  <2>2. ASSUME NEW a \in DOMAIN admins, Call(r).op = "login", NewSession(r, a, now), UNCHANGED gone
        PROVE  AccessInv'
    <3> DEFINE login == [admin |-> a, expires |-> now + SessionTTL, revoked |-> FALSE]
    <3>1. login \in AdminSession(DOMAIN admins)
      BY <1>2, SessionTTLAssumption DEF AdminSession
    <3>2. /\ DOMAIN sessions' = DOMAIN sessions \cup {r} /\ sessions'[r] = login
          /\ \A s \in DOMAIN sessions : sessions'[s] = sessions[s]
      BY <1>3, <2>2 DEF NewSession, WithKey
    <3>3. Others(r)
      BY <1>2, <2>1, <2>2, <3>1, <3>2 DEF Others
    <3>4. QED
      BY <1>1, <1>2, <2>1, <3>3, OthersKeep
  <2>3. CASE Call(r).op = "logout" /\ EndSession(Call(r).session)
    <3>1. /\ DOMAIN sessions' = DOMAIN sessions /\ gone' = gone \cup {Call(r).session}
          /\ \A s \in DOMAIN sessions : sessions'[s] = IF s = Call(r).session
               THEN [sessions[s] EXCEPT !.revoked = TRUE] ELSE sessions[s]
      BY <2>3 DEF EndSession
    <3>2. Call(r).session \in DOMAIN sessions
      BY <1>1, <1>2, <2>3 DEF SeesOK, AdminOps
    <3>3. \A s \in DOMAIN sessions : [sessions[s] EXCEPT !.revoked = TRUE] \in AdminSession(DOMAIN admins)
      BY <1>2 DEF AdminSession
    <3>4. \A s \in DOMAIN sessions : [sessions[s] EXCEPT !.revoked = TRUE].revoked
      BY <1>2 DEF AdminSession
    <3>5. Others(r)
      BY <1>2, <1>3, <2>1, <3>1, <3>2, <3>3, <3>4 DEF Others
    <3>6. QED
      BY <1>1, <1>2, <2>1, <3>5, OthersKeep
  <2>4. QED
    BY <1>1, <1>6, <2>2, <2>3 DEF CommitSession
<1>7. CASE CommitAdmin(r)
  <2>1. UNCHANGED <<profiles, keys, sessions, gone, apiHits, apiRow>>
    BY <1>7 DEF CommitAdmin, rateVars
  <2>2. Call(r).roles \subseteq Roles
    BY <1>2, <1>7 DEF CommitAdmin, CallOK, At, Roles
  <2>3. /\ DOMAIN admins \subseteq DOMAIN admins'
        /\ \A a \in DOMAIN admins' : AdminUserOK(admins'[a])
    <3>1. CASE NewAdmin(r, Call(r).name, Call(r).roles)
      <4> DEFINE user == [name |-> Call(r).name, roles |-> Call(r).roles, given |-> Call(r).roles]
      <4>1. AdminUserOK(user)
        BY <2>2 DEF AdminUserOK
      <4>2. /\ DOMAIN admins' = DOMAIN admins \cup {r}
            /\ \A a \in DOMAIN admins' : admins'[a] = IF a = r THEN user ELSE admins[a]
        BY <3>1 DEF NewAdmin, WithKey
      <4>3. QED
        BY <1>2, <4>1, <4>2
    <3>2. CASE SetAdminRoles(Call(r).admin, seen[r].roles, Call(r).roles)
      <4> DEFINE a == Call(r).admin
                 after == (admins[a].roles \ seen[r].roles) \cup Call(r).roles
      <4>1. /\ DOMAIN admins' = DOMAIN admins
            /\ \A x \in DOMAIN admins : x # a => admins'[x] = admins[x]
            /\ a \in DOMAIN admins =>
                 admins'[a] = [admins[a] EXCEPT !.roles = after, !.given = Call(r).roles]
        BY <3>2 DEF SetAdminRoles
      <4>2. a \in DOMAIN admins => AdminUserOK([admins[a] EXCEPT !.roles = after, !.given = Call(r).roles])
        BY <1>2, <2>2 DEF AdminUserOK
      <4>3. QED
        BY <1>2, <4>1, <4>2
    <3>3. QED
      BY <1>7, <3>1, <3>2 DEF CommitAdmin
  <2>4. Others(r)
    BY <1>2, <1>3, <2>1, <2>3 DEF Others
  <2>5. QED
    BY <1>1, <1>2, <2>1, <2>4, OthersKeep
<1>8. QED
  BY <1>1, <1>4, <1>5, <1>6, <1>7

-----------------------------------------------------------------------------
(* Accounts: the invariant and what follows from it.                       *)

LEMMA AccessStart ==
  ASSUME Init
  PROVE  AccessInv
<1>1. /\ scene \in Scenes /\ profiles = scene.profiles /\ keys = scene.keys
      /\ admins = scene.admins /\ sessions = scene.sessions /\ gone = {}
      /\ apiHits = 0 /\ apiRow = 0 /\ now = 0
      /\ pc = [r \in Requests |-> "idle"] /\ seen = [r \in Requests |-> Nothing]
  BY DEF Init, RateInit
<1>2. ControlOK
  BY <1>1, LastTimeAssumption DEF ControlOK
<1>3. AccountsTypeOK
  BY <1>1, ScenesAssumption DEF AccountsTypeOK
<1>4. IdsOK
  BY <1>1, <1>2, SettingOK DEF IdsOK
<1>5. KeysOK
  BY <1>1, ScenesAssumption DEF KeysOK
<1>6. SessionsOK /\ ProfilesOK
  BY <1>1 DEF SessionsOK, ProfilesOK
<1>7. \A r \in Requests : SeesOK(r)
  BY <1>1 DEF SeesOK, At
<1>8. QED
  BY <1>2, <1>3, <1>4, <1>5, <1>6, <1>7 DEF AccessInv

LEMMA TickKeeps ==
  ASSUME AccessInv, Tick
  PROVE  AccessInv' /\ WindowOf(now) <= WindowOf(now') /\ now' \in 0..LastTime
<1>1. /\ UNCHANGED <<accountVars, rateVars, scene, requestVars>> /\ now' = now + 1
      /\ now \in Nat /\ now' \in 0..LastTime
  BY SettingOK, LastTimeAssumption DEF Tick, AccessInv, ControlOK
<1>2. WindowOf(now) <= WindowOf(now') /\ WindowOf(now) \in Nat /\ WindowOf(now') \in Nat
  BY <1>1, LaterWindows, Windows
<1>3. ControlOK' /\ AccountsTypeOK' /\ IdsOK' /\ KeysOK' /\ SessionsOK' /\ ProfilesOK'
  BY <1>1 DEF AccessInv, ControlOK, AccountsTypeOK, IdsOK, KeysOK, SessionsOK, ProfilesOK, Call,
     accountVars, rateVars, requestVars
<1>4. ASSUME NEW r \in Requests
      PROVE  SeesOK(r)'
  <2>1. SeesOK(r) /\ pc'[r] = pc[r] /\ seen'[r] = seen[r] /\ Call(r)' = Call(r)
    BY <1>1 DEF AccessInv, requestVars, Call
  <2>2. seen[r].window \in Indices /\ seen[r].window <= WindowOf(now) => seen[r].window <= WindowOf(now')
    BY <1>2 DEF Indices
  <2>3. WindowOf(now)' = WindowOf(now')
    BY DEF WindowOf
  <2>4. QED
    BY <1>1, <2>1, <2>2, <2>3 DEF SeesOK, At, accountVars
<1>5. QED
  BY <1>1, <1>2, <1>3, <1>4 DEF AccessInv

LEMMA CommitTurns ==
  ASSUME AccessInv, NEW r \in Requests, Commit(r)
  PROVE  AccessInv' /\ Turn(r)
BY KeySteps, OtherSteps DEF Commit

LEMMA AccessStep ==
  ASSUME AccessInv, [Next]_vars
  PROVE  AccessInv'
<1>1. ASSUME NEW r \in Requests, Arrive(r) \/ Step(r) \/ Fail(r)
      PROVE  AccessInv'
  BY <1>1, QuietSteps, CommitTurns DEF Step
<1>2. CASE Tick
  BY <1>2, TickKeeps
<1>3. CASE UNCHANGED vars
  BY <1>3 DEF AccessInv, ControlOK, AccountsTypeOK, IdsOK, KeysOK, SessionsOK, ProfilesOK, SeesOK, At,
     Call, WindowOf, vars, accountVars, rateVars, requestVars
<1>4. QED
  BY <1>1, <1>2, <1>3 DEF Next

LEMMA AccessAlways == Spec => []AccessInv
<1>1. QED
  BY AccessStart, AccessStep, PTL DEF Spec

\* A key or session that a revocation, a rotation or a logout has withdrawn is
\* never admitted again, whatever else is written to its row and in which order.
THEOREM WithdrawnStaysOut == Spec => []WithdrawnStayOut
<1>1. AccessInv => WithdrawnStayOut
  BY DEF AccessInv, KeysOK, SessionsOK, WithdrawnStayOut, KeyAdmits, SessionAdmits
<1>2. QED
  BY <1>1, AccessAlways, PTL

\* A deleted user never gets in again, whatever status an admin writes.
THEOREM DeletedStayOut == Spec => []DeletedStaysOut
<1>1. AccessInv => DeletedStaysOut
  BY DEF AccessInv, ProfilesOK, DeletedStaysOut, AccountAdmits
<1>2. QED
  BY <1>1, AccessAlways, PTL

\* Along every chain of rotations a key has the scopes and the expiry of its
\* predecessor, which is withdrawn.
THEOREM ReplacementsBounded == Spec => []ReplacementsNeverOutlive
<1>1. AccessInv => ReplacementsNeverOutlive
  BY DEF AccessInv, KeysOK, ReplacementsNeverOutlive
<1>2. QED
  BY <1>1, AccessAlways, PTL

-----------------------------------------------------------------------------
(* The rate limit.                                                         *)

\* The most requests that may have passed window w's limit once a key of it that
\* dies at t is dead.
Allowed(w, t) == scene.limit * (WindowOf(t) - w)

\* A key lives for a window, so a life ends one window later at least than the
\* one before it; in each at most the limit pass.
WindowInv ==
  /\ hits \in [Indices -> [n : Nat, dies : Nat]]
  /\ admitted \in [Indices -> SUBSET Requests]
  /\ \A w \in Indices :
       /\ IsFiniteSet(admitted[w])
       /\ hits[w].n = 0 => admitted[w] = {}
       /\ hits[w].n > 0 => hits[w].dies <= now + Window
       /\ hits[w].n > 0 /\ scene.limit >= 0 =>
            /\ Cardinality(admitted[w]) + scene.limit <= Allowed(w, hits[w].dies) + hits[w].n
            /\ Cardinality(admitted[w]) <= Allowed(w, hits[w].dies)

LEMMA NextWindow ==
  ASSUME NEW t \in Nat
  PROVE  t + Window \in Nat /\ WindowOf(t + Window) = WindowOf(t) + 1
<1> DEFINE a == WindowOf(t)
           b == WindowOf(t + Window)
<1>1. Window \in Nat \ {0} /\ t + Window \in Nat
  BY WindowAssumption
<1>2. /\ a \in Nat /\ a * Window <= t /\ t < (a + 1) * Window
      /\ b \in Nat /\ b * Window <= t + Window /\ t + Window < (b + 1) * Window
  BY <1>1, Windows
<1> HIDE DEF a, b
<1>3. \A m \in Nat, n \in Nat : m <= n => m * Window <= n * Window
  BY <1>1
<1>4. (a + 1) * Window = a * Window + Window /\ (a + 2) * Window = (a + 1) * Window + Window
  BY <1>1, <1>2
<1>5. /\ a * Window \in Nat /\ b * Window \in Nat /\ (b + 1) * Window \in Nat
      /\ (a + 1) * Window \in Nat
  BY <1>1, <1>2
<1>6. ~ (b <= a)
  BY <1>1, <1>2, <1>3, <1>4, <1>5
<1>7. ~ (a + 2 <= b)
  BY <1>1, <1>2, <1>3, <1>4, <1>5
<1>8. QED
  BY <1>1, <1>2, <1>6, <1>7 DEF a, b

\* Every further window allows the limit once more.
LEMMA AllowedMore ==
  ASSUME scene.limit \in Nat, NEW w \in Nat, NEW s \in Nat, NEW t \in Nat
  PROVE  /\ Allowed(w, s) \in Int
         /\ WindowOf(s) <= WindowOf(t) => Allowed(w, s) <= Allowed(w, t)
         /\ WindowOf(s) < WindowOf(t) => Allowed(w, s) + scene.limit <= Allowed(w, t)
         /\ w < WindowOf(s) => scene.limit <= Allowed(w, s)
<1>1. WindowOf(s) \in Nat /\ WindowOf(t) \in Nat
  BY Windows
<1>2. \A x \in Int, y \in Int :
        /\ scene.limit * x \in Int
        /\ x <= y => scene.limit * x <= scene.limit * y
        /\ scene.limit * (x + 1) = scene.limit * x + scene.limit
  OBVIOUS
<1> DEFINE x == WindowOf(s) - w
           y == WindowOf(t) - w
<1>3. x \in Int /\ y \in Int
  BY <1>1
<1>4. WindowOf(s) <= WindowOf(t) => scene.limit * x <= scene.limit * y
  BY <1>1, <1>2, <1>3
<1>5. WindowOf(s) < WindowOf(t) => scene.limit * x + scene.limit <= scene.limit * y
  <2>1. WindowOf(s) < WindowOf(t) => x + 1 <= y
    BY <1>1
  <2>2. x + 1 <= y => scene.limit * (x + 1) <= scene.limit * y
    BY <1>2, <1>3
  <2>3. scene.limit * (x + 1) = scene.limit * x + scene.limit
    BY <1>2, <1>3
  <2>4. QED
    BY <2>1, <2>2, <2>3
<1>6. w < WindowOf(s) => scene.limit <= scene.limit * x
  <2>1. w < WindowOf(s) => 1 <= x
    BY <1>1
  <2>2. 1 <= x => scene.limit * 1 <= scene.limit * x
    BY <1>2, <1>3
  <2>3. QED
    BY <2>1, <2>2
<1>7. scene.limit * x \in Int
  BY <1>2, <1>3
<1>8. QED
  BY <1>4, <1>5, <1>6, <1>7 DEF Allowed

LEMMA WindowStart ==
  ASSUME Init
  PROVE  WindowInv
<1>1. hits = [w \in Indices |-> NoHits] /\ admitted = [w \in Indices |-> {}]
  BY DEF Init, RateInit
<1>2. IsFiniteSet({})
  BY FS_EmptySet
<1>3. QED
  BY <1>1, <1>2 DEF WindowInv, NoHits

LEMMA WindowKept ==
  ASSUME AccessInv, WindowInv, UNCHANGED <<hits, admitted, scene>>,
         now <= now', now' \in 0..LastTime
  PROVE  WindowInv'
<1>1. now \in Nat /\ now' \in Nat /\ Window \in Nat
  BY LastTimeAssumption, WindowAssumption DEF AccessInv, ControlOK
<1>2. \A w \in Indices : Allowed(w, hits[w].dies)' = Allowed(w, hits[w].dies)
  BY DEF Allowed, WindowOf
<1>3. \A w \in Indices : hits[w].dies \in Nat
  BY DEF WindowInv
<1>4. QED
  BY <1>1, <1>2, <1>3 DEF WindowInv

LEMMA LimitKeeps ==
  ASSUME AccessInv, WindowInv, NEW r \in Requests, Limit(r)
  PROVE  WindowInv'
<1> DEFINE w == seen[r].window
           hit == Hit(w, now)
           passed == Cardinality(admitted[w])
<1>1. /\ now \in Nat /\ w \in Indices /\ w \in Nat /\ w <= WindowOf(now)
      /\ now' = now /\ scene' = scene /\ scene.limit \in Nat
      /\ WindowOf(now) \in Nat /\ Window \in Nat \ {0}
  BY SettingOK, Windows, LastTimeAssumption, WindowAssumption
     DEF Limit, AccessInv, ControlOK, SeesOK, Indices
<1>2. /\ hits' = [hits EXCEPT ![w] = hit]
      /\ \/ admitted' = admitted
         \/ hit.n <= scene.limit /\ admitted' = [admitted EXCEPT ![w] = @ \cup {r}]
  BY DEF Limit, HitWindow, WithinLimit
<1>3. hits[w] \in [n : Nat, dies : Nat] /\ IsFiniteSet(admitted[w]) /\ passed \in Nat
  BY <1>1, FS_CardinalityType DEF WindowInv
<1>4. now + Window \in Nat /\ WindowOf(now + Window) = WindowOf(now) + 1
  BY <1>1, NextWindow
<1>5. /\ hit \in [n : Nat, dies : Nat] /\ hit.n > 0 /\ hit.dies <= now + Window
      /\ passed + 1 + scene.limit <= Allowed(w, hit.dies) + hit.n
      /\ passed <= Allowed(w, hit.dies) /\ Allowed(w, hit.dies) \in Int
  <2>1. CASE hits[w].n > 0 /\ hits[w].dies > now
    <3>1. hit.n = hits[w].n + 1 /\ hit.dies = hits[w].dies /\ hit \in [n : Nat, dies : Nat]
      BY <1>1, <1>3, <2>1 DEF Hit
    <3>2. /\ hits[w].dies <= now + Window
          /\ passed + scene.limit <= Allowed(w, hits[w].dies) + hits[w].n
          /\ passed <= Allowed(w, hits[w].dies)
      BY <1>1, <2>1 DEF WindowInv
    <3>3. Allowed(w, hits[w].dies) \in Int
      BY <1>1, <1>3, AllowedMore
    <3> HIDE DEF hit, passed
    <3>4. QED
      BY <1>1, <1>3, <2>1, <3>1, <3>2, <3>3
  <2>2. CASE hits[w].n = 0 \/ hits[w].dies <= now
    <3>1. hit = [n |-> 1, dies |-> now + Window]
      BY <2>2 DEF Hit
    <3>2. passed + scene.limit <= Allowed(w, now + Window)
      <4>1. CASE hits[w].n = 0
        <5>1. passed = 0
          BY <1>1, <4>1, FS_EmptySet DEF WindowInv
        <5>2. scene.limit <= Allowed(w, now + Window)
          BY <1>1, <1>4, AllowedMore
        <5>3. QED
          BY <1>1, <5>1, <5>2
      <4>2. CASE hits[w].n > 0 /\ hits[w].dies <= now
        <5>1. passed <= Allowed(w, hits[w].dies)
          BY <1>1, <4>2 DEF WindowInv
        <5>2. WindowOf(hits[w].dies) < WindowOf(now + Window) /\ hits[w].dies \in Nat
          <6>1. hits[w].dies \in Nat /\ hits[w].dies <= now
            BY <1>3, <4>2
          <6>2. WindowOf(hits[w].dies) <= WindowOf(now) /\ WindowOf(hits[w].dies) \in Nat
            BY <1>1, <6>1, LaterWindows, Windows
          <6>3. QED
            BY <1>1, <1>4, <6>1, <6>2
        <5>3. /\ Allowed(w, hits[w].dies) + scene.limit <= Allowed(w, now + Window)
              /\ Allowed(w, hits[w].dies) \in Int /\ Allowed(w, now + Window) \in Int
          BY <1>1, <1>4, <5>2, AllowedMore
        <5> HIDE DEF passed
        <5>4. QED
          BY <1>1, <1>3, <5>1, <5>3
      <4>3. QED
        BY <1>3, <2>2, <4>1, <4>2
    <3>3. Allowed(w, now + Window) \in Int
      BY <1>1, <1>4, AllowedMore
    <3> HIDE DEF passed
    <3>4. QED
      BY <1>1, <1>3, <1>4, <3>1, <3>2, <3>3
  <2>3. QED
    BY <1>1, <1>3, <2>1, <2>2
<1>6. /\ hits' \in [Indices -> [n : Nat, dies : Nat]] /\ hits'[w] = hit
      /\ \A x \in Indices : x # w => hits'[x] = hits[x]
  BY <1>1, <1>2, <1>5 DEF WindowInv
<1>7. /\ admitted' \in [Indices -> SUBSET Requests]
      /\ \A x \in Indices : x # w => admitted'[x] = admitted[x]
      /\ \/ admitted'[w] = admitted[w]
         \/ admitted'[w] = admitted[w] \cup {r} /\ hit.n <= scene.limit
  BY <1>1, <1>2 DEF WindowInv
<1>8. /\ IsFiniteSet(admitted'[w])
      /\ \/ Cardinality(admitted'[w]) = passed
         \/ Cardinality(admitted'[w]) = passed + 1 /\ hit.n <= scene.limit
  <2>1. /\ IsFiniteSet(admitted[w] \cup {r})
        /\ \/ Cardinality(admitted[w] \cup {r}) = passed
           \/ Cardinality(admitted[w] \cup {r}) = passed + 1
    BY <1>3, FS_AddElement
  <2>2. QED
    BY <1>3, <1>7, <2>1
<1>9. /\ Cardinality(admitted'[w]) + scene.limit <= Allowed(w, hit.dies) + hit.n
      /\ Cardinality(admitted'[w]) <= Allowed(w, hit.dies)
  <2> HIDE DEF passed, hit
  <2>1. QED
    BY <1>1, <1>3, <1>5, <1>8
<1>10. QED
  <2> SUFFICES ASSUME NEW x \in Indices
               PROVE  /\ IsFiniteSet(admitted'[x])
                      /\ hits'[x].n = 0 => admitted'[x] = {}
                      /\ hits'[x].n > 0 => hits'[x].dies <= now' + Window
                      /\ hits'[x].n > 0 /\ scene'.limit >= 0 =>
                           /\ Cardinality(admitted'[x]) + scene'.limit
                                 <= Allowed(x, hits'[x].dies) + hits'[x].n
                           /\ Cardinality(admitted'[x]) <= Allowed(x, hits'[x].dies)
    BY <1>1, <1>6, <1>7 DEF WindowInv, Allowed, WindowOf
  <2>1. CASE x = w
    BY <1>1, <1>5, <1>6, <1>8, <1>9, <2>1
  <2>2. CASE x # w
    BY <1>1, <1>6, <1>7, <2>2 DEF WindowInv
  <2>3. QED
    BY <2>1, <2>2

LEMMA WindowStep ==
  ASSUME AccessInv, WindowInv, [Next]_vars
  PROVE  WindowInv'
<1>1. now \in 0..LastTime /\ now <= now
  BY LastTimeAssumption DEF AccessInv, ControlOK
<1>2. ASSUME NEW r \in Requests, Limit(r)
      PROVE  WindowInv'
  BY <1>2, LimitKeeps
<1>3. ASSUME NEW r \in Requests, Arrive(r) \/ Step(r) \/ Fail(r), ~Limit(r)
      PROVE  WindowInv'
  <2>1. UNCHANGED <<hits, admitted, scene, now>>
    <3>1. CASE Commit(r)
      BY <3>1 DEF Commit, CommitUse, CommitKeys, CommitUsage, CommitUser, CommitSession, CommitAdmin,
         rateVars
    <3>2. CASE ~Commit(r)
      BY <1>3, <3>2 DEF Step, Arrive, Fail, Authenticate, CheckAccount, LimitOpen, Count,
         AuthenticateAdmin, Reserve, Reserved, LoadKeys, LoadUsage, LoadAdmin, LoadOpen,
         CommitConflicts, PoolTimeout, rateVars
    <3>3. QED
      BY <3>1, <3>2
  <2>2. QED
    BY <1>1, <2>1, WindowKept
<1>4. CASE Tick
  <2>1. UNCHANGED <<hits, admitted, scene>> /\ now' = now + 1
    BY <1>4 DEF Tick, rateVars, requestVars
  <2>2. now' \in 0..LastTime /\ now <= now'
    BY <1>1, <1>4, <2>1, TickKeeps
  <2>3. QED
    BY <2>1, <2>2, WindowKept
<1>5. CASE UNCHANGED vars
  <2>1. UNCHANGED <<hits, admitted, scene, now>>
    BY <1>5 DEF vars, rateVars, requestVars
  <2>2. QED
    BY <1>1, <2>1, WindowKept
<1>6. QED
  BY <1>2, <1>3, <1>4, <1>5 DEF Next

\* At any time a window has let through at most the limit for itself, and once
\* more for each window that has begun since: a key lives for a whole window, so
\* late requests that find it dead begin at most one new count per window.
THEOREM LimitHolds == Spec => []WindowAdmits
<1>1. AccessInv /\ WindowInv => WindowAdmits
  <2> SUFFICES ASSUME AccessInv, WindowInv, scene.limit >= 0, NEW w \in 0..WindowOf(now)
               PROVE  Cardinality(admitted[w]) <= scene.limit * (WindowOf(now) + 1 - w)
    BY DEF WindowAdmits
  <2>1. /\ now \in Nat /\ WindowOf(now) \in Nat /\ w \in Nat /\ w \in Indices
        /\ scene.limit \in Nat
    <3>1. ControlOK /\ now \in 0..LastTime /\ now \in Nat
      BY LastTimeAssumption DEF AccessInv, ControlOK
    <3>2. WindowOf(now) \in Nat /\ WindowOf(now) \in Indices
      BY <3>1, NowIndex, Windows
    <3>3. LastTime \div Window \in Int
      BY LastTimeAssumption, WindowAssumption
    <3>4. w \in Nat /\ w \in Indices
      BY <3>2, <3>3 DEF Indices
    <3>5. scene.limit \in Int
      BY <3>1, SettingOK
    <3>6. QED
      BY <3>1, <3>2, <3>4, <3>5
  <2>2. now + Window \in Nat /\ WindowOf(now + Window) = WindowOf(now) + 1
    BY <2>1, NextWindow
  <2>3. Cardinality(admitted[w]) <= Allowed(w, now + Window)
    <3>1. CASE hits[w].n = 0
      <4>1. Cardinality(admitted[w]) = 0
        BY <2>1, <3>1, FS_EmptySet DEF WindowInv
      <4>2. scene.limit <= Allowed(w, now + Window) /\ Allowed(w, now + Window) \in Int
        BY <2>1, <2>2, AllowedMore
      <4>3. QED
        BY <2>1, <4>1, <4>2
    <3>2. CASE hits[w].n > 0
      <4>1. /\ Cardinality(admitted[w]) <= Allowed(w, hits[w].dies)
            /\ Cardinality(admitted[w]) \in Nat
            /\ hits[w].dies \in Nat /\ hits[w].dies <= now + Window
        BY <2>1, <3>2, FS_CardinalityType DEF WindowInv
      <4>2. /\ Allowed(w, hits[w].dies) <= Allowed(w, now + Window)
            /\ Allowed(w, hits[w].dies) \in Int /\ Allowed(w, now + Window) \in Int
        BY <2>1, <2>2, <4>1, LaterWindows, AllowedMore
      <4>3. QED
        BY <4>1, <4>2
    <3>3. hits[w].n \in Nat
      BY <2>1 DEF WindowInv
    <3>4. QED
      BY <3>1, <3>2, <3>3
  <2>4. Allowed(w, now + Window) = scene.limit * (WindowOf(now) + 1 - w)
    <3>1. WindowOf(now + Window) - w = WindowOf(now) + 1 - w
      BY <2>1, <2>2
    <3>2. QED
      BY <3>1, Zenon DEF Allowed
  <2>5. QED
    BY <2>3, <2>4
<1>2. QED
  BY <1>1, AccessAlways, WindowStart, WindowStep, PTL DEF Spec

-----------------------------------------------------------------------------
(* The roles of admins.                                                    *)

\* A role change was asked for by an admin who was a SUPER_ADMIN; unless another
\* change has committed since, it still is, and the rows loaded are those there are.
ChangeOK(r) ==
  /\ pc[r] \in {"account", "limit", "count"} => Call(r).op \in KeyOps \cup UserOps
  /\ pc[r] \in {"load", "commit"} /\ Call(r).op = "createAdmin" => DOMAIN admins # {}
  /\ pc[r] \in {"load", "commit"} /\ Call(r).op = "setRoles" =>
       /\ auth[r].changes \in Nat /\ auth[r].changes <= changes
       /\ auth[r].admin \in DOMAIN admins
       /\ "SUPER_ADMIN" \in auth[r].roles
       /\ auth[r].changes = changes => "SUPER_ADMIN" \in admins[auth[r].admin].roles
  /\ pc[r] = "commit" /\ Call(r).op = "setRoles" =>
       /\ Call(r).admin = auth[r].admin => "SUPER_ADMIN" \in Call(r).roles
       /\ auth[r].changes = changes => seen[r].roles = admins[Call(r).admin].roles

RolesInv ==
  /\ changes \in Nat
  /\ auth = [r \in Requests |-> auth[r]]
  /\ DOMAIN scene.admins \subseteq DOMAIN admins
  /\ \A r \in Requests \cap DOMAIN admins : pc[r] = "done"
  /\ RolesAsGiven
  /\ \A r \in Requests : ChangeOK(r)

LEMMA RolesStart ==
  ASSUME Init
  PROVE  RolesInv
<1>1. /\ scene \in Scenes /\ admins = scene.admins /\ changes = 0 /\ overlapped = FALSE
      /\ pc = [r \in Requests |-> "idle"] /\ auth = [r \in Requests |-> Nothing]
  BY DEF Init
<1>2. /\ Requests \cap DOMAIN admins = {}
      /\ DOMAIN admins = {} \/ \E a \in DOMAIN admins : "SUPER_ADMIN" \in admins[a].roles
      /\ \A a \in DOMAIN admins : admins[a].roles = admins[a].given
  BY <1>1, ScenesAssumption
<1>3. \A r \in Requests : ChangeOK(r)
  BY <1>1 DEF ChangeOK
<1>4. QED
  BY <1>1, <1>2, <1>3 DEF RolesInv, RolesAsGiven

\* A step of r that leaves the roles alone.
LEMMA RolesAside ==
  ASSUME AccessInv, RolesInv, NEW r \in Requests, Turn(r), UNCHANGED <<admins, changes, overlapped>>,
         auth' = [x \in Requests |-> IF x = r THEN auth'[r] ELSE auth[x]], ChangeOK(r)'
  PROVE  RolesInv'
<1>1. /\ \A x \in Requests : x # r => pc'[x] = pc[x] /\ seen'[x] = seen[x] /\ auth'[x] = auth[x]
      /\ \A x : Call(x)' = Call(x)
      /\ pc[r] # "done" /\ scene' = scene
  BY DEF Turn, Ended, Call, AccessInv, ControlOK
<1>2. \A x \in Requests : ChangeOK(x)'
  BY <1>1 DEF RolesInv, ChangeOK
<1>3. \A x \in Requests \cap DOMAIN admins' : pc'[x] = "done"
  BY <1>1 DEF RolesInv
<1>4. auth' = [x \in Requests |-> auth'[x]]
  OBVIOUS
<1>5. QED
  BY <1>1, <1>2, <1>3, <1>4 DEF RolesInv, RolesAsGiven

LEMMA ManagersAreSuper ==
  ASSUME NEW roles \in SUBSET Roles, RolesAllow(roles, "admin.manage")
  PROVE  "SUPER_ADMIN" \in roles
<1>1. PICK x \in roles : "admin.manage" \in RolePermissions[x]
  BY DEF RolesAllow
<1>2. x \in {"SUPER_ADMIN", "ADMIN", "MANAGER", "SUPPORT", "VIEWER"}
  BY DEF Roles
<1>3. CASE x = "ADMIN"
  BY <1>1, <1>3 DEF RolePermissions, Roles
<1>4. CASE x = "VIEWER"
  BY <1>1, <1>4 DEF RolePermissions, Roles
<1>5. CASE x = "SUPPORT"
  BY <1>1, <1>5 DEF RolePermissions, Roles
<1>6. CASE x = "MANAGER"
  BY <1>1, <1>6 DEF RolePermissions, Roles
<1>7. QED
  BY <1>2, <1>3, <1>4, <1>5, <1>6

LEMMA RolesQuiet ==
  ASSUME AccessInv, RolesInv, NEW r \in Requests,
         \/ PoolTimeout(r) \/ Arrive(r) \/ Authenticate(r) \/ CheckAccount(r) \/ Limit(r)
         \/ LimitOpen(r) \/ Count(r) \/ AuthenticateAdmin(r) \/ Reserve(r) \/ Reserved(r)
         \/ LoadKeys(r) \/ LoadUsage(r) \/ LoadAdmin(r) \/ LoadOpen(r)
         \/ CommitConflicts(r) \/ Fail(r)
  PROVE  RolesInv'
<1>1. /\ Turn(r) /\ Call(r)' = Call(r) /\ auth = [x \in Requests |-> auth[x]]
      /\ pc \in [Requests -> {"idle"} \cup Running \cup Ended]
      /\ seen = [x \in Requests |-> seen[x]]
      /\ changes \in Nat /\ SeesOK(r) /\ ChangeOK(r)
  BY QuietSteps DEF Turn, Call, RolesInv, AccessInv, ControlOK
<1>2. CASE \/ PoolTimeout(r) \/ Arrive(r) \/ Authenticate(r) \/ Limit(r) \/ LimitOpen(r)
           \/ Reserve(r) \/ CommitConflicts(r) \/ Fail(r)
  <2>1. /\ UNCHANGED <<admins, changes, overlapped>>
        /\ auth' = [x \in Requests |-> IF x = r THEN auth'[r] ELSE auth[x]]
    BY <1>1, <1>2 DEF PoolTimeout, Arrive, Authenticate, Limit, LimitOpen, Reserve, CommitConflicts,
       Fail, accountVars
  <2>2. /\ pc'[r] \notin {"load", "commit"}
        /\ pc'[r] \in {"account", "limit", "count"} => Call(r).op \in KeyOps \cup UserOps
    BY <1>1, <1>2 DEF PoolTimeout, Arrive, Authenticate, Limit, LimitOpen, Reserve, CommitConflicts,
       Fail, Goto, ChangeOK, At
  <2>3. ChangeOK(r)'
    BY <1>1, <2>2 DEF ChangeOK
  <2>4. QED
    BY <1>1, <2>1, <2>3, RolesAside
<1>3. CASE \/ CheckAccount(r) \/ Count(r) \/ Reserved(r) \/ LoadKeys(r) \/ LoadUsage(r) \/ LoadOpen(r)
  <2>1. /\ UNCHANGED <<admins, changes, overlapped>> /\ auth' = auth
    BY <1>3 DEF CheckAccount, Count, Reserved, LoadKeys, LoadUsage, LoadOpen, accountVars
  <2>2. /\ Call(r).op \notin {"setRoles", "createAdmin"}
        /\ pc'[r] \in {"account", "limit", "count"} => Call(r).op \in KeyOps \cup UserOps
    BY <1>1, <1>3 DEF CheckAccount, Count, Reserved, LoadKeys, LoadUsage, LoadOpen, Proceed, Refuse,
       Goto, ChangeOK, SeesOK, At, KeyOps, UserOps, OpenOps
  <2>3. ChangeOK(r)'
    BY <1>1, <2>2 DEF ChangeOK
  <2>4. QED
    BY <1>1, <2>1, <2>3, RolesAside
<1>4. CASE AuthenticateAdmin(r)
  <2> DEFINE a == sessions[Call(r).session].admin
  <2>1. UNCHANGED <<admins, changes, overlapped>> /\ pc'[r] \in {"load", "failed"}
        /\ auth' = [x \in Requests |-> IF x = r THEN auth'[r] ELSE auth[x]]
        /\ Call(r).op \in AdminOps /\ pc[r] # "idle"
    BY <1>1, <1>4 DEF AuthenticateAdmin, Goto, At, accountVars
  <2>2. a \in DOMAIN admins /\ admins[a].roles \in SUBSET Roles
    BY <1>1, <2>1 DEF SeesOK, AccessInv, AccountsTypeOK, TablesOK, AdminSession, AdminUserOK
  <2>3. pc'[r] = "load" /\ Call(r).op \in {"setRoles", "createAdmin"} =>
          /\ RolesAllow(admins[a].roles, "admin.manage")
          /\ auth'[r] = [admin |-> a, roles |-> admins[a].roles, changes |-> changes]
    BY <1>1, <1>4 DEF AuthenticateAdmin, Goto, Needs
  <2>4. pc'[r] = "load" /\ Call(r).op \in {"setRoles", "createAdmin"} =>
          "SUPER_ADMIN" \in admins[a].roles
    BY <2>2, <2>3, ManagersAreSuper
  <2>5. ChangeOK(r)'
    BY <1>1, <2>1, <2>2, <2>3, <2>4 DEF ChangeOK
  <2>6. QED
    BY <1>1, <2>1, <2>5, RolesAside
<1>5. CASE LoadAdmin(r)
  <2>1. /\ UNCHANGED <<admins, changes, overlapped>> /\ auth' = auth
        /\ pc[r] = "load" /\ pc'[r] \in {"commit", "failed"}
    BY <1>1, <1>5 DEF LoadAdmin, Proceed, Refuse, Goto, At, accountVars
  <2>2. pc'[r] = "commit" /\ Call(r).op = "setRoles" =>
          MayDemote(r) /\ seen'[r] = [roles |-> admins[Call(r).admin].roles]
    BY <1>1, <1>5 DEF LoadAdmin, Proceed, Refuse, Goto, Load
  <2>3. ChangeOK(r)'
    BY <1>1, <2>1, <2>2 DEF ChangeOK, MayDemote
  <2>4. QED
    BY <1>1, <2>1, <2>3, RolesAside
<1>6. QED
  BY <1>2, <1>3, <1>4, <1>5

LEMMA RolesCommit ==
  ASSUME AccessInv, RolesInv, NEW r \in Requests, Commit(r)
  PROVE  RolesInv'
<1>1. /\ Turn(r) /\ Call(r)' = Call(r) /\ auth' = auth /\ seen' = seen
      /\ auth = [x \in Requests |-> auth[x]]
      /\ pc[r] = "commit" /\ pc'[r] = "done" /\ scene' = scene
      /\ changes \in Nat /\ ChangeOK(r) /\ CallOK(scene, Call(r))
      /\ r \notin DOMAIN admins
      /\ \A x \in Requests : x # r => pc'[x] = pc[x]
      /\ \A x : Call(x)' = Call(x)
  BY CommitTurns, SettingOK DEF Commit, CommitUse, CommitKeys, CommitUsage, CommitUser, CommitSession,
     CommitAdmin, At, Turn, Goto, Call, RolesInv, AccessInv, ControlOK, Ended
<1>2. ChangeOK(r)'
  BY <1>1 DEF ChangeOK
<1>3. CASE ~CommitAdmin(r)
  <2>1. UNCHANGED <<admins, changes, overlapped>>
    BY <1>3 DEF Commit, CommitUse, CommitKeys, CommitUsage, CommitUser, CommitSession, accountVars
  <2>2. QED
    BY <1>1, <1>2, <2>1, RolesAside
<1>4. CASE /\ At(r, "commit", {"createAdmin", "bootstrap"})
           /\ NewAdmin(r, Call(r).name, Call(r).roles)
           /\ UNCHANGED <<changes, overlapped>>
  <2> DEFINE user == [name |-> Call(r).name, roles |-> Call(r).roles, given |-> Call(r).roles]
  <2>1. /\ DOMAIN admins' = DOMAIN admins \cup {r} /\ admins'[r] = user
        /\ \A a \in DOMAIN admins : admins'[a] = admins[a]
    BY <1>1, <1>4 DEF NewAdmin, WithKey
  <2>2. \A x \in Requests : x # r => ChangeOK(x)'
    BY <1>1, <1>4, <2>1, SettingOK DEF RolesInv, ChangeOK, CallOK, AccessInv
  <2>3. Call(r).op = "createAdmin" => DOMAIN admins # {}
    BY <1>1 DEF ChangeOK
  <2>4. Call(r).op = "bootstrap" => "SUPER_ADMIN" \in user.roles
    BY <1>1 DEF CallOK
  <2>5. RolesAsGiven'
    BY <1>1, <1>4, <2>1, <2>3, <2>4 DEF RolesInv, RolesAsGiven, At
  <2>6. QED
    BY <1>1, <1>2, <1>4, <2>1, <2>2, <2>5 DEF RolesInv
<1>5. CASE /\ At(r, "commit", {"setRoles"})
           /\ SetAdminRoles(Call(r).admin, seen[r].roles, Call(r).roles)
           /\ changes' = changes + 1
           /\ overlapped' = (overlapped \/ changes # auth[r].changes)
  <2> DEFINE a == Call(r).admin
             after == (admins[a].roles \ seen[r].roles) \cup Call(r).roles
  <2>1. a \in DOMAIN admins
    BY <1>1, <1>5 DEF At, CallOK, RolesInv
  <2>2. /\ DOMAIN admins' = DOMAIN admins
        /\ \A x \in DOMAIN admins : x # a => admins'[x] = admins[x]
        /\ admins'[a] = [admins[a] EXCEPT !.roles = after, !.given = Call(r).roles]
    BY <1>5, <2>1 DEF SetAdminRoles
  <2>3. \A x \in Requests : x # r => ChangeOK(x)'
    BY <1>1, <1>5, <2>2 DEF RolesInv, ChangeOK
  <2>4. ASSUME ~overlapped'
        PROVE  /\ \E x \in DOMAIN admins' : "SUPER_ADMIN" \in admins'[x].roles
               /\ \A x \in DOMAIN admins' : admins'[x].roles = admins'[x].given
    <3>1. ~overlapped /\ auth[r].changes = changes
      BY <1>5, <2>4
    <3>2. /\ seen[r].roles = admins[a].roles /\ auth[r].admin \in DOMAIN admins
          /\ "SUPER_ADMIN" \in admins[auth[r].admin].roles
          /\ a = auth[r].admin => "SUPER_ADMIN" \in Call(r).roles
      BY <1>1, <1>5, <3>1 DEF ChangeOK, At
    <3>3. after = Call(r).roles
      BY <3>2
    <3>4. AdminUserOK(admins[a])
      BY <2>1 DEF AccessInv, AccountsTypeOK, TablesOK
    <3>5. admins'[a].roles = Call(r).roles /\ admins'[a].given = Call(r).roles
      BY <2>2, <3>3, <3>4 DEF AdminUserOK
    <3>6. \E x \in DOMAIN admins' : "SUPER_ADMIN" \in admins'[x].roles
      <4>1. CASE a = auth[r].admin
        BY <4>1, <2>1, <2>2, <3>2, <3>5
      <4>2. CASE a # auth[r].admin
        BY <4>2, <2>2, <3>2
      <4>3. QED
        BY <4>1, <4>2
    <3>7. ASSUME NEW x \in DOMAIN admins'
          PROVE  admins'[x].roles = admins'[x].given
      <4>1. CASE x = a
        BY <4>1, <3>5
      <4>2. CASE x # a
        <5>1. x \in DOMAIN admins /\ admins'[x] = admins[x]
          BY <4>2, <2>2, <3>7
        <5>2. admins[x].roles = admins[x].given
          BY <5>1, <3>1 DEF RolesInv, RolesAsGiven
        <5>3. QED
          BY <5>1, <5>2
      <4>3. QED
        BY <4>1, <4>2
    <3>8. QED
      BY <3>6, <3>7
  <2>5. RolesAsGiven'
    BY <2>4 DEF RolesAsGiven
  <2>6. QED
    BY <1>1, <1>2, <1>5, <2>2, <2>3, <2>5 DEF RolesInv
<1>6. QED
  BY <1>3, <1>4, <1>5 DEF CommitAdmin, At

LEMMA RolesStep ==
  ASSUME AccessInv, RolesInv, [Next]_vars
  PROVE  RolesInv'
<1>1. ASSUME NEW r \in Requests, Arrive(r) \/ Step(r) \/ Fail(r)
      PROVE  RolesInv'
  BY <1>1, RolesQuiet, RolesCommit DEF Step
<1>2. CASE Tick \/ UNCHANGED vars
  <2>1. UNCHANGED <<admins, changes, overlapped, auth, pc, seen, scene>>
    BY <1>2 DEF Tick, vars, accountVars, requestVars
  <2>2. QED
    BY <2>1 DEF RolesInv, RolesAsGiven, ChangeOK, Call
<1>3. QED
  BY <1>1, <1>2 DEF Next

\* Any number of admins who change each other's roles one after the other, log in,
\* log out and create admins in between, leave a SUPER_ADMIN.
THEOREM SuperAdminStays == Spec => []RolesAsGiven
<1>1. RolesInv => RolesAsGiven
  BY DEF RolesInv
<1>2. QED
  BY <1>1, AccessAlways, RolesStart, RolesStep, PTL DEF Spec
-----------------------------------------------------------------------------
(* The types.                                                              *)

ChangesOK == changes \in Nat /\ overlapped \in BOOLEAN

LEMMA ChangesStep ==
  ASSUME ChangesOK, [Next]_vars
  PROVE  ChangesOK'
<1>1. ASSUME NEW r \in Requests, CommitAdmin(r), Call(r).op = "setRoles", changes' = changes + 1,
             overlapped' = (overlapped \/ changes # auth[r].changes)
      PROVE  ChangesOK'
  <2>1. changes' \in Nat
    BY <1>1 DEF ChangesOK
  <2>2. overlapped' \in BOOLEAN
    BY <1>1, Zenon DEF ChangesOK
  <2>3. QED
    BY <2>1, <2>2 DEF ChangesOK
<1>2. CASE UNCHANGED <<changes, overlapped>>
  BY <1>2 DEF ChangesOK
<1>3. ASSUME NEW r \in Requests, Commit(r)
      PROVE  ChangesOK'
  <2>1. CASE CommitAdmin(r)
    BY <1>1, <1>2, <2>1 DEF CommitAdmin
  <2>2. CASE ~CommitAdmin(r)
    BY <1>2, <1>3, <2>2 DEF Commit, CommitUse, CommitKeys, CommitUsage, CommitUser, CommitSession
  <2>3. QED
    BY <2>1, <2>2
<1>4. ASSUME NEW r \in Requests, Arrive(r) \/ Step(r) \/ Fail(r), ~Commit(r)
      PROVE  ChangesOK'
  BY <1>2, <1>4 DEF Step, Arrive, Fail, Authenticate, CheckAccount, Limit, LimitOpen, Count,
     AuthenticateAdmin, Reserve, Reserved, LoadKeys, LoadUsage, LoadAdmin, LoadOpen,
     CommitConflicts, PoolTimeout
<1>5. CASE Tick \/ UNCHANGED vars
  BY <1>2, <1>5 DEF Tick, vars, requestVars
<1>6. QED
  BY <1>3, <1>4, <1>5 DEF Next

\* Every variable of a request's way keeps its type, for every setting, window
\* and clock.
THEOREM TypeCorrect == Spec => []TypeOK
<1>1. Init => ChangesOK
  <2>1. Init => changes \in Nat /\ overlapped = FALSE
    BY DEF Init
  <2>2. QED
    BY <2>1 DEF ChangesOK
<1>2. AccessInv /\ WindowInv /\ ChangesOK => TypeOK
  BY DEF AccessInv, ControlOK, WindowInv, ChangesOK, TypeOK, RateTypeOK
<1>3. QED
  BY <1>1, <1>2, AccessAlways, WindowStart, WindowStep, ChangesStep, PTL DEF Spec

=============================================================================
