------------------------------ MODULE MCAccess ------------------------------
(* Small instances of Access for TLC: up to four requests in each setting.   *)
EXTENDS Access, TLC

CONSTANTS r1, r2, r3, r4, u1, u2, k1, s1, s2, a1, a2

MCRequests == {r1, r2, r3, r4}
MCUsers == {u1, u2}
MCScopes == {"read", "search"}

None == [op |-> "none"]
Calls(x, y, z) == (r1 :> x) @@ (r2 :> y) @@ (r3 :> z) @@ (r4 :> None)

\* A user with one key that lapses, and two SUPER_ADMINs with a session each.
Admin(name) ==
  [name |-> name, roles |-> {"SUPER_ADMIN"}, given |-> {"SUPER_ADMIN"}]
Session(of) == [admin |-> of, expires |-> 2, revoked |-> FALSE]
Quiet ==
  [calls |-> Calls(None, None, None), horizon |-> 0, pool |-> 4, limit |-> -1,
   failures |-> FALSE, redisFails |-> FALSE,
   profiles |-> [x \in Users |-> [status |-> "active", deleted |-> FALSE, tenant |-> "active"]],
   keys |-> k1 :> [owner |-> u1, status |-> "active", revoked |-> FALSE, used |-> FALSE,
                  expires |-> 1, scopes |-> {"read"}, from |-> NoKey],
   admins |-> (a1 :> Admin("a")) @@ (a2 :> Admin("b")),
   sessions |-> (s1 :> Session(a1)) @@ (s2 :> Session(a2))]

Use == [op |-> "use", key |-> k1]
UseNew == [op |-> "use", key |-> r1]
Create == [op |-> "create", user |-> u1, scopes |-> {}, expires |-> 1]
List == [op |-> "list", user |-> u1]
RevokeBy(x) == [op |-> "revoke", user |-> x, key |-> k1]
Rotate == [op |-> "rotate", user |-> u1, key |-> k1]
RotateNew == [op |-> "rotate", user |-> u1, key |-> r1]
Usage == [op |-> "usage", user |-> u1]
SetStatus(s, to) == [op |-> "setStatus", session |-> s, user |-> u1, status |-> to]
Delete(s) == [op |-> "deleteUser", session |-> s, user |-> u1]
SetRoles(s, x, to) == [op |-> "setRoles", session |-> s, admin |-> x, roles |-> to]
CreateAdmin(s) == [op |-> "createAdmin", session |-> s, name |-> "c", roles |-> {"SUPPORT"}]
Bootstrap == [op |-> "bootstrap", name |-> "a", roles |-> {"SUPER_ADMIN"}]
Login(name) == [op |-> "login", name |-> name]
Logout(s) == [op |-> "logout", session |-> s]

Keys(x, y, z) == [Quiet EXCEPT !.calls = Calls(x, y, z), !.horizon = 2]
Staff(x, y, z) == [Quiet EXCEPT !.calls = Calls(x, y, z)]
Fresh(x, y, z) ==
  [Staff(x, y, z) EXCEPT !.admins = <<>>, !.sessions = <<>>]

With(setting, fourth) == [setting EXCEPT !.calls[r4] = fourth]

MCScenes ==
  { With([Keys(Use, RevokeBy(u1), List) EXCEPT !.pool = 3], Rotate), Keys(Rotate, Rotate, UseNew),
    Keys(Rotate, RotateNew, List), Keys(Create, RevokeBy(u2), Use),
    [With(Keys(Use, Use, Use), Use) EXCEPT !.horizon = 1, !.pool = 3, !.limit = 2],
    [Keys(Use, Use, Use) EXCEPT !.pool = 2, !.limit = 1],
    [Keys(Usage, Usage, Use) EXCEPT !.redisFails = TRUE, !.failures = TRUE],
    Staff(Delete(s1), SetStatus(s2, "suspended"), Use),
    [Staff(Delete(s1), SetStatus(s2, "active"), Use) EXCEPT
       !.profiles[u1].status = "suspended", !.profiles[u1].tenant = "suspended"],
    Staff(SetRoles(s1, a2, {"ADMIN"}), SetRoles(s2, a1, {"SUPPORT"}), Delete(s1)),
    Staff(SetRoles(s1, a1, {"ADMIN"}), SetRoles(s1, a2, {"ADMIN"}), CreateAdmin(s2)),
    [Staff(CreateAdmin(s1), CreateAdmin(s2), Logout(s1)) EXCEPT !.failures = TRUE],
    [Staff(Login("a"), Logout(r1), SetRoles(r1, a2, {})) EXCEPT !.horizon = 2],
    Fresh(Bootstrap, Bootstrap, Login("a")) }
=============================================================================
