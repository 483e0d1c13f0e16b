--------------------------- MODULE MCSubscriptions ---------------------------
(* Small instances of Subscriptions for TLC.                                 *)
EXTENDS Subscriptions, TLC

CONSTANTS l1, c1, c2, Pro, New

\* A login and two requests of nearly every kind.
MixedOps ==
  (l1 :> {"login"}) @@ (c1 :> Ops) @@ (c2 :> Ops \ {"login"})

\* One login and two changes.
ChangeOps ==
  [r \in Requests |-> IF r = l1 THEN {"login"} ELSE {"change"}]

\* Edits of packages only.
EditOps == [r \in Requests |-> {"create", "update", "delete"}]
==============================================================================
