---------------------------- MODULE QuotaPromise ----------------------------
(***************************************************************************)
(* What quota_service promises of a tenant's monthly counters, without the *)
(* counters: an operation is granted in the month the clock shows, once,   *)
(* and only while fewer than Cap[k] operations of its kind stand granted   *)
(* in that month; a grant can be given back only while its month lasts;    *)
(* and a month that is over never changes.                                 *)
(***************************************************************************)
EXTENDS Integers, FiniteSets

CONSTANTS
  Months,      \* the calendar months, from 1
  Kinds,       \* the kinds of operation that are counted
  Operations,  \* the operations that may be granted
  Cap,         \* Cap[k]: operations of kind k in a month, or Unlimited
  Unlimited    \* the cap of a kind that is not limited

VARIABLES
  month,       \* the calendar month
  granted      \* granted[r][k]: the month r's k stands granted in, else 0

vars == <<month, granted>>

Init ==
  /\ month = 1
  /\ granted = [r \in Operations |-> [k \in Kinds |-> 0]]

Standing(k) == {r \in Operations : granted[r][k] = month}

Grant(r, k) ==
  /\ granted[r][k] = 0
  /\ granted' = [granted EXCEPT ![r][k] = month]
  /\ Cap[k] = Unlimited \/ Cardinality(Standing(k)) < Cap[k]
  /\ UNCHANGED month

GiveBack(r, k) ==
  /\ granted[r][k] = month
  /\ granted' = [granted EXCEPT ![r][k] = 0]
  /\ UNCHANGED month

Turn ==
  /\ month + 1 \in Months
  /\ month' = month + 1
  /\ UNCHANGED granted

Next ==
  \/ \E r \in Operations, k \in Kinds : Grant(r, k) \/ GiveBack(r, k)
  \/ Turn

Spec == Init /\ [][Next]_vars
=============================================================================
