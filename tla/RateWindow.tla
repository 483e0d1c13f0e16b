----------------------------- MODULE RateWindow -----------------------------
(***************************************************************************)
(* The Redis keys of one tenant: the fixed-window rate limiter             *)
(* (rate_limit_service.check_rate_limit) and the monthly API request count *)
(* (usage_service.record_api_request) with the database column it is       *)
(* copied to (_sync_api_count).                                            *)
(*                                                                         *)
(* A window has two clocks: its index is the caller's time divided by the  *)
(* window, and its key dies by Redis's time, a window after the first hit. *)
(***************************************************************************)
EXTENDS Integers

CONSTANTS
  Window,       \* RATE_LIMIT_WINDOW_SECONDS
  LastTime      \* bound: the last value of the clock

VARIABLES
  hits,         \* hits[w]: the key of window w, its count and when it dies
  apiHits,      \* the month's request counter in Redis
  apiRow        \* api_request_count of the month's usage_periods row

rateVars == <<hits, apiHits, apiRow>>

ASSUME WindowAssumption == Window \in Nat \ {0}
ASSUME LastTimeAssumption == LastTime \in Nat

Indices == 0..(LastTime \div Window)
NoHits == [n |-> 0, dies |-> 0]

RateTypeOK ==
  /\ hits \in [Indices -> [n : Nat, dies : Nat]]
  /\ apiHits \in Nat /\ apiRow \in Nat

RateInit ==
  /\ hits = [w \in Indices |-> NoHits]
  /\ apiHits = 0
  /\ apiRow = 0

WindowOf(t) == t \div Window

\* Mutant: the key dies a tick before the window does.
HitShort(w, t) ==
  IF hits[w].n = 0 \/ hits[w].dies <= t
  THEN [n |-> 1, dies |-> t + Window - 1]
  ELSE [hits[w] EXCEPT !.n = @ + 1]

\* MULTI, INCR, EXPIRE NX, EXEC at Redis's time t.
Hit(w, t) ==
  IF hits[w].n = 0 \/ hits[w].dies <= t
  THEN [n |-> 1, dies |-> t + Window]
  ELSE [hits[w] EXCEPT !.n = @ + 1]

HitWindow(w, t) == hits' = [hits EXCEPT ![w] = Hit(w, t)]

WithinLimit(w, t, limit) == Hit(w, t).n <= limit

\* record_api_request.
CountRequest == apiHits' = apiHits + 1

\* _sync_api_count's new value of a row it loaded, n being what Redis said, or
\* 0 when Redis could not be asked.
SyncedCount(loaded, n) == IF n > loaded THEN n ELSE loaded

\* The column is written when it changed.
SyncRow(loaded, n) ==
  apiRow' = IF SyncedCount(loaded, n) # loaded THEN SyncedCount(loaded, n) ELSE apiRow
=============================================================================
