----------------------------- MODULE LegacyBase -----------------------------
(***************************************************************************)
(* What the endpoints of the event application (main.py, mounted under     *)
(* /legacy) have in common: the calls that are being worked, the events    *)
(* and the bucket.                                                         *)
(*                                                                         *)
(* A handler never awaits between its queries, but the application runs in *)
(* several workers and containers, so a step is one query with its commit  *)
(* (execute_query) or one method of FaceDatabase, and a worker may die     *)
(* between two of them.  Events, donors and photographers are never        *)
(* deleted, so a handler's look-ups are one step with each other.          *)
(*                                                                         *)
(* A behaviour starts in one of Scenes: the calls that are made, the rows  *)
(* there are, whether queries may fail and how many calls may die.         *)
(***************************************************************************)
EXTENDS Integers, FiniteSets

CONSTANTS
  Calls,     \* the calls of a behaviour; the rows that a call adds are named by it
  Scenes     \* the settings a behaviour may start in

VARIABLES
  scene,     \* the setting of this behaviour
  up,        \* a worker has run _init_db
  pc,        \* pc[c]: where call c stands
  seen,      \* seen[c]: what c has read and will answer
  faulted,   \* history: the calls in which a query or a service failed
  events,    \* the events table
  bucket     \* the objects that create_event and upload-to-db have put

callVars == <<scene, up, pc, seen, faulted>>
shared == <<events, bucket>>

Nothing == [none |-> TRUE]
Resting == {"idle", "done", "failed", "dead"}
Call(c) == scene.calls[c]
At(c, place, ops) == pc[c] = place /\ Call(c).op \in ops
Extend(f, x, y) == [z \in DOMAIN f \cup {x} |-> IF z = x THEN y ELSE f[z]]

BaseInit ==
  /\ scene \in Scenes
  /\ up = FALSE
  /\ pc = [c \in Calls |-> "idle"]
  /\ seen = [c \in Calls |-> Nothing]
  /\ faulted = {}
  /\ events = scene.events
  /\ bucket = {}

MoveWith(c, place, what) ==
  /\ pc' = [pc EXCEPT ![c] = place]
  /\ seen' = [seen EXCEPT ![c] = what]
  /\ UNCHANGED <<scene, up, faulted>>

Move(c, place) == MoveWith(c, place, seen[c])

\* A query or a service fails in a call, which then goes on at place.
Fault(c, place, what) ==
  /\ scene.faults
  /\ pc' = [pc EXCEPT ![c] = place]
  /\ seen' = [seen EXCEPT ![c] = what]
  /\ faulted' = faulted \cup {c}
  /\ UNCHANGED <<scene, up>>

\* What raises in these places, and in no other, is answered with an error: the
\* webhook and process_image log what raises in them and go on.
HandlerPlaces == {"start", "insert", "history", "object", "stats", "delete"}

Abort(c) ==
  /\ pc[c] \in HandlerPlaces
  /\ Call(c).op \notin {"succeeded", "session", "index"}
  /\ ~At(c, "start", {"searchImage"})
  /\ Fault(c, "failed", seen[c])
  /\ UNCHANGED shared

\* upload_to_minio.
Put(c) == bucket' = bucket \cup {c}

\* create_event: the image, then the row.
CreateEvent(c) ==
  /\ Call(c).op = "createEvent"
  /\ \/ pc[c] = "start" /\ Put(c) /\ Move(c, "insert") /\ UNCHANGED events
     \/ /\ pc[c] = "insert"
        /\ events' = events \cup {Call(c).event}
        /\ Move(c, "done") /\ UNCHANGED bucket
=============================================================================
