----------------------------- MODULE LegacyApp -----------------------------
(* The event application: donations and the image index over one database,   *)
(* in workers that start and die.                                            *)
EXTENDS LegacyPayments, LegacyIndex

\* The rows there are at the start are none of the calls', and those of the
\* leaderboard are older than payments.
ASSUME ScenesAssumption ==
  \A s \in Scenes :
    /\ DOMAIN s.images \cap Calls = {} /\ DOMAIN s.board \cap Calls = {}
    /\ \A i \in DOMAIN s.images : /\ DOMAIN s.images[i] = {"source", "event", "processed"}
                                  /\ s.images[i].processed \in BOOLEAN
    /\ \A f \in s.faces : f[1] \in DOMAIN s.images
    /\ s.corrupt \subseteq s.faces
    /\ \A w \in DOMAIN s.board :
         /\ DOMAIN s.board[w] = {"of", "event", "donor", "status"}
         /\ s.board[w].of = NoIntent
         /\ s.board[w].status \in {"null", "pending"} \cup Listed
ASSUME NoIntentAssumption == NoIntent \notin Calls

vars == <<callVars, shared, paymentVars, indexVars>>

TypeOK == PaymentsTypeOK /\ IndexTypeOK

Init == BaseInit /\ PaymentsInit /\ IndexInit

\* A client calls, or Stripe delivers the event of what was paid; an image is
\* deleted by an id that some listing has shown.
Arrive(c) ==
  /\ up
  /\ pc[c] = "idle"
  /\ Call(c).op # "none"
  /\ Call(c).op \in {"succeeded", "session"} => Call(c).of \in paid
  /\ Call(c).op \in {"delete", "searchImage"} => Call(c).image \in DOMAIN images
  /\ Move(c, "start")
  /\ UNCHANGED <<shared, paymentVars, indexVars>>

\* The worker of a call dies; its threads die with it.
Die(c) ==
  /\ pc[c] \notin Resting
  /\ Cardinality({d \in Calls : pc[d] = "dead"}) < scene.deaths
  /\ Move(c, "dead")
  /\ UNCHANGED <<shared, paymentVars, indexVars>>

Next ==
  \/ StartWorker /\ UNCHANGED indexVars
  \/ \E c \in Calls :
       \/ Arrive(c) \/ Die(c)
       \/ (Abort(c) \/ CreateEvent(c)) /\ UNCHANGED <<paymentVars, indexVars>>
       \/ PaymentStep(c) /\ UNCHANGED indexVars
       \/ IndexStep(c) /\ UNCHANGED paymentVars

Spec == Init /\ [][Next]_vars
=============================================================================
