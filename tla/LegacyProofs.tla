---------------------------- MODULE LegacyProofs ----------------------------
(***************************************************************************)
(* Theorems about LegacyApp for every set of calls, every setting and any  *)
(* number of failures and deaths: the payments that are completed, or      *)
(* whose success was acknowledged, are on the leaderboard, and an image    *)
(* that is marked as processed has its faces.                              *)
(***************************************************************************)
EXTENDS LegacyApp, TLAPS

IntentPlaces == {"idle", "start", "insert", "done", "failed", "dead"}
DeliveryPlaces == {"idle", "start", "settle", "done", "dead"}

ControlOK ==
  /\ pc = [c \in Calls |-> pc[c]]
  /\ seen = [c \in Calls |-> seen[c]]
  /\ \A c \in Calls : Call(c).op = "intent" => pc[c] \in IntentPlaces
  /\ \A c \in Calls : Call(c).op = "succeeded" => pc[c] \in DeliveryPlaces

\* What is paid was answered first; an intent that was answered names an event
\* and a donor and has its pending row; a delivery is of what was paid, and has
\* its row when it goes on to the pending one.
MoneyOK ==
  /\ DOMAIN pending \subseteq Calls
  /\ \A w \in DOMAIN board : DOMAIN board[w] = {"of", "event", "donor", "status"}
  /\ \A i \in paid : i \in Calls /\ pc[i] = "done" /\ Call(i).op \in {"intent", "checkout"}
  /\ \A i \in Calls : Call(i).op = "intent" =>
       /\ pc[i] \in {"insert", "done"} => Known(i)
       /\ pc[i] = "done" => i \in DOMAIN pending
  /\ \A w \in Calls : Call(w).op = "succeeded" =>
       /\ pc[w] # "idle" => Call(w).of \in paid
       /\ pc[w] = "settle" => /\ w \in DOMAIN board
                              /\ board[w].of = Call(w).of /\ board[w].status = "completed"

PaymentsInv ==
  ControlOK /\ MoneyOK /\ PendingKeepsTrack /\ OneEventCredits /\ AckedIsCredited

-----------------------------------------------------------------------------
(* Steps that concern no payment.                                          *)

\* A step of call c changes the control of c only.
Moves(c) ==
  /\ pc' = [pc EXCEPT ![c] = pc'[c]]
  /\ seen' = [seen EXCEPT ![c] = seen'[c]]
  /\ scene' = scene
  /\ faulted \subseteq faulted'

\* A step that leaves the payments alone: intents and deliveries only fail or die.
Elsewhere(c) ==
  /\ Moves(c)
  /\ pc[c] # "done"
  /\ Call(c).op = "intent" => pc'[c] \in {"failed", "dead"}
  /\ Call(c).op = "succeeded" => pc[c] # "idle" /\ pc'[c] = "dead"
  /\ events \subseteq events' /\ donors \subseteq donors'
  /\ UNCHANGED <<pending, board, paid>>

LEMMA MovesControl ==
  ASSUME ControlOK, NEW c \in Calls, Moves(c)
  PROVE  /\ pc' = [d \in Calls |-> pc'[d]] /\ seen' = [d \in Calls |-> seen'[d]]
         /\ \A d \in Calls : d # c => pc'[d] = pc[d] /\ seen'[d] = seen[d]
         /\ \A d : Call(d)' = Call(d)
BY DEF ControlOK, Moves, Call

LEMMA ElsewhereKeeps ==
  ASSUME PaymentsInv, NEW c \in Calls, Elsewhere(c)
  PROVE  PaymentsInv'
<1>1. /\ pc' = [d \in Calls |-> pc'[d]] /\ seen' = [d \in Calls |-> seen'[d]]
      /\ \A d \in Calls : d # c => pc'[d] = pc[d]
      /\ \A d : Call(d)' = Call(d)
  BY MovesControl DEF PaymentsInv, Elsewhere
<1>2. \A d : Known(d) => Known(d)'
  BY <1>1 DEF Elsewhere, Known
<1>3. ControlOK'
  BY <1>1 DEF PaymentsInv, ControlOK, Elsewhere, IntentPlaces, DeliveryPlaces
<1>4. MoneyOK'
  <2>1. \A i \in paid' : i \in Calls /\ pc'[i] = "done" /\ Call(i)'.op \in {"intent", "checkout"}
    BY <1>1 DEF PaymentsInv, MoneyOK, Elsewhere
  <2>2. \A i \in Calls : Call(i)'.op = "intent" =>
          /\ pc'[i] \in {"insert", "done"} => Known(i)'
          /\ pc'[i] = "done" => i \in DOMAIN pending'
    BY <1>1, <1>2 DEF PaymentsInv, MoneyOK, Elsewhere
  <2>3. \A w \in Calls : Call(w)'.op = "succeeded" =>
          /\ pc'[w] # "idle" => Call(w)'.of \in paid'
          /\ pc'[w] = "settle" => /\ w \in DOMAIN board'
                                  /\ board'[w].of = Call(w)'.of /\ board'[w].status = "completed"
    BY <1>1 DEF PaymentsInv, MoneyOK, Elsewhere
  <2>4. QED
    BY <2>1, <2>2, <2>3 DEF MoneyOK, PaymentsInv, Elsewhere
<1>5. PendingKeepsTrack'
  BY <1>1 DEF PaymentsInv, PendingKeepsTrack, Elsewhere
<1>6. OneEventCredits'
  BY <1>1 DEF PaymentsInv, OneEventCredits, Elsewhere
<1>7. AckedIsCredited'
  BY <1>1 DEF PaymentsInv, AckedIsCredited, Elsewhere, Moves
<1>8. QED
  BY <1>3, <1>4, <1>5, <1>6, <1>7 DEF PaymentsInv

\* A step of the index is a step of a call that is in none of the payments'
\* places.
LEMMA IndexElsewhere ==
  ASSUME PaymentsInv, NEW c \in Calls, IndexStep(c), UNCHANGED paymentVars
  PROVE  Elsewhere(c)
<1> USE DEF PaymentsInv, ControlOK, IntentPlaces, DeliveryPlaces, Moves, Elsewhere, Move, MoveWith,
            Fault, shared, paymentVars, At
<1>1. CASE CreateCuser(c)
  BY <1>1 DEF CreateCuser
<1>2. CASE Upload(c)
  BY <1>2 DEF Upload
<1>3. CASE Queue(c)
  BY <1>3 DEF Queue, Searching
<1>4. CASE ReadImage(c)
  BY <1>4 DEF ReadImage, Ready
<1>5. CASE CheckProcessed(c)
  BY <1>5 DEF CheckProcessed
<1>6. CASE AddImage(c)
  BY <1>6 DEF AddImage
<1>7. CASE AddFace(c)
  BY <1>7 DEF AddFace
<1>8. CASE LoseFace(c)
  BY <1>8 DEF LoseFace
<1>9. CASE MarkProcessed(c)
  BY <1>9 DEF MarkProcessed
<1>10. CASE JobFails(c)
  BY <1>10 DEF JobFails, Ready
<1>11. CASE Snapshot(c)
  BY <1>11 DEF Snapshot
<1>12. CASE Format(c)
  BY <1>12 DEF Format
<1>13. CASE FormatBare(c)
  BY <1>13 DEF FormatBare
<1>14. CASE DeleteImage(c)
  BY <1>14 DEF DeleteImage
<1>15. CASE ClearCorruptedFaces(c)
  BY <1>15 DEF ClearCorruptedFaces
<1>16. QED
  BY <1>1, <1>2, <1>3, <1>4, <1>5, <1>6, <1>7, <1>8, <1>9, <1>10, <1>11, <1>12, <1>13, <1>14, <1>15
  DEF IndexStep

-----------------------------------------------------------------------------
(* The steps of the payments.                                              *)

LEMMA MoveIs ==
  ASSUME ControlOK, NEW c \in Calls, NEW place, NEW what,
         MoveWith(c, place, what) \/ Fault(c, place, what)
  PROVE  Moves(c) /\ pc'[c] = place
BY DEF ControlOK, MoveWith, Fault, Moves

LEMMA ArriveKeeps ==
  ASSUME PaymentsInv, NEW c \in Calls, Arrive(c)
  PROVE  PaymentsInv'
<1>1. Moves(c) /\ pc'[c] = "start" /\ pc[c] = "idle"
  BY MoveIs DEF Arrive, Move, PaymentsInv
<1>2. /\ pc' = [d \in Calls |-> pc'[d]] /\ seen' = [d \in Calls |-> seen'[d]]
      /\ \A d \in Calls : d # c => pc'[d] = pc[d]
      /\ \A d : Call(d)' = Call(d)
  BY <1>1, MovesControl DEF PaymentsInv
<1>3. /\ UNCHANGED <<events, donors, pending, board, paid>>
      /\ Call(c).op = "succeeded" => Call(c).of \in paid
  BY DEF Arrive, shared, paymentVars
<1>4. \A d : Known(d)' <=> Known(d)
  BY <1>2, <1>3 DEF Known
<1>5. ControlOK'
  BY <1>1, <1>2 DEF PaymentsInv, ControlOK, IntentPlaces, DeliveryPlaces
<1>6. MoneyOK'
  BY <1>1, <1>2, <1>3, <1>4 DEF PaymentsInv, MoneyOK
<1>7. PendingKeepsTrack' /\ OneEventCredits' /\ AckedIsCredited'
  BY <1>1, <1>2, <1>3
  DEF PaymentsInv, PendingKeepsTrack, OneEventCredits, AckedIsCredited, Moves
<1>8. QED
  BY <1>5, <1>6, <1>7 DEF PaymentsInv

LEMMA CheckKeeps ==
  ASSUME PaymentsInv, NEW c \in Calls, CheckDonation(c)
  PROVE  PaymentsInv'
<1>1. /\ Moves(c) /\ pc[c] = "start" /\ pc'[c] \in {"insert", "failed"}
      /\ pc'[c] = "insert" => Known(c)
      /\ Call(c).op # "succeeded"
  BY MoveIs DEF CheckDonation, Move, At, PaymentsInv
<1>2. /\ pc' = [d \in Calls |-> pc'[d]] /\ seen' = [d \in Calls |-> seen'[d]]
      /\ \A d \in Calls : d # c => pc'[d] = pc[d]
      /\ \A d : Call(d)' = Call(d)
  BY <1>1, MovesControl DEF PaymentsInv
<1>3. UNCHANGED <<events, donors, pending, board, paid>>
  BY DEF CheckDonation, shared, paymentVars
<1>4. \A d : Known(d)' <=> Known(d)
  BY <1>2, <1>3 DEF Known
<1>5. ControlOK'
  BY <1>1, <1>2 DEF PaymentsInv, ControlOK, IntentPlaces, DeliveryPlaces
<1>6. MoneyOK'
  BY <1>1, <1>2, <1>3, <1>4 DEF PaymentsInv, MoneyOK
<1>7. PendingKeepsTrack' /\ OneEventCredits' /\ AckedIsCredited'
  BY <1>1, <1>2, <1>3
  DEF PaymentsInv, PendingKeepsTrack, OneEventCredits, AckedIsCredited, Moves
<1>8. QED
  BY <1>5, <1>6, <1>7 DEF PaymentsInv

\* The pending row is there before the client can pay.
LEMMA StoreKeeps ==
  ASSUME PaymentsInv, NEW c \in Calls, StorePending(c)
  PROVE  PaymentsInv'
<1>1. /\ Moves(c) /\ pc[c] = "insert" /\ pc'[c] = "done" /\ Call(c).op = "intent"
  BY MoveIs DEF StorePending, Move, At, PaymentsInv
<1>2. /\ pc' = [d \in Calls |-> pc'[d]] /\ seen' = [d \in Calls |-> seen'[d]]
      /\ \A d \in Calls : d # c => pc'[d] = pc[d]
      /\ \A d : Call(d)' = Call(d)
  BY <1>1, MovesControl DEF PaymentsInv
<1>3. /\ UNCHANGED <<events, donors, board, paid>>
      /\ DOMAIN pending' = DOMAIN pending \cup {c}
      /\ \A i \in DOMAIN pending' : pending'[i] = IF i = c THEN "pending" ELSE pending[i]
  BY DEF StorePending, shared, Extend
<1>4. \A d : Known(d)' <=> Known(d)
  BY <1>2, <1>3 DEF Known
<1>5. ControlOK'
  BY <1>1, <1>2 DEF PaymentsInv, ControlOK, IntentPlaces, DeliveryPlaces
<1>6. MoneyOK'
  BY <1>1, <1>2, <1>3, <1>4 DEF PaymentsInv, MoneyOK
<1>7. PendingKeepsTrack'
  BY <1>2, <1>3 DEF PaymentsInv, PendingKeepsTrack
<1>8. OneEventCredits' /\ AckedIsCredited'
  BY <1>1, <1>2, <1>3 DEF PaymentsInv, OneEventCredits, AckedIsCredited, Moves
<1>9. QED
  BY <1>5, <1>6, <1>7, <1>8 DEF PaymentsInv

LEMMA PayKeeps ==
  ASSUME PaymentsInv, NEW c \in Calls, Pay(c)
  PROVE  PaymentsInv'
<1>1. /\ UNCHANGED <<scene, pc, seen, faulted, events, donors, pending, board>>
      /\ paid' = paid \cup {c}
      /\ pc[c] = "done" /\ Call(c).op \in {"intent", "checkout"}
  BY DEF Pay, callVars, shared
<1>2. \A d : Call(d)' = Call(d) /\ (Known(d)' <=> Known(d))
  BY <1>1 DEF Call, Known
<1>3. ControlOK'
  BY <1>1, <1>2 DEF PaymentsInv, ControlOK
<1>4. MoneyOK'
  BY <1>1, <1>2 DEF PaymentsInv, MoneyOK
<1>5. PendingKeepsTrack'
  BY <1>1, <1>2 DEF PaymentsInv, PendingKeepsTrack, MoneyOK
<1>6. OneEventCredits' /\ AckedIsCredited'
  BY <1>1, <1>2 DEF PaymentsInv, OneEventCredits, AckedIsCredited
<1>7. QED
  BY <1>3, <1>4, <1>5, <1>6 DEF PaymentsInv

-----------------------------------------------------------------------------
(* The steps that write the leaderboard.                                   *)

\* Nothing but a direct donation's row of its own is overwritten by one.
LEMMA DirectKeeps ==
  ASSUME PaymentsInv, NEW c \in Calls, DonateDirect(c)
  PROVE  PaymentsInv'
<1>1. Moves(c) /\ pc[c] = "insert" /\ pc'[c] = "done" /\ Call(c).op = "direct"
  BY MoveIs DEF DonateDirect, Move, At, PaymentsInv
<1>2. /\ pc' = [d \in Calls |-> pc'[d]] /\ seen' = [d \in Calls |-> seen'[d]]
      /\ \A d \in Calls : d # c => pc'[d] = pc[d]
      /\ \A d : Call(d)' = Call(d)
  BY <1>1, MovesControl DEF PaymentsInv
<1>3. /\ UNCHANGED <<events, donors, pending, paid>>
      /\ DOMAIN board' = DOMAIN board \cup {c}
      /\ \A w \in DOMAIN board' : w # c => board'[w] = board[w]
      /\ board'[c].of = NoIntent /\ DOMAIN board'[c] = {"of", "event", "donor", "status"}
  BY DEF DonateDirect, shared, Extend, Donation
<1>4. \A d : Known(d)' <=> Known(d)
  BY <1>2, <1>3 DEF Known
<1>5. c \in DOMAIN board => board[c].of \notin Calls
  BY <1>1 DEF PaymentsInv, OneEventCredits
<1>7. ControlOK'
  BY <1>1, <1>2 DEF PaymentsInv, ControlOK
<1>8. MoneyOK'
  BY <1>1, <1>2, <1>3, <1>4 DEF PaymentsInv, MoneyOK
<1>9. PendingKeepsTrack'
  <2>1. \A i \in paid' : Call(i)'.op = "intent" => i \in DOMAIN pending'
    BY <1>2, <1>3 DEF PaymentsInv, PendingKeepsTrack
  <2>2. ASSUME NEW i \in DOMAIN pending', pending'[i] = "completed"
        PROVE  \E w \in DOMAIN board' : board'[w].of = i /\ board'[w].status = "completed"
    <3>1. PICK w \in DOMAIN board : board[w].of = i /\ board[w].status = "completed"
      BY <1>3, <2>2 DEF PaymentsInv, PendingKeepsTrack
    <3>2. QED
      BY <1>3, <1>5, <3>1, <2>2 DEF PaymentsInv, MoneyOK
  <2>3. QED
    BY <2>1, <2>2 DEF PendingKeepsTrack
<1>10. OneEventCredits'
  BY <1>2, <1>3, NoIntentAssumption DEF PaymentsInv, OneEventCredits
<1>11. AckedIsCredited'
  BY <1>1, <1>2, <1>3 DEF PaymentsInv, AckedIsCredited, Moves
<1>12. QED
  BY <1>7, <1>8, <1>9, <1>10, <1>11 DEF PaymentsInv

LEMMA CreditKeeps ==
  ASSUME PaymentsInv, NEW c \in Calls, Credit(c)
  PROVE  PaymentsInv'
<1> DEFINE i == Call(c).of
<1> DEFINE inserted == Known(i) /\ DetailsFit(i)
<1>1. /\ Moves(c) /\ pc[c] = "start" /\ Call(c).op = "succeeded"
      /\ pc'[c] = IF inserted THEN "settle" ELSE "done"
  BY MoveIs DEF Credit, Move, At, PaymentsInv
<1>2. /\ pc' = [d \in Calls |-> pc'[d]] /\ seen' = [d \in Calls |-> seen'[d]]
      /\ \A d \in Calls : d # c => pc'[d] = pc[d]
      /\ \A d : Call(d)' = Call(d)
  BY <1>1, MovesControl DEF PaymentsInv
<1>3. /\ UNCHANGED <<events, donors, pending, paid>>
      /\ ~inserted => board' = board
      /\ inserted => /\ DOMAIN board' = DOMAIN board \cup {c}
                     /\ \A w \in DOMAIN board' : w # c => board'[w] = board[w]
                     /\ board'[c].of = i /\ board'[c].status = "completed"
                     /\ DOMAIN board'[c] = {"of", "event", "donor", "status"}
  BY DEF Credit, shared, Extend, Donation
<1>4. \A d : Known(d)' <=> Known(d)
  BY <1>2, <1>3 DEF Known
<1>5. i \in paid
  BY <1>1 DEF PaymentsInv, MoneyOK
<1>6. c \in DOMAIN board /\ board[c].of \in Calls => board[c].of = i
  BY DEF PaymentsInv, OneEventCredits
<1>7. ControlOK'
  BY <1>1, <1>2 DEF PaymentsInv, ControlOK, IntentPlaces, DeliveryPlaces
<1>8. MoneyOK'
  <2>1. /\ DOMAIN pending' \subseteq Calls
        /\ \A w \in DOMAIN board' : DOMAIN board'[w] = {"of", "event", "donor", "status"}
    BY <1>3 DEF PaymentsInv, MoneyOK
  <2>2. \A j \in paid' : j \in Calls /\ pc'[j] = "done" /\ Call(j)'.op \in {"intent", "checkout"}
    BY <1>1, <1>2, <1>3 DEF PaymentsInv, MoneyOK
  <2>3. \A j \in Calls : Call(j)'.op = "intent" =>
          /\ pc'[j] \in {"insert", "done"} => Known(j)'
          /\ pc'[j] = "done" => j \in DOMAIN pending'
    BY <1>1, <1>2, <1>3, <1>4 DEF PaymentsInv, MoneyOK
  <2>4. ASSUME NEW w \in Calls, Call(w)'.op = "succeeded"
        PROVE  /\ pc'[w] # "idle" => Call(w)'.of \in paid'
               /\ pc'[w] = "settle" => /\ w \in DOMAIN board'
                                       /\ board'[w].of = Call(w)'.of /\ board'[w].status = "completed"
    <3>1. CASE w = c
      BY <1>1, <1>2, <1>3, <1>5, <3>1
    <3>2. CASE w # c
      BY <1>2, <1>3, <2>4, <3>2 DEF PaymentsInv, MoneyOK
    <3>3. QED
      BY <3>1, <3>2
  <2>5. QED
    BY <2>1, <2>2, <2>3, <2>4 DEF MoneyOK
<1>9. PendingKeepsTrack'
  <2>1. \A j \in paid' : Call(j)'.op = "intent" => j \in DOMAIN pending'
    BY <1>2, <1>3 DEF PaymentsInv, PendingKeepsTrack
  <2>2. ASSUME NEW j \in DOMAIN pending', pending'[j] = "completed"
        PROVE  \E w \in DOMAIN board' : board'[w].of = j /\ board'[w].status = "completed"
    <3>1. PICK w \in DOMAIN board : board[w].of = j /\ board[w].status = "completed"
      BY <1>3, <2>2 DEF PaymentsInv, PendingKeepsTrack
    <3>2. j \in Calls
      BY <1>3 DEF PaymentsInv, MoneyOK
    <3>3. QED
      BY <1>3, <1>6, <3>1, <3>2
  <2>3. QED
    BY <2>1, <2>2 DEF PendingKeepsTrack
<1>10. OneEventCredits'
  BY <1>1, <1>2, <1>3, <1>5 DEF PaymentsInv, OneEventCredits
<1>11. AckedIsCredited'
  <2>1. ASSUME NEW w \in Calls, pc'[w] = "done", Call(w).op = "succeeded"
        PROVE  w \in DOMAIN board' \/ w \in faulted' \/ Call(Call(w).of).op = "checkout"
    <3>1. CASE w # c
      BY <1>1, <1>2, <1>3, <2>1, <3>1 DEF PaymentsInv, AckedIsCredited, Moves
    <3>2. CASE w = c
      <4>1. ~inserted
        BY <1>1, <2>1, <3>2
      <4>2. Call(i).op = "intent" => Known(i) /\ DetailsFit(i)
        BY <1>5 DEF PaymentsInv, MoneyOK, DetailsFit
      <4>3. QED
        BY <1>5, <3>2, <4>1, <4>2 DEF PaymentsInv, MoneyOK
    <3>3. QED
      BY <3>1, <3>2
  <2>2. QED
    BY <1>2, <2>1 DEF AckedIsCredited
<1>12. QED
  BY <1>7, <1>8, <1>9, <1>10, <1>11 DEF PaymentsInv

\* Only a delivery that has its row completes a pending payment.
LEMMA SettleKeeps ==
  ASSUME PaymentsInv, NEW c \in Calls, Settle(c)
  PROVE  PaymentsInv'
<1> DEFINE i == Call(c).of
<1>1. Moves(c) /\ pc[c] = "settle" /\ Call(c).op = "succeeded" /\ pc'[c] = "done"
  BY MoveIs DEF Settle, Move, At, PaymentsInv
<1>2. /\ pc' = [d \in Calls |-> pc'[d]] /\ seen' = [d \in Calls |-> seen'[d]]
      /\ \A d \in Calls : d # c => pc'[d] = pc[d]
      /\ \A d : Call(d)' = Call(d)
  BY <1>1, MovesControl DEF PaymentsInv
<1>3. /\ UNCHANGED <<events, donors, board, paid>>
      /\ DOMAIN pending' = DOMAIN pending
      /\ \A j \in DOMAIN pending : j # i => pending'[j] = pending[j]
  BY DEF Settle, shared
<1>4. \A d : Known(d)' <=> Known(d)
  BY <1>2, <1>3 DEF Known
<1>5. c \in DOMAIN board /\ board[c].of = i /\ board[c].status = "completed"
  BY <1>1 DEF PaymentsInv, MoneyOK
<1>6. ControlOK'
  BY <1>1, <1>2 DEF PaymentsInv, ControlOK, IntentPlaces, DeliveryPlaces
<1>7. MoneyOK'
  BY <1>1, <1>2, <1>3, <1>4 DEF PaymentsInv, MoneyOK
<1>8. PendingKeepsTrack'
  BY <1>2, <1>3, <1>5 DEF PaymentsInv, PendingKeepsTrack
<1>9. OneEventCredits' /\ AckedIsCredited'
  BY <1>1, <1>2, <1>3, <1>5 DEF PaymentsInv, OneEventCredits, AckedIsCredited, Moves
<1>10. QED
  BY <1>6, <1>7, <1>8, <1>9 DEF PaymentsInv

LEMMA FailureKeeps ==
  ASSUME PaymentsInv, NEW c \in Calls, WebhookFails(c)
  PROVE  PaymentsInv'
<1>1. /\ Moves(c) /\ pc[c] \in {"start", "settle"} /\ Call(c).op = "succeeded" /\ pc'[c] = "done"
      /\ faulted' = faulted \cup {c}
  BY MoveIs DEF WebhookFails, Fault, At, PaymentsInv
<1>2. /\ pc' = [d \in Calls |-> pc'[d]] /\ seen' = [d \in Calls |-> seen'[d]]
      /\ \A d \in Calls : d # c => pc'[d] = pc[d]
      /\ \A d : Call(d)' = Call(d)
  BY <1>1, MovesControl DEF PaymentsInv
<1>3. UNCHANGED <<events, donors, pending, board, paid>>
  BY DEF WebhookFails, shared, paymentVars
<1>4. \A d : Known(d)' <=> Known(d)
  BY <1>2, <1>3 DEF Known
<1>5. ControlOK'
  BY <1>1, <1>2 DEF PaymentsInv, ControlOK, IntentPlaces, DeliveryPlaces
<1>6. MoneyOK'
  BY <1>1, <1>2, <1>3, <1>4 DEF PaymentsInv, MoneyOK
<1>7. PendingKeepsTrack' /\ OneEventCredits' /\ AckedIsCredited'
  BY <1>1, <1>2, <1>3 DEF PaymentsInv, PendingKeepsTrack, OneEventCredits, AckedIsCredited
<1>8. QED
  BY <1>5, <1>6, <1>7 DEF PaymentsInv

\* A worker that starts relabels no payment.
LEMMA StartKeeps ==
  ASSUME PaymentsInv, StartWorker
  PROVE  PaymentsInv'
<1>1. /\ UNCHANGED <<scene, pc, seen, faulted, events, donors, pending, paid>>
      /\ DOMAIN board' = DOMAIN board
      /\ \A w \in DOMAIN board : board'[w] =
           [board[w] EXCEPT !.status = IF @ \in {"null", "pending"} THEN "direct" ELSE @]
  BY DEF StartWorker, shared, Relabelled
<1>2. \A d : Call(d)' = Call(d) /\ (Known(d)' <=> Known(d))
  BY <1>1 DEF Call, Known
<1>3. \A w \in DOMAIN board :
        /\ DOMAIN board'[w] = {"of", "event", "donor", "status"}
        /\ board'[w].of = board[w].of
        /\ board[w].status = "completed" => board'[w].status = "completed"
  BY <1>1 DEF PaymentsInv, MoneyOK
<1>4. ControlOK'
  BY <1>1, <1>2 DEF PaymentsInv, ControlOK
<1>5. MoneyOK'
  BY <1>1, <1>2, <1>3 DEF PaymentsInv, MoneyOK
<1>6. PendingKeepsTrack'
  BY <1>1, <1>2, <1>3 DEF PaymentsInv, PendingKeepsTrack
<1>7. OneEventCredits' /\ AckedIsCredited'
  BY <1>1, <1>2, <1>3 DEF PaymentsInv, OneEventCredits, AckedIsCredited
<1>8. QED
  BY <1>4, <1>5, <1>6, <1>7 DEF PaymentsInv

-----------------------------------------------------------------------------
LEMMA PaymentStepKeeps ==
  ASSUME PaymentsInv, NEW c \in Calls, PaymentStep(c)
  PROVE  PaymentsInv'
<1>1. CASE CreateDuser(c) \/ CreateCheckoutSession(c) \/ Donate(c) \/ Cart(c)
  BY <1>1, MoveIs, ElsewhereKeeps
  DEF PaymentsInv, CreateDuser, CreateCheckoutSession, Donate, Cart, Move, At, Elsewhere, shared, paymentVars
<1>2. CASE SessionCompleted(c)
  BY <1>2, MoveIs, ElsewhereKeeps
  DEF PaymentsInv, SessionCompleted, SessionCredits, Move, At, Elsewhere, shared
<1>3. CASE ReadEntries(c) \/ ReadStatistics(c)
  <2>1. Moves(c) /\ pc[c] # "done" /\ Call(c).op = "page"
    BY <1>3, MoveIs DEF PaymentsInv, ReadEntries, ReadStatistics, Move, At
  <2>2. QED
    BY <1>3, <2>1, ElsewhereKeeps DEF ReadEntries, ReadStatistics, Elsewhere, shared, paymentVars
<1>4. QED
  BY <1>1, <1>2, <1>3, CheckKeeps, StoreKeeps, DirectKeeps, PayKeeps, CreditKeeps, SettleKeeps,
     FailureKeeps DEF PaymentStep

LEMMA PaymentsStart ==
  ASSUME Init
  PROVE  PaymentsInv
<1>1. scene \in Scenes /\ pc = [c \in Calls |-> "idle"] /\ seen = [c \in Calls |-> Nothing]
  BY DEF Init, BaseInit
<1>2. DOMAIN pending = {} /\ board = scene.board /\ paid = {}
  BY DEF Init, PaymentsInit
<1>3. ControlOK
  BY <1>1 DEF ControlOK, IntentPlaces, DeliveryPlaces
<1>4. MoneyOK
  BY <1>1, <1>2, ScenesAssumption DEF MoneyOK
<1>5. PendingKeepsTrack /\ AckedIsCredited
  BY <1>1, <1>2 DEF PendingKeepsTrack, AckedIsCredited
<1>6. OneEventCredits
  BY <1>1, <1>2, ScenesAssumption, NoIntentAssumption DEF OneEventCredits
<1>7. QED
  BY <1>3, <1>4, <1>5, <1>6 DEF PaymentsInv

LEMMA PaymentsStep ==
  ASSUME PaymentsInv, [Next]_vars
  PROVE  PaymentsInv'
<1>1. CASE StartWorker
  BY <1>1, StartKeeps
<1>2. ASSUME NEW c \in Calls, Arrive(c)
      PROVE  PaymentsInv'
  BY <1>2, ArriveKeeps
<1>3. ASSUME NEW c \in Calls, Die(c)
      PROVE  PaymentsInv'
  BY <1>3, MoveIs, ElsewhereKeeps
  DEF PaymentsInv, Die, Move, Resting, Elsewhere, shared, paymentVars
<1>4. ASSUME NEW c \in Calls, Abort(c), UNCHANGED paymentVars
      PROVE  PaymentsInv'
  BY <1>4, MoveIs, ElsewhereKeeps DEF PaymentsInv, Abort, HandlerPlaces, Elsewhere, shared, paymentVars
<1>5. ASSUME NEW c \in Calls, CreateEvent(c), UNCHANGED paymentVars
      PROVE  PaymentsInv'
  <2>1. Moves(c) /\ pc[c] # "done" /\ Call(c).op = "createEvent" /\ events \subseteq events'
    BY <1>5, MoveIs DEF PaymentsInv, CreateEvent, Move
  <2>2. QED
    BY <1>5, <2>1, ElsewhereKeeps DEF Elsewhere, paymentVars
<1>6. ASSUME NEW c \in Calls, PaymentStep(c)
      PROVE  PaymentsInv'
  BY <1>6, PaymentStepKeeps
<1>7. ASSUME NEW c \in Calls, IndexStep(c), UNCHANGED paymentVars
      PROVE  PaymentsInv'
  BY <1>7, IndexElsewhere, ElsewhereKeeps
<1>8. CASE UNCHANGED vars
  BY <1>8 DEF vars, callVars, shared, paymentVars, PaymentsInv, ControlOK, MoneyOK, PendingKeepsTrack,
     OneEventCredits, AckedIsCredited, Call, Known
<1>9. QED
  BY <1>1, <1>2, <1>3, <1>4, <1>5, <1>6, <1>7, <1>8 DEF Next

\* A payment from create_payment_intent can be looked up once it is made, and is
\* on the leaderboard when it is said to be completed.
THEOREM PendingTracked == Spec => []PendingKeepsTrack
<1>1. PaymentsInv => PendingKeepsTrack
  BY DEF PaymentsInv
<1>2. QED
  BY <1>1, PaymentsStart, PaymentsStep, PTL DEF Spec

\* Of the events that Stripe raises for one payment only one credits it.
THEOREM CreditedByOneEvent == Spec => []OneEventCredits
<1>1. PaymentsInv => OneEventCredits
  BY DEF PaymentsInv
<1>2. QED
  BY <1>1, PaymentsStart, PaymentsStep, PTL DEF Spec

\* A delivery that was acknowledged has credited its donation, failures of its own
\* queries and unchecked checkouts apart.
THEOREM AcknowledgedIsCredited == Spec => []AckedIsCredited
<1>1. PaymentsInv => AckedIsCredited
  BY DEF PaymentsInv
<1>2. QED
  BY <1>1, PaymentsStart, PaymentsStep, PTL DEF Spec

-----------------------------------------------------------------------------
(* The index.                                                              *)

Stored(c, p) == <<c, p>> \in faces \cup lost

\* An image whose job is at its faces has those that are done with; one whose job
\* is about to mark it has them all.  No call's face is corrupt.
IndexInv ==
  /\ ControlOK
  /\ scene \in Scenes
  /\ ProcessedMeansIndexed
  /\ \A c \in Calls \cap DOMAIN images :
       /\ pc[c] = "mark" => \A p \in Call(c).people : Stored(c, p)
       /\ pc[c] = "face" => \A p \in Call(c).people \ seen[c].todo : Stored(c, p)

\* A step that takes no job to its faces, marks nothing and takes no face from an
\* image that stays.
LEMMA AsideKeeps ==
  ASSUME IndexInv, NEW c \in Calls, Moves(c), ControlOK', pc'[c] \notin {"face", "mark"},
         \A d \in Calls \cap DOMAIN images' :
           /\ d \in DOMAIN images /\ (images'[d].processed => images[d].processed)
           /\ \A p : Stored(d, p) => Stored(d, p)'
  PROVE  IndexInv'
<1>1. /\ \A d \in Calls : d # c => pc'[d] = pc[d] /\ seen'[d] = seen[d]
      /\ \A d : Call(d)' = Call(d)
      /\ scene' = scene
  BY MovesControl DEF IndexInv, Moves
<1>2. ProcessedMeansIndexed'
  BY <1>1 DEF IndexInv, ProcessedMeansIndexed, Stored
<1>3. QED
  BY <1>1, <1>2 DEF IndexInv

LEMMA AddImageKeeps ==
  ASSUME IndexInv, ControlOK', NEW c \in Calls, AddImage(c), Call(c).event \in events \cup {AnyEvent}
  PROVE  IndexInv'
<1>1. /\ Moves(c) /\ seen'[c] = Result(Call(c).people, {}, {})
      /\ pc'[c] = AfterFace(Call(c).people)
  BY DEF AddImage, MoveWith, Moves, IndexInv, ControlOK
<1>2. /\ \A d \in Calls : d # c => pc'[d] = pc[d] /\ seen'[d] = seen[d]
      /\ \A d : Call(d)' = Call(d)
      /\ scene' = scene
  BY <1>1, MovesControl DEF IndexInv, Moves
<1>3. /\ DOMAIN images' = DOMAIN images \cup {c} /\ images'[c].processed = FALSE
      /\ \A d \in DOMAIN images' : d # c => images'[d] = images[d]
      /\ UNCHANGED <<faces, lost>>
  BY DEF AddImage, Extend, NewImage
<1>4. ProcessedMeansIndexed'
  BY <1>2, <1>3 DEF IndexInv, ProcessedMeansIndexed
<1>5. ASSUME NEW d \in Calls \cap DOMAIN images'
      PROVE  /\ pc'[d] = "mark" => \A p \in Call(d)'.people : Stored(d, p)'
             /\ pc'[d] = "face" => \A p \in Call(d)'.people \ seen'[d].todo : Stored(d, p)'
  <2>1. CASE d = c
    BY <1>1, <1>2, <2>1 DEF AfterFace, Result
  <2>2. CASE d # c
    BY <1>2, <1>3, <2>2 DEF IndexInv, Stored
  <2>3. QED
    BY <2>1, <2>2
<1>6. QED
  BY <1>2, <1>4, <1>5 DEF IndexInv

\* One more face of c's image is done with.
DoneWith(c, p) ==
  /\ Moves(c) /\ pc[c] = "face"
  /\ seen'[c].todo = seen[c].todo \ {p} /\ pc'[c] = AfterFace(seen[c].todo \ {p})
  /\ faces \subseteq faces' /\ lost \subseteq lost' /\ images' = images
  /\ <<c, p>> \in faces' \cup lost'

LEMMA AddFaceDone ==
  ASSUME ControlOK, NEW c \in Calls, AddFace(c)
  PROVE  \E p \in seen[c].todo : DoneWith(c, p)
<1>1. PICK p \in seen[c].todo :
        LET rest == seen[c].todo \ {p} IN
          \/ /\ faces' = faces \cup {<<c, p>>} /\ lost' = lost
             /\ MoveWith(c, AfterFace(rest), Result(rest, seen[c].answer \cup {<<c, p>>}, {}))
          \/ /\ lost' = lost \cup {<<c, p>>} /\ faces' = faces
             /\ MoveWith(c, AfterFace(rest), Result(rest, seen[c].answer, {}))
  BY DEF AddFace
<1>2. images' = images /\ pc[c] = "face"
  BY DEF AddFace
<1>3. <<c, p>> \in faces' \cup lost' /\ faces \subseteq faces' /\ lost \subseteq lost'
  BY <1>1
<1>4. \E answer : MoveWith(c, AfterFace(seen[c].todo \ {p}), Result(seen[c].todo \ {p}, answer, {}))
  BY <1>1
<1>5. /\ Moves(c) /\ pc'[c] = AfterFace(seen[c].todo \ {p})
      /\ seen'[c].todo = seen[c].todo \ {p}
  BY <1>4 DEF MoveWith, Moves, ControlOK, Result
<1>6. QED
  BY <1>2, <1>3, <1>5 DEF DoneWith

LEMMA LoseFaceDone ==
  ASSUME ControlOK, NEW c \in Calls, LoseFace(c)
  PROVE  \E p \in seen[c].todo : DoneWith(c, p)
<1>1. PICK p \in seen[c].todo :
        /\ lost' = lost \cup {<<c, p>>}
        /\ Fault(c, AfterFace(seen[c].todo \ {p}), Result(seen[c].todo \ {p}, seen[c].answer, {}))
  BY DEF LoseFace
<1>2. images' = images /\ faces' = faces /\ pc[c] = "face"
  BY DEF LoseFace
<1>3. /\ Moves(c) /\ pc'[c] = AfterFace(seen[c].todo \ {p})
      /\ seen'[c].todo = seen[c].todo \ {p}
  BY <1>1 DEF Fault, Moves, ControlOK, Result
<1>4. QED
  BY <1>1, <1>2, <1>3 DEF DoneWith

LEMMA FaceKeeps ==
  ASSUME IndexInv, ControlOK', NEW c \in Calls, AddFace(c) \/ LoseFace(c)
  PROVE  IndexInv'
<1>1. PICK p \in seen[c].todo :
        /\ Moves(c) /\ pc[c] = "face"
        /\ seen'[c].todo = seen[c].todo \ {p} /\ pc'[c] = AfterFace(seen[c].todo \ {p})
        /\ faces \subseteq faces' /\ lost \subseteq lost' /\ images' = images
        /\ <<c, p>> \in faces' \cup lost'
  BY AddFaceDone, LoseFaceDone DEF DoneWith, IndexInv
<1>2. /\ \A d \in Calls : d # c => pc'[d] = pc[d] /\ seen'[d] = seen[d]
      /\ \A d : Call(d)' = Call(d)
      /\ scene' = scene
  BY <1>1, MovesControl DEF IndexInv, Moves
<1>3. \A d, q : Stored(d, q) => Stored(d, q)'
  BY <1>1 DEF Stored
<1>4. ProcessedMeansIndexed'
  BY <1>1, <1>2, <1>3 DEF IndexInv, ProcessedMeansIndexed, Stored
<1>5. ASSUME NEW d \in Calls \cap DOMAIN images'
      PROVE  /\ pc'[d] = "mark" => \A q \in Call(d)'.people : Stored(d, q)'
             /\ pc'[d] = "face" => \A q \in Call(d)'.people \ seen'[d].todo : Stored(d, q)'
  <2>1. CASE d = c
    <3>1. \A q \in Call(c).people \ (seen[c].todo \ {p}) : Stored(c, q)'
      BY <1>1, <1>3, <2>1 DEF IndexInv, Stored
    <3>2. QED
      BY <1>1, <1>2, <2>1, <3>1 DEF AfterFace
  <2>2. CASE d # c
    BY <1>1, <1>2, <1>3, <2>2 DEF IndexInv
  <2>3. QED
    BY <2>1, <2>2
<1>6. QED
  BY <1>2, <1>4, <1>5 DEF IndexInv

\* Only an image that has its faces is marked.
LEMMA MarkKeeps ==
  ASSUME IndexInv, ControlOK', NEW c \in Calls, MarkProcessed(c)
  PROVE  IndexInv'
<1>1. Moves(c) /\ pc[c] = "mark" /\ pc'[c] \notin {"face", "mark"}
  BY DEF MarkProcessed, Move, MoveWith, Moves, EndOf, IndexInv, ControlOK
<1>2. /\ \A d \in Calls : d # c => pc'[d] = pc[d] /\ seen'[d] = seen[d]
      /\ \A d : Call(d)' = Call(d)
      /\ scene' = scene
  BY <1>1, MovesControl DEF IndexInv, Moves
<1>3. /\ DOMAIN images' = DOMAIN images
      /\ \A d \in DOMAIN images : d # c => images'[d] = images[d]
      /\ UNCHANGED <<faces, lost>>
  BY DEF MarkProcessed
<1>4. ProcessedMeansIndexed'
  BY <1>1, <1>2, <1>3 DEF IndexInv, ProcessedMeansIndexed, Stored
<1>5. QED
  BY <1>1, <1>2, <1>3, <1>4 DEF IndexInv, Stored

\* The clean-up takes only faces that no call has added.
LEMMA RemovalKeeps ==
  ASSUME IndexInv, ControlOK', NEW c \in Calls, DeleteImage(c) \/ ClearCorruptedFaces(c)
  PROVE  IndexInv'
<1>1. Moves(c) /\ pc'[c] \notin {"face", "mark"}
  BY DEF DeleteImage, ClearCorruptedFaces, Move, MoveWith, Moves, IndexInv, ControlOK
<1>2. \A d \in Calls : \A p : <<d, p>> \notin scene.corrupt
  <2>1. ASSUME NEW d \in Calls, NEW p, <<d, p>> \in scene.corrupt
        PROVE  FALSE
    <3>1. <<d, p>>[1] \in DOMAIN scene.images
      BY <2>1, ScenesAssumption DEF IndexInv
    <3>2. QED
      BY <3>1, ScenesAssumption DEF IndexInv
  <2>2. QED
    BY <2>1
<1>3. \A d \in Calls \cap DOMAIN images' :
        /\ d \in DOMAIN images /\ (images'[d].processed => images[d].processed)
        /\ \A p : Stored(d, p) => Stored(d, p)'
  <2>1. CASE ClearCorruptedFaces(c)
    BY <1>2, <2>1 DEF ClearCorruptedFaces, Stored
  <2>2. CASE DeleteImage(c)
    <3> DEFINE i == Call(c).image
    <3>1. CASE UNCHANGED <<images, faces, lost>>
      BY <3>1 DEF Stored
    <3>2. CASE /\ images' = [j \in DOMAIN images \ {i} |-> images[j]]
               /\ faces' = {f \in faces : f[1] # i} /\ lost' = lost
      <4>1. \A d \in DOMAIN images' : d # i /\ d \in DOMAIN images /\ images'[d] = images[d]
        BY <3>2
      <4>2. ASSUME NEW d \in DOMAIN images', NEW p, Stored(d, p)
            PROVE  Stored(d, p)'
        <5>1. <<d, p>>[1] = d
          OBVIOUS
        <5>2. QED
          BY <3>2, <4>1, <4>2, <5>1 DEF Stored
      <4>3. QED
        BY <4>1, <4>2
    <3>3. QED
      BY <2>2, <3>1, <3>2 DEF DeleteImage
  <2>3. QED
    BY <2>1, <2>2
<1>4. QED
  BY <1>1, <1>3, AsideKeeps

\* Every other step of the index leaves its rows alone and takes no job to its
\* faces.
LEMMA IndexStepKeeps ==
  ASSUME IndexInv, ControlOK', NEW c \in Calls, IndexStep(c)
  PROVE  IndexInv'
<1>1. ASSUME Moves(c), pc'[c] \notin {"face", "mark"}, UNCHANGED <<images, faces, lost>>
      PROVE  IndexInv'
  BY <1>1, AsideKeeps DEF Stored
<1>2. CASE CreateCuser(c)
  BY <1>1, <1>2, MoveIs DEF CreateCuser, Move, IndexInv, rowVars
<1>3. CASE Upload(c)
  BY <1>1, <1>3, MoveIs DEF Upload, Move, IndexInv, rowVars
<1>4. CASE Queue(c)
  BY <1>1, <1>4, MoveIs DEF Queue, Move, IndexInv, indexVars
<1>5. CASE ReadImage(c)
  BY <1>1, <1>5, MoveIs DEF ReadImage, EndOf, IndexInv, indexVars
<1>6. CASE CheckProcessed(c)
  BY <1>1, <1>6, MoveIs DEF CheckProcessed, Move, EndOf, IndexInv, indexVars
<1>7. CASE AddImage(c)
  <2>1. CASE Call(c).event \in events \cup {AnyEvent}
    BY <1>7, <2>1, AddImageKeeps
  <2>2. CASE Call(c).event \notin events \cup {AnyEvent}
    BY <1>1, <1>7, <2>2, MoveIs DEF AddImage, Move, EndOf, IndexInv
  <2>3. QED
    BY <2>1, <2>2
<1>8. CASE JobFails(c)
  BY <1>1, <1>8, MoveIs DEF JobFails, EndOf, IndexInv, indexVars
<1>9. CASE Snapshot(c)
  BY <1>1, <1>9, MoveIs DEF Snapshot, EndOf, IndexInv, indexVars
<1>10. CASE Format(c)
  BY <1>1, <1>10, MoveIs DEF Format, EndOf, IndexInv, indexVars
<1>11. CASE FormatBare(c)
  BY <1>1, <1>11, MoveIs DEF FormatBare, EndOf, IndexInv, indexVars
<1>12. QED
  BY <1>2, <1>3, <1>4, <1>5, <1>6, <1>7, <1>8, <1>9, <1>10, <1>11, FaceKeeps, MarkKeeps,
     RemovalKeeps DEF IndexStep

LEMMA IndexStart ==
  ASSUME Init
  PROVE  IndexInv
<1>1. /\ scene \in Scenes /\ pc = [c \in Calls |-> "idle"] /\ seen = [c \in Calls |-> Nothing]
      /\ images = scene.images
  BY DEF Init, BaseInit, IndexInit
<1>2. Calls \cap DOMAIN images = {}
  BY <1>1, ScenesAssumption
<1>3. ControlOK
  BY PaymentsStart DEF PaymentsInv
<1>4. QED
  BY <1>1, <1>2, <1>3 DEF IndexInv, ProcessedMeansIndexed

LEMMA IndexNext ==
  ASSUME IndexInv, PaymentsInv, [Next]_vars
  PROVE  IndexInv'
<1>1. ControlOK'
  BY PaymentsStep DEF PaymentsInv
<1>2. ASSUME NEW c \in Calls, Moves(c), pc'[c] \notin {"face", "mark"}, UNCHANGED indexVars
      PROVE  IndexInv'
  BY <1>1, <1>2, AsideKeeps DEF Stored, indexVars
<1>3. ASSUME UNCHANGED <<scene, pc, seen>>, UNCHANGED indexVars
      PROVE  IndexInv'
  BY <1>1, <1>3 DEF IndexInv, ProcessedMeansIndexed, Stored, Call, indexVars
<1>4. CASE StartWorker /\ UNCHANGED indexVars
  BY <1>3, <1>4 DEF StartWorker
<1>5. ASSUME NEW c \in Calls, Arrive(c) \/ Die(c)
      PROVE  IndexInv'
  BY <1>2, <1>5, MoveIs DEF Arrive, Die, Move, IndexInv
<1>6. ASSUME NEW c \in Calls, Abort(c) \/ CreateEvent(c), UNCHANGED indexVars
      PROVE  IndexInv'
  BY <1>2, <1>6, MoveIs DEF Abort, CreateEvent, Move, IndexInv
<1>7. ASSUME NEW c \in Calls, PaymentStep(c), UNCHANGED indexVars
      PROVE  IndexInv'
  <2>1. CASE Pay(c)
    BY <1>3, <1>7, <2>1 DEF Pay, callVars
  <2>2. CASE ~Pay(c)
    <3>1. \E place, what : /\ MoveWith(c, place, what) \/ Fault(c, place, what)
                           /\ place \notin {"face", "mark"}
      BY <1>7, <2>2
      DEF PaymentStep, CreateDuser, CheckDonation, StorePending, CreateCheckoutSession, DonateDirect,
          Donate, Cart, SessionCompleted, Credit, Settle, WebhookFails, ReadEntries, ReadStatistics, Move
    <3>2. QED
      BY <1>2, <1>7, <3>1, MoveIs DEF IndexInv
  <2>3. QED
    BY <2>1, <2>2
<1>8. ASSUME NEW c \in Calls, IndexStep(c)
      PROVE  IndexInv'
  BY <1>1, <1>8, IndexStepKeeps
<1>9. CASE UNCHANGED vars
  BY <1>3, <1>9 DEF vars, callVars
<1>10. QED
  BY <1>4, <1>5, <1>6, <1>7, <1>8, <1>9 DEF Next

\* An image that is marked as processed has every face found in it that its own
\* insert did not lose, whatever deletions, clean-ups and deaths fall between.
THEOREM ProcessedIsIndexed == Spec => []ProcessedMeansIndexed
<1>1. IndexInv => ProcessedMeansIndexed
  BY DEF IndexInv
<1>2. QED
  BY <1>1, PaymentsStart, PaymentsStep, IndexStart, IndexNext, PTL DEF Spec

-----------------------------------------------------------------------------
(* Types.                                                                  *)

\* The statuses that _init_db leaves, and the rows it finds.
StatusOK ==
  \A w \in DOMAIN board :
    /\ DOMAIN board[w] = {"of", "event", "donor", "status"}
    /\ board[w].status \in {"null", "pending"} \cup Listed
    /\ up => board[w].status \in Listed

LEMMA CallStepFrame ==
  ASSUME NEW c \in Calls, PaymentStep(c) \/ IndexStep(c) \/ Abort(c) \/ CreateEvent(c) \/ Arrive(c)
                            \/ Die(c)
  PROVE  scene' = scene /\ up' = up
<1> USE DEF Move, MoveWith, Fault
<1>1. CASE PaymentStep(c)
  BY <1>1 DEF PaymentStep, CreateDuser, CheckDonation, StorePending, CreateCheckoutSession,
     DonateDirect, Donate, Cart, Pay, SessionCompleted, Credit, Settle, WebhookFails, ReadEntries,
     ReadStatistics, callVars
<1>2. CASE IndexStep(c)
  BY <1>2 DEF IndexStep, CreateCuser, Upload, Queue, ReadImage, CheckProcessed, AddImage, AddFace,
     LoseFace, MarkProcessed, JobFails, Snapshot, Format, FormatBare, DeleteImage, ClearCorruptedFaces
<1>3. CASE Abort(c) \/ CreateEvent(c) \/ Arrive(c) \/ Die(c)
  BY <1>3 DEF Abort, CreateEvent, Arrive, Die
<1>4. QED
  BY <1>1, <1>2, <1>3

LEMMA PaymentTypes ==
  ASSUME PaymentsTypeOK, StatusOK, NEW c \in Calls, PaymentStep(c)
  PROVE  PaymentsTypeOK' /\ StatusOK'
<1>1. scene' = scene /\ up' = up
  BY CallStepFrame
<1>2. \/ UNCHANGED board
      \/ \E row : /\ board' = Extend(board, c, row)
                  /\ DOMAIN row = {"of", "event", "donor", "status"} /\ row.status \in Listed
  <2>1. CASE DonateDirect(c) \/ Credit(c) \/ SessionCompleted(c)
    BY <2>1 DEF DonateDirect, Credit, SessionCompleted, SessionCredits, Donation, Listed
  <2>2. CASE ~(DonateDirect(c) \/ Credit(c) \/ SessionCompleted(c))
    BY <2>2 DEF PaymentStep, CreateDuser, CheckDonation, StorePending, CreateCheckoutSession,
       Donate, Cart, Pay, Settle, WebhookFails, ReadEntries, ReadStatistics, paymentVars
  <2>3. QED
    BY <2>1, <2>2
<1>3. StatusOK'
  BY <1>1, <1>2 DEF StatusOK, Extend
<1>4. \A i \in DOMAIN pending' : pending'[i] \in {"pending", "completed"}
  <2>1. CASE StorePending(c) \/ Settle(c)
    BY <2>1 DEF StorePending, Settle, Extend, PaymentsTypeOK
  <2>2. CASE ~(StorePending(c) \/ Settle(c))
    BY <2>2 DEF PaymentStep, CreateDuser, CheckDonation, DonateDirect, CreateCheckoutSession,
       Donate, Cart, Pay, SessionCompleted, Credit, WebhookFails, ReadEntries, ReadStatistics,
       paymentVars, PaymentsTypeOK
  <2>3. QED
    BY <2>1, <2>2
<1>5. paid' \subseteq Calls
  <2>1. CASE Pay(c)
    BY <2>1 DEF Pay, PaymentsTypeOK
  <2>2. CASE ~Pay(c)
    BY <2>2 DEF PaymentStep, CreateDuser, CheckDonation, DonateDirect, CreateCheckoutSession,
       StorePending, Settle, Donate, Cart, SessionCompleted, Credit, WebhookFails, ReadEntries,
       ReadStatistics, paymentVars, PaymentsTypeOK
  <2>3. QED
    BY <2>1, <2>2
<1>6. QED
  BY <1>1, <1>3, <1>4, <1>5 DEF PaymentsTypeOK, StatusOK

LEMMA IndexTypes ==
  ASSUME IndexTypeOK, NEW c \in Calls, IndexStep(c)
  PROVE  IndexTypeOK'
<1>1. scene' = scene
  BY CallStepFrame
<1>2. history' \subseteq Calls /\ details' \subseteq Calls
  BY DEF IndexStep, CreateCuser, Upload, Queue, ReadImage, CheckProcessed, AddImage, AddFace,
     LoseFace, MarkProcessed, JobFails, Snapshot, Format, FormatBare, DeleteImage,
     ClearCorruptedFaces, indexVars, IndexTypeOK
<1>3. \/ UNCHANGED <<images, faces>>
      \/ AddImage(c) \/ AddFace(c) \/ MarkProcessed(c) \/ DeleteImage(c) \/ ClearCorruptedFaces(c)
  BY DEF IndexStep, CreateCuser, Upload, Queue, ReadImage, CheckProcessed,
     LoseFace, JobFails, Snapshot, Format, FormatBare, indexVars, rowVars
<1>4. CASE UNCHANGED <<images, faces>>
  BY <1>1, <1>2, <1>4 DEF IndexTypeOK
<1>5. CASE AddImage(c)
  <2>1. faces' = faces
    BY <1>5 DEF AddImage
  <2>2. images' = images \/ images' = Extend(images, c, NewImage(c))
    BY <1>5 DEF AddImage
  <2>3. /\ DOMAIN NewImage(c) = {"source", "event", "processed"}
        /\ NewImage(c).processed \in BOOLEAN
    BY DEF NewImage
  <2>4. CASE images' = Extend(images, c, NewImage(c))
    <3>1. DOMAIN images' = DOMAIN images \cup {c}
      BY <2>4 DEF Extend
    <3>2. \A i \in DOMAIN images' : images'[i] = IF i = c THEN NewImage(c) ELSE images[i]
      BY <2>4, <3>1 DEF Extend
    <3>3. \A i \in DOMAIN images' : /\ DOMAIN images'[i] = {"source", "event", "processed"}
                                    /\ images'[i].processed \in BOOLEAN
      BY <2>3, <3>1, <3>2 DEF IndexTypeOK
    <3>4. QED
      BY <1>1, <1>2, <2>1, <3>1, <3>3 DEF IndexTypeOK
  <2>5. QED
    BY <1>1, <1>2, <1>4, <2>1, <2>2, <2>4
<1>6. CASE AddFace(c)
  <2>1. images' = images /\ \A f \in faces' : f \in faces \/ f[1] \in DOMAIN images
    BY <1>6 DEF AddFace
  <2>2. QED
    BY <1>1, <1>2, <2>1 DEF IndexTypeOK
<1>7. CASE MarkProcessed(c)
  <2>1. faces' = faces /\ DOMAIN images' = DOMAIN images
    BY <1>7 DEF MarkProcessed
  <2>2. \A i \in DOMAIN images : images'[i] = images[i] \/ images'[i] = [images[i] EXCEPT !.processed = TRUE]
    BY <1>7 DEF MarkProcessed
  <2>3. \A i \in DOMAIN images : /\ DOMAIN images'[i] = {"source", "event", "processed"}
                                 /\ images'[i].processed \in BOOLEAN
    BY <2>2 DEF IndexTypeOK
  <2>4. QED
    BY <1>1, <1>2, <2>1, <2>3 DEF IndexTypeOK
<1>8. CASE DeleteImage(c)
  <2>1. CASE UNCHANGED <<images, faces>>
    BY <1>4, <2>1
  <2>2. CASE /\ images' = [j \in DOMAIN images \ {Call(c).image} |-> images[j]]
             /\ faces' = {f \in faces : f[1] # Call(c).image}
    BY <1>1, <1>2, <2>2 DEF IndexTypeOK
  <2>3. QED
    BY <1>8, <2>1, <2>2 DEF DeleteImage
<1>9. CASE ClearCorruptedFaces(c)
  BY <1>1, <1>2, <1>9 DEF ClearCorruptedFaces, IndexTypeOK
<1>10. QED
  BY <1>3, <1>4, <1>5, <1>6, <1>7, <1>8, <1>9

LEMMA TypesStart ==
  ASSUME Init
  PROVE  TypeOK /\ StatusOK
<1>1. scene \in Scenes /\ up = FALSE /\ board = scene.board /\ pending = <<>> /\ paid = {}
  BY DEF Init, BaseInit, PaymentsInit
<1>2. PaymentsTypeOK
  BY <1>1 DEF PaymentsTypeOK
<1>3. StatusOK
  BY <1>1, ScenesAssumption DEF StatusOK
<1>4. IndexTypeOK
  BY <1>1, ScenesAssumption DEF Init, IndexInit, IndexTypeOK
<1>5. QED
  BY <1>2, <1>3, <1>4 DEF TypeOK

LEMMA TypesStep ==
  ASSUME TypeOK /\ StatusOK, [Next]_vars
  PROVE  (TypeOK /\ StatusOK)'
<1>1. CASE StartWorker /\ UNCHANGED indexVars
  <2>1. /\ DOMAIN board' = DOMAIN board
        /\ \A w \in DOMAIN board : board'[w] =
             [board[w] EXCEPT !.status = IF @ \in {"null", "pending"} THEN "direct" ELSE @]
    BY <1>1 DEF StartWorker, Relabelled
  <2>2. \A w \in DOMAIN board : /\ DOMAIN board'[w] = {"of", "event", "donor", "status"}
                                /\ board'[w].status \in Listed
    BY <2>1 DEF StatusOK, Listed
  <2>3. PaymentsTypeOK' /\ StatusOK'
    BY <1>1, <2>1, <2>2 DEF StartWorker, TypeOK, PaymentsTypeOK, StatusOK
  <2>4. IndexTypeOK'
    BY <1>1 DEF StartWorker, TypeOK, IndexTypeOK, indexVars
  <2>5. QED
    BY <2>3, <2>4 DEF TypeOK
<1>2. ASSUME NEW c \in Calls, Arrive(c) \/ Die(c) \/ Abort(c) \/ CreateEvent(c),
             UNCHANGED <<paymentVars, indexVars>>
      PROVE  (TypeOK /\ StatusOK)'
  <2>1. scene' = scene /\ up' = up
    BY <1>2, CallStepFrame
  <2>2. QED
    BY <1>2, <2>1 DEF TypeOK, PaymentsTypeOK, IndexTypeOK, StatusOK, paymentVars, indexVars
<1>3. ASSUME NEW c \in Calls, PaymentStep(c), UNCHANGED indexVars
      PROVE  (TypeOK /\ StatusOK)'
  <2>1. scene' = scene
    BY <1>3, CallStepFrame
  <2>2. IndexTypeOK'
    BY <1>3, <2>1 DEF TypeOK, IndexTypeOK, indexVars
  <2>3. QED
    BY <1>3, <2>2, PaymentTypes DEF TypeOK
<1>4. ASSUME NEW c \in Calls, IndexStep(c), UNCHANGED paymentVars
      PROVE  (TypeOK /\ StatusOK)'
  <2>1. up' = up
    BY <1>4, CallStepFrame
  <2>2. PaymentsTypeOK' /\ StatusOK'
    BY <1>4, <2>1 DEF TypeOK, PaymentsTypeOK, StatusOK, paymentVars
  <2>3. QED
    BY <1>4, <2>2, IndexTypes DEF TypeOK
<1>5. CASE UNCHANGED vars
  BY <1>5 DEF TypeOK, PaymentsTypeOK, IndexTypeOK, StatusOK, vars, callVars, paymentVars, indexVars
<1>6. QED
  BY <1>1, <1>2, <1>3, <1>4, <1>5 DEF Next, Arrive, Die

\* Every row of a running application is well formed: whichever worker starts,
\* fails or dies, the leaderboard's statuses are those it counts, and no face
\* outlives its image's row.
THEOREM TypeCorrect == Spec => []TypeOK
<1>1. QED
  BY TypesStart, TypesStep, PTL DEF Spec

-----------------------------------------------------------------------------
(* The page of the leaderboard.                                            *)

\* A donation is inserted by the last of its call's steps at "start" or "insert".
InsertedOK ==
  \A w \in Calls \cap DOMAIN board :
    /\ Call(w).op = "succeeded" => pc[w] \notin {"idle", "start"}
    /\ Call(w).op = "direct" => pc[w] \notin {"idle", "start", "insert"}
    /\ Call(w).op \in {"succeeded", "direct"}

\* What a page has read and will answer.
PageSees(c) ==
  Call(c).op = "page" =>
    /\ pc[c] \in {"idle", "start", "stats", "done", "failed", "dead"}
    /\ pc[c] = "stats" => seen[c].entries \subseteq Counted(Call(c).event)
    /\ pc[c] = "done" => seen[c].entries \subseteq seen[c].counted

DirectPlaces == \A c \in Calls :
  Call(c).op = "direct" => pc[c] \in {"idle", "start", "insert", "done", "failed", "dead"}

PageInv == InsertedOK /\ DirectPlaces /\ \A c \in Calls : PageSees(c)

\* No row of the leaderboard goes, or changes its event, or leaves the statistics.
Kept ==
  \A w \in DOMAIN board :
    /\ w \in DOMAIN board' /\ board'[w].event = board[w].event
    /\ board[w].status \in Listed => board'[w].status \in Listed

LEMMA KeptCounted ==
  ASSUME Kept, NEW e
  PROVE  Counted(e) \subseteq Counted(e)'
BY DEF Kept, Counted

LEMMA PageFrame ==
  ASSUME PaymentsInv, PageInv, NEW c \in Calls, Moves(c), Kept,
         DOMAIN board' \subseteq DOMAIN board \cup {c},
         c \in DOMAIN board' => \/ c \in DOMAIN board /\ pc'[c] \notin {"idle", "start", "insert"}
                                \/ Call(c).op = "succeeded" /\ pc'[c] = "settle"
                                \/ Call(c).op = "direct" /\ pc'[c] = "done",
         Call(c).op = "direct" => pc'[c] \in {"idle", "start", "insert", "done", "failed", "dead"},
         PageSees(c)'
  PROVE  PageInv'
<1>1. /\ \A d \in Calls : d # c => pc'[d] = pc[d] /\ seen'[d] = seen[d]
      /\ \A d : Call(d)' = Call(d)
  BY MovesControl DEF PaymentsInv
<1>2. InsertedOK'
  BY <1>1 DEF PageInv, InsertedOK
<1>3. DirectPlaces'
  BY <1>1 DEF PageInv, DirectPlaces
<1>4. ASSUME NEW d \in Calls, d # c
      PROVE  PageSees(d)'
  BY <1>1, <1>4, KeptCounted DEF PageInv, PageSees
<1>5. QED
  BY <1>2, <1>3, <1>4 DEF PageInv

\* A step that inserts nothing, of a call that is no page, or of one that fails or
\* has yet to read.
LEMMA PageAside ==
  ASSUME PaymentsInv, PageInv, NEW c \in Calls, Moves(c), UNCHANGED board,
         pc[c] \notin {"done", "failed", "dead"},
         c \in DOMAIN board => pc'[c] \notin {"idle", "start", "insert"},
         Call(c).op = "direct" => pc'[c] \in {"start", "insert", "failed", "dead"},
         Call(c).op = "page" => pc'[c] \in {"start", "failed", "dead"}
  PROVE  PageInv'
<1>1. Call(c)' = Call(c)
  BY MovesControl DEF PaymentsInv
<1>2. PageSees(c)'
  BY <1>1 DEF PageSees
<1>3. Kept
  BY DEF Kept
<1>4. QED
  BY <1>2, <1>3, PageFrame

\* The index works for neither pages nor donations.
LEMMA IndexNoPage ==
  ASSUME PaymentsInv, PageInv, NEW c \in Calls, IndexStep(c)
  PROVE  /\ Call(c).op \notin {"page", "direct", "succeeded"}
         /\ pc[c] \notin Resting /\ Moves(c)
<1> USE DEF PageInv, DirectPlaces, PageSees, PaymentsInv, ControlOK, DeliveryPlaces, Resting, At
<1>1. CASE CreateCuser(c)
  BY <1>1, MoveIs DEF CreateCuser, Move
<1>2. CASE Upload(c)
  BY <1>2, MoveIs DEF Upload, Move
<1>3. CASE Queue(c)
  BY <1>3, MoveIs DEF Queue, Searching, Move
<1>4. CASE ReadImage(c)
  BY <1>4, MoveIs DEF ReadImage, Ready
<1>5. CASE CheckProcessed(c)
  BY <1>5, MoveIs DEF CheckProcessed, Move
<1>6. CASE AddImage(c)
  BY <1>6, MoveIs DEF AddImage, Move
<1>7. CASE AddFace(c)
  BY <1>7, MoveIs DEF AddFace
<1>8. CASE LoseFace(c)
  BY <1>8, MoveIs DEF LoseFace
<1>9. CASE MarkProcessed(c)
  BY <1>9, MoveIs DEF MarkProcessed, Move
<1>10. CASE JobFails(c)
  BY <1>10, MoveIs DEF JobFails, Ready
<1>11. CASE Snapshot(c)
  BY <1>11, MoveIs DEF Snapshot
<1>12. CASE Format(c)
  BY <1>12, MoveIs DEF Format
<1>13. CASE FormatBare(c)
  BY <1>13, MoveIs DEF FormatBare
<1>14. CASE DeleteImage(c)
  BY <1>14, MoveIs DEF DeleteImage, Move
<1>15. CASE ClearCorruptedFaces(c)
  BY <1>15, MoveIs DEF ClearCorruptedFaces, Move
<1>16. QED
  BY <1>1, <1>2, <1>3, <1>4, <1>5, <1>6, <1>7, <1>8, <1>9, <1>10, <1>11, <1>12, <1>13, <1>14,
     <1>15 DEF IndexStep

\* A donation that is inserted, and a page that is read.
LEMMA PagePaymentKeeps ==
  ASSUME PaymentsInv, PageInv, NEW c \in Calls, PaymentStep(c)
  PROVE  PageInv'
<1>1. CASE CreateDuser(c) \/ CheckDonation(c) \/ StorePending(c) \/ CreateCheckoutSession(c)
           \/ Donate(c) \/ Cart(c) \/ SessionCompleted(c) \/ Settle(c) \/ WebhookFails(c)
  <2>1. /\ Moves(c) /\ UNCHANGED board
        /\ pc[c] \in {"start", "insert", "settle"} /\ Call(c).op # "page"
        /\ Call(c).op = "direct" => pc[c] = "start" /\ pc'[c] \in {"insert", "failed"}
        /\ Call(c).op = "succeeded" => pc'[c] \in {"done"}
    BY <1>1, MoveIs
    DEF PaymentsInv, CreateDuser, CheckDonation, StorePending, CreateCheckoutSession, Donate, Cart,
        SessionCompleted, SessionCredits, Settle, WebhookFails, Move, At, paymentVars
  <2>2. c \in DOMAIN board => pc'[c] \notin {"idle", "start", "insert"}
    BY <2>1 DEF PageInv, InsertedOK
  <2>3. QED
    BY <2>1, <2>2, PageAside
<1>2. CASE Pay(c)
  BY <1>2 DEF Pay, callVars, PageInv, InsertedOK, DirectPlaces, PageSees, Counted, Call
<1>3. ASSUME Credit(c) \/ DonateDirect(c)
      PROVE  PageInv'
  <2>1. /\ Moves(c) /\ Call(c).op # "page"
        /\ \/ /\ Call(c).op = "succeeded" /\ pc[c] = "start"
              /\ pc'[c] = "settle" \/ (pc'[c] = "done" /\ UNCHANGED board)
           \/ /\ Call(c).op = "direct" /\ pc[c] = "insert" /\ pc'[c] = "done"
        /\ UNCHANGED board \/ \E row : board' = Extend(board, c, row)
    BY <1>3, MoveIs DEF PaymentsInv, Credit, DonateDirect, Move, At
  <2>2. c \notin DOMAIN board
    BY <2>1 DEF PageInv, InsertedOK
  <2>3. Kept /\ DOMAIN board' \subseteq DOMAIN board \cup {c}
    BY <2>1, <2>2 DEF Kept, Extend
  <2>4. PageSees(c)'
    BY <2>1, MovesControl DEF PageSees, PaymentsInv
  <2>5. QED
    BY <2>1, <2>2, <2>3, <2>4, PageFrame
<1>4. CASE ReadEntries(c)
  <2>1. /\ Moves(c) /\ Call(c).op = "page" /\ pc[c] = "start" /\ UNCHANGED board
        /\ \/ pc'[c] = "stats" /\ seen'[c] = [entries |-> Entries(Call(c).event)]
           \/ pc'[c] = "failed"
    BY <1>4, MoveIs DEF PaymentsInv, ControlOK, ReadEntries, Move, MoveWith, At, paymentVars
  <2>2. Call(c)' = Call(c)
    BY <2>1, MovesControl DEF PaymentsInv
  <2>3. Entries(Call(c).event) \subseteq Counted(Call(c).event)
    BY DEF Entries, Counted
  <2>4. PageSees(c)'
    BY <2>1, <2>2, <2>3 DEF PageSees, Counted
  <2>5. Kept /\ c \notin DOMAIN board
    BY <2>1 DEF Kept, PageInv, InsertedOK
  <2>6. QED
    BY <2>1, <2>4, <2>5, PageFrame
<1>5. CASE ReadStatistics(c)
  <2>1. /\ Moves(c) /\ Call(c).op = "page" /\ pc[c] = "stats" /\ UNCHANGED board
        /\ pc'[c] = "done"
        /\ seen'[c] = [entries |-> seen[c].entries, counted |-> Counted(Call(c).event)]
    BY <1>5, MoveIs DEF PaymentsInv, ControlOK, ReadStatistics, MoveWith, At, paymentVars
  <2>2. Call(c)' = Call(c)
    BY <2>1, MovesControl DEF PaymentsInv
  <2>3. PageSees(c)'
    BY <2>1, <2>2 DEF PageSees, PageInv
  <2>4. Kept /\ c \notin DOMAIN board
    BY <2>1 DEF Kept, PageInv, InsertedOK
  <2>5. QED
    BY <2>1, <2>3, <2>4, PageFrame
<1>6. QED
  BY <1>1, <1>2, <1>3, <1>4, <1>5 DEF PaymentStep

LEMMA PageStart == Init => PageInv
<1> SUFFICES ASSUME Init
             PROVE  PageInv
  OBVIOUS
<1>1. scene \in Scenes /\ pc = [c \in Calls |-> "idle"] /\ board = scene.board
  BY DEF Init, BaseInit, PaymentsInit
<1>2. Calls \cap DOMAIN board = {}
  BY <1>1, ScenesAssumption
<1>3. QED
  BY <1>1, <1>2 DEF PageInv, InsertedOK, DirectPlaces, PageSees

LEMMA PageStep ==
  ASSUME PaymentsInv, PageInv, [Next]_vars
  PROVE  PageInv'
<1>1. CASE StartWorker
  <2>1. /\ UNCHANGED <<scene, pc, seen>> /\ DOMAIN board' = DOMAIN board
        /\ \A w \in DOMAIN board : board'[w] =
             [board[w] EXCEPT !.status = IF @ \in {"null", "pending"} THEN "direct" ELSE @]
    BY <1>1 DEF StartWorker, Relabelled
  <2>2. Kept
    BY <2>1 DEF PaymentsInv, MoneyOK, Kept, Listed
  <2>3. \A e : Counted(e) \subseteq Counted(e)'
    BY <2>2, KeptCounted
  <2>4. QED
    BY <2>1, <2>3 DEF PageInv, InsertedOK, DirectPlaces, PageSees, Call
<1>2. ASSUME NEW c \in Calls, Arrive(c) \/ Die(c)
      PROVE  PageInv'
  <2>1. /\ Moves(c) /\ UNCHANGED board
        /\ \/ pc[c] = "idle" /\ pc'[c] = "start"
           \/ pc[c] \notin Resting /\ pc'[c] = "dead"
    BY <1>2, MoveIs DEF PaymentsInv, Arrive, Die, Move, paymentVars
  <2>2. c \in DOMAIN board => pc[c] # "idle"
    BY DEF PageInv, InsertedOK
  <2>3. QED
    BY <2>1, <2>2, PageAside DEF Resting
<1>3. ASSUME NEW c \in Calls, Abort(c) \/ CreateEvent(c), UNCHANGED paymentVars
      PROVE  PageInv'
  <2>1. /\ Moves(c) /\ UNCHANGED board /\ pc[c] \in HandlerPlaces
        /\ pc'[c] = "failed" \/ Call(c).op = "createEvent"
    BY <1>3, MoveIs DEF PaymentsInv, Abort, CreateEvent, Move, HandlerPlaces, paymentVars
  <2>2. c \in DOMAIN board => Call(c).op # "createEvent"
    BY DEF PageInv, InsertedOK
  <2>3. QED
    BY <2>1, <2>2, PageAside DEF HandlerPlaces
<1>4. ASSUME NEW c \in Calls, IndexStep(c), UNCHANGED paymentVars
      PROVE  PageInv'
  <2>1. /\ Moves(c) /\ UNCHANGED board /\ pc[c] \notin Resting
        /\ Call(c).op \notin {"page", "direct", "succeeded"}
    BY <1>4, IndexNoPage DEF paymentVars
  <2>2. c \notin DOMAIN board
    BY <2>1 DEF PageInv, InsertedOK
  <2>3. QED
    BY <2>1, <2>2, PageAside DEF Resting
<1>5. CASE UNCHANGED vars
  BY <1>5 DEF vars, callVars, paymentVars, PageInv, InsertedOK, DirectPlaces, PageSees, Counted, Call
<1>6. QED
  BY <1>1, <1>2, <1>3, <1>4, <1>5, PagePaymentKeeps DEF Next

\* What a page's statistics include, read in a transaction of their own, is never
\* less than its donors, whoever donates and whichever worker starts in between.
THEOREM PageComplete == Spec => []PageNotBehind
<1>1. PageInv => PageNotBehind
  BY DEF PageInv, PageSees, PageNotBehind
<1>2. QED
  BY <1>1, PaymentsStart, PaymentsStep, PageStart, PageStep, PTL DEF Spec

-----------------------------------------------------------------------------
(* The answers of the index.                                               *)

\* Where a call has yet to add its image, and where it has something to answer.
Early == {"idle", "start", "history", "object", "queued", "info", "add"}
Late == {"info", "add", "face", "mark", "snapshot", "format", "done"}
Asking == {"upload", "index", "search"}

\* An image that is gone does not come back: whoever adds it is past that.
Passed(i) == i \in Calls => pc[i] \notin Early

RowsOfEvent ==
  \A i \in DOMAIN images : images[i].event = EventOf(i) /\ Passed(i)

InEvent(c, fs) == Call(c).event # AnyEvent => \A f \in fs : EventOf(f[1]) = Call(c).event
AllPassed(fs) == \A f \in fs : Passed(f[1])

\* What a call has found, and shows without an image.
AnswerOK(c) ==
  Call(c).op \in Asking /\ pc[c] \in Late =>
    /\ InEvent(c, seen[c].answer) /\ AllPassed(seen[c].bare)
    /\ \A f \in seen[c].bare : f[1] \notin DOMAIN images \/ c \in faulted
    /\ pc[c] = "format" => InEvent(c, seen[c].todo) /\ AllPassed(seen[c].todo)

AnswersInv == RowsOfEvent /\ \A c \in Calls : AnswerOK(c)

LEMMA AnswerFrame ==
  ASSUME ControlOK, AnswersInv, NEW c \in Calls, Moves(c),
         pc'[c] \in Early => pc[c] \in Early,
         \A i \in DOMAIN images' :
           \/ i \in DOMAIN images /\ images'[i].event = images[i].event
           \/ /\ i = c /\ pc[c] \in Early /\ pc'[c] \notin Early
              /\ images'[i].event = Call(c).event,
         AnswerOK(c)'
  PROVE  AnswersInv'
<1>1. /\ \A d \in Calls : d # c => pc'[d] = pc[d] /\ seen'[d] = seen[d]
      /\ \A d : Call(d)' = Call(d)
  BY MovesControl
<1>2. \A i : EventOf(i)' = EventOf(i)
  BY <1>1 DEF Moves, EventOf
<1>3. \A i : Passed(i) => Passed(i)'
  BY <1>1 DEF Passed
<1>4. RowsOfEvent'
  BY <1>1, <1>2, <1>3 DEF AnswersInv, RowsOfEvent, EventOf, Passed
<1>5. \A i : Passed(i) /\ i \notin DOMAIN images => i \notin DOMAIN images'
  BY DEF Passed
<1>6. ASSUME NEW d \in Calls, d # c
      PROVE  AnswerOK(d)'
  <2>1. \A fs : InEvent(d, fs) => InEvent(d, fs)'
    BY <1>1, <1>2 DEF InEvent
  <2>2. \A fs : AllPassed(fs) => AllPassed(fs)'
    BY <1>3 DEF AllPassed
  <2>3. SUFFICES ASSUME Call(d).op \in Asking, pc[d] \in Late
                 PROVE  AnswerOK(d)'
    BY <1>1, <1>6 DEF AnswerOK
  <2>4. /\ InEvent(d, seen[d].answer) /\ AllPassed(seen[d].bare)
        /\ \A f \in seen[d].bare : f[1] \notin DOMAIN images \/ d \in faulted
        /\ pc[d] = "format" => InEvent(d, seen[d].todo) /\ AllPassed(seen[d].todo)
    BY <2>3 DEF AnswersInv, AnswerOK
  <2>5. \A f \in seen[d].bare : f[1] \notin DOMAIN images' \/ d \in faulted'
    BY <1>5, <2>4 DEF AllPassed, Moves
  <2>6. QED
    BY <1>1, <1>6, <2>1, <2>2, <2>4, <2>5 DEF AnswerOK
<1>7. QED
  BY <1>4, <1>6 DEF AnswersInv

\* A step that adds no image, of a call that asks nothing, has no answer yet, or
\* keeps the one it has.
LEMMA AnswerAside ==
  ASSUME ControlOK, AnswersInv, NEW c \in Calls, Moves(c),
         pc'[c] \in Early => pc[c] \in Early,
         \A i \in DOMAIN images' : i \in DOMAIN images /\ images'[i].event = images[i].event,
         Call(c).op \in Asking /\ pc'[c] \in Late =>
           /\ pc'[c] # "format"
           /\ seen'[c] = Empty \/ (pc[c] \in Late /\ seen'[c] = seen[c])
  PROVE  AnswersInv'
<1>1. Call(c)' = Call(c) /\ scene' = scene /\ faulted \subseteq faulted'
  BY MovesControl DEF Moves
<1>2. \A i : EventOf(i)' = EventOf(i)
  BY <1>1, MovesControl DEF EventOf
<1>3. \A i : Passed(i) => Passed(i)'
  BY MovesControl DEF Passed
<1>4. SUFFICES ASSUME Call(c).op \in Asking, pc'[c] \in Late
               PROVE  AnswerOK(c)'
  BY <1>1, AnswerFrame DEF AnswerOK
<1>5. CASE seen'[c] = Empty
  BY <1>4, <1>5 DEF AnswerOK, Empty, Result, InEvent, AllPassed
<1>6. CASE pc[c] \in Late /\ seen'[c] = seen[c]
  <2>1. /\ InEvent(c, seen[c].answer) /\ AllPassed(seen[c].bare)
        /\ \A f \in seen[c].bare : f[1] \notin DOMAIN images \/ c \in faulted
    BY <1>4, <1>6 DEF AnswersInv, AnswerOK
  <2>2. InEvent(c, seen[c].answer)' /\ AllPassed(seen[c].bare)'
    BY <1>1, <1>2, <1>3, <1>6, <2>1 DEF InEvent, AllPassed
  <2>3. \A f \in seen[c].bare : f[1] \notin DOMAIN images' \/ c \in faulted'
    BY <1>1, <2>1
  <2>4. QED
    BY <1>4, <1>6, <2>2, <2>3 DEF AnswerOK
<1>7. QED
  BY <1>4, <1>5, <1>6

LEMMA AnswerAddImage ==
  ASSUME ControlOK, AnswersInv, NEW c \in Calls, AddImage(c)
  PROVE  AnswersInv'
<1>1. CASE Call(c).event \in events \cup {AnyEvent}
  <2>1. /\ Moves(c) /\ pc[c] = "add" /\ seen'[c] = Result(Call(c).people, {}, {})
        /\ pc'[c] \in {"face", "mark"}
    BY <1>1 DEF AddImage, MoveWith, Moves, ControlOK, AfterFace
  <2>2. \A i \in DOMAIN images' :
          \/ i \in DOMAIN images /\ images'[i].event = images[i].event
          \/ i = c /\ images'[i].event = Call(c).event
    BY <1>1 DEF AddImage, Extend, NewImage
  <2>3. AnswerOK(c)'
    BY <2>1 DEF AnswerOK, Result, InEvent, AllPassed
  <2>4. QED
    BY <2>1, <2>2, <2>3, AnswerFrame DEF Early
<1>2. CASE Call(c).event \notin events \cup {AnyEvent}
  <2>1. /\ Moves(c) /\ pc[c] = "add" /\ pc'[c] = EndOf(c) /\ UNCHANGED images
        /\ seen'[c] = seen[c]
    BY <1>2 DEF AddImage, Move, MoveWith, Moves, ControlOK
  <2>2. QED
    BY <2>1, AnswerAside DEF EndOf, Early, Late
<1>3. QED
  BY <1>1, <1>2

\* A face that a job adds is one of its own image.
LEMMA AnswerFaces ==
  ASSUME ControlOK, AnswersInv, NEW c \in Calls, AddFace(c) \/ LoseFace(c)
  PROVE  AnswersInv'
<1>0. PICK p \in seen[c].todo : \E found \in {seen[c].answer, seen[c].answer \cup {<<c, p>>}} :
        /\ seen'[c] = Result(seen[c].todo \ {p}, found, {})
        /\ Moves(c) /\ pc'[c] = AfterFace(seen[c].todo \ {p})
  <2>1. CASE AddFace(c)
    BY <2>1 DEF AddFace, MoveWith, Moves, ControlOK
  <2>2. CASE LoseFace(c)
    BY <2>2 DEF LoseFace, Fault, Moves, ControlOK
  <2>3. QED
    BY <2>1, <2>2
<1>1. /\ seen'[c].answer \in {seen[c].answer, seen[c].answer \cup {<<c, p>>}}
      /\ seen'[c].bare = {}
      /\ Moves(c) /\ pc'[c] = AfterFace(seen[c].todo \ {p})
  BY <1>0 DEF Result
<1>2. UNCHANGED images /\ pc[c] = "face"
  BY DEF AddFace, LoseFace
<1>3. Call(c)' = Call(c) /\ \A i : EventOf(i)' = EventOf(i)
  BY <1>1, MovesControl DEF EventOf, Moves
<1>4. ASSUME Call(c).op \in Asking
      PROVE  InEvent(c, seen[c].answer)'
  <2>1. InEvent(c, seen[c].answer)
    BY <1>2, <1>4 DEF AnswersInv, AnswerOK, Late
  <2>2. \A f \in seen'[c].answer : f \in seen[c].answer \/ EventOf(f[1]) = Call(c).event
    BY <1>1 DEF EventOf
  <2>3. QED
    BY <1>3, <2>1, <2>2 DEF InEvent
<1>5. pc'[c] \in {"face", "mark"} /\ seen'[c].bare = {}
  BY <1>1 DEF AfterFace
<1>6. AnswerOK(c)'
  BY <1>3, <1>4, <1>5 DEF AnswerOK, AllPassed
<1>7. QED
  BY <1>1, <1>2, <1>5, <1>6, AnswerFrame DEF Early

LEMMA AnswerMark ==
  ASSUME ControlOK, IndexTypeOK, AnswersInv, NEW c \in Calls, MarkProcessed(c)
  PROVE  AnswersInv'
<1>1. /\ Moves(c) /\ pc[c] = "mark" /\ seen'[c] = seen[c]
      /\ pc'[c] \in {"snapshot", "failed", "delete", "done"}
  BY DEF MarkProcessed, Move, MoveWith, Moves, ControlOK, EndOf
<1>2. \A i \in DOMAIN images' : i \in DOMAIN images /\ images'[i].event = images[i].event
  <2>1. DOMAIN images' = DOMAIN images
    BY DEF MarkProcessed
  <2>2. \A i \in DOMAIN images :
          images'[i] = images[i] \/ images'[i] = [images[i] EXCEPT !.processed = TRUE]
    BY DEF MarkProcessed
  <2>3. \A i \in DOMAIN images : images'[i].event = images[i].event
    BY <2>2 DEF IndexTypeOK
  <2>4. QED
    BY <2>1, <2>3
<1>3. QED
  BY <1>1, <1>2, AnswerAside DEF Early, Late

\* The matches of a search are faces of images there are, of its event.
LEMMA AnswerSnapshot ==
  ASSUME ControlOK, IndexTypeOK, AnswersInv, NEW c \in Calls, Snapshot(c)
  PROVE  AnswersInv'
<1>1. PICK best \in SUBSET Matches(c) :
        /\ seen'[c] = Result(best, {}, {}) /\ Moves(c)
        /\ pc'[c] \in {EndOf(c), "format"}
  BY DEF Snapshot, MoveWith, Moves, ControlOK
<1>2. UNCHANGED images /\ pc[c] = "snapshot"
  BY DEF Snapshot, indexVars
<1>3. /\ Call(c)' = Call(c) /\ (\A i : EventOf(i)' = EventOf(i))
      /\ \A i : Passed(i) => Passed(i)'
  <2>1. pc'[c] \notin Early
    BY <1>1 DEF EndOf, Early
  <2>2. QED
    BY <1>1, <2>1, MovesControl DEF EventOf, Moves, Passed
<1>4. \A f \in best : /\ f[1] \in DOMAIN images
                      /\ Call(c).event # AnyEvent => images[f[1]].event = Call(c).event
  BY DEF Matches, Candidates, IndexTypeOK
<1>5. InEvent(c, best)' /\ AllPassed(best)'
  BY <1>3, <1>4 DEF InEvent, AllPassed, AnswersInv, RowsOfEvent
<1>6. seen'[c].todo = best /\ seen'[c].answer = {} /\ seen'[c].bare = {}
  BY <1>1 DEF Result
<1>7. AnswerOK(c)'
  <2>1. InEvent(c, {})' /\ AllPassed({})'
    BY DEF InEvent, AllPassed
  <2>2. QED
    BY <1>5, <1>6, <2>1 DEF AnswerOK
<1>8. QED
  BY <1>1, <1>2, <1>7, AnswerFrame DEF EndOf, Early

LEMMA AnswerFormat ==
  ASSUME ControlOK, AnswersInv, NEW c \in Calls, Format(c) \/ FormatBare(c)
  PROVE  AnswersInv'
<1>0. PICK f \in seen[c].todo : \E bare \in {{}, {f}} :
        /\ seen'[c] = Result(seen[c].todo \ {f}, seen[c].answer \cup {f}, seen[c].bare \cup bare)
        /\ Moves(c) /\ pc'[c] \in {EndOf(c), "format"}
        /\ bare = {} \/ f[1] \notin DOMAIN images \/ c \in faulted'
  <2>1. CASE Format(c)
    <3>1. PICK f \in seen[c].todo :
            MoveWith(c, IF seen[c].todo \ {f} = {} THEN EndOf(c) ELSE "format",
                     Result(seen[c].todo \ {f}, seen[c].answer \cup {f},
                            seen[c].bare \cup (IF f[1] \in DOMAIN images THEN {} ELSE {f})))
      BY <2>1 DEF Format
    <3>2. QED
      BY <3>1 DEF MoveWith, Moves, ControlOK
  <2>2. CASE FormatBare(c)
    <3>1. PICK f \in seen[c].todo :
            Fault(c, IF seen[c].todo \ {f} = {} THEN EndOf(c) ELSE "format",
                  Result(seen[c].todo \ {f}, seen[c].answer \cup {f}, seen[c].bare \cup {f}))
      BY <2>2 DEF FormatBare
    <3>2. QED
      BY <3>1 DEF Fault, Moves, ControlOK
  <2>3. QED
    BY <2>1, <2>2
<1>1. PICK bare \in {{}, {f}} :
        /\ seen'[c] = Result(seen[c].todo \ {f}, seen[c].answer \cup {f}, seen[c].bare \cup bare)
        /\ Moves(c) /\ pc'[c] \in {EndOf(c), "format"}
        /\ bare = {} \/ f[1] \notin DOMAIN images \/ c \in faulted'
  BY <1>0
<1>2. UNCHANGED images /\ pc[c] = "format"
  BY DEF Format, FormatBare, indexVars
<1>3. /\ Call(c)' = Call(c) /\ (\A i : EventOf(i)' = EventOf(i))
      /\ (\A i : Passed(i) => Passed(i)') /\ faulted \subseteq faulted'
  <2>1. pc'[c] \notin Early
    BY <1>1 DEF EndOf, Early
  <2>2. QED
    BY <1>1, <2>1, MovesControl DEF EventOf, Moves, Passed
<1>4. AnswerOK(c)'
  <2>1. SUFFICES ASSUME Call(c).op \in Asking
                 PROVE  AnswerOK(c)'
    BY <1>3 DEF AnswerOK
  <2>2. /\ InEvent(c, seen[c].answer) /\ AllPassed(seen[c].bare)
        /\ \A g \in seen[c].bare : g[1] \notin DOMAIN images \/ c \in faulted
        /\ InEvent(c, seen[c].todo) /\ AllPassed(seen[c].todo)
    BY <1>2, <2>1 DEF AnswersInv, AnswerOK, Late
  <2>3. /\ seen'[c].todo = seen[c].todo \ {f} /\ seen'[c].answer = seen[c].answer \cup {f}
        /\ seen'[c].bare = seen[c].bare \cup bare
    BY <1>1 DEF Result
  <2>4. InEvent(c, seen[c].answer)' /\ InEvent(c, seen[c].todo)'
    BY <1>3, <2>2, <2>3 DEF InEvent
  <2>5. AllPassed(seen[c].bare)' /\ AllPassed(seen[c].todo)'
    BY <1>1, <1>3, <2>2, <2>3 DEF AllPassed
  <2>6. \A g \in seen'[c].bare : g[1] \notin DOMAIN images' \/ c \in faulted'
    BY <1>1, <1>2, <1>3, <2>2, <2>3
  <2>7. QED
    BY <2>4, <2>5, <2>6 DEF AnswerOK
<1>5. QED
  BY <1>1, <1>2, <1>4, AnswerFrame DEF EndOf, Early

\* The other steps of the index.
LEMMA AnswerIndexKeeps ==
  ASSUME ControlOK, IndexTypeOK, AnswersInv, NEW c \in Calls, IndexStep(c)
  PROVE  AnswersInv'
<1> USE DEF Move, MoveWith, Fault, Moves, ControlOK, Early, Late, Asking, At
<1>1. CASE CreateCuser(c)
  BY <1>1, AnswerAside DEF CreateCuser, rowVars
<1>2. CASE Upload(c)
  BY <1>2, AnswerAside DEF Upload, rowVars
<1>3. CASE Queue(c)
  BY <1>3, AnswerAside DEF Queue, Searching, indexVars
<1>4. CASE ReadImage(c)
  BY <1>4, AnswerAside DEF ReadImage, Ready, EndOf, indexVars
<1>5. CASE CheckProcessed(c)
  BY <1>5, AnswerAside DEF CheckProcessed, ImageInfo, indexVars
<1>6. CASE JobFails(c)
  BY <1>6, AnswerAside DEF JobFails, Ready, EndOf, indexVars
<1>7. CASE DeleteImage(c)
  BY <1>7, AnswerAside DEF DeleteImage
<1>8. CASE ClearCorruptedFaces(c)
  BY <1>8, AnswerAside DEF ClearCorruptedFaces
<1>9. QED
  BY <1>1, <1>2, <1>3, <1>4, <1>5, <1>6, <1>7, <1>8, AnswerAddImage, AnswerFaces, AnswerMark,
     AnswerSnapshot, AnswerFormat DEF IndexStep

LEMMA AnswersStart == Init => AnswersInv
<1> SUFFICES ASSUME Init
             PROVE  AnswersInv
  OBVIOUS
<1>1. scene \in Scenes /\ pc = [c \in Calls |-> "idle"] /\ images = scene.images
  BY DEF Init, BaseInit, IndexInit
<1>2. Calls \cap DOMAIN images = {}
  BY <1>1, ScenesAssumption
<1>3. QED
  BY <1>1, <1>2 DEF AnswersInv, RowsOfEvent, AnswerOK, EventOf, Passed, Late

LEMMA AnswersStep ==
  ASSUME PaymentsInv, TypeOK, PageInv, AnswersInv, [Next]_vars
  PROVE  AnswersInv'
<1> USE DEF PaymentsInv
<1>1. CASE StartWorker /\ UNCHANGED indexVars
  BY <1>1 DEF StartWorker, indexVars, AnswersInv, RowsOfEvent, AnswerOK, EventOf, Passed, InEvent,
              AllPassed, Call
<1>2. ASSUME NEW c \in Calls, Moves(c), UNCHANGED images, pc'[c] \in Early => pc[c] \in Early,
             Call(c).op \notin Asking \/ pc'[c] \notin Late
      PROVE  AnswersInv'
  BY <1>2, AnswerAside
<1>3. ASSUME NEW c \in Calls, Arrive(c) \/ Die(c)
      PROVE  AnswersInv'
  BY <1>2, <1>3, MoveIs DEF Arrive, Die, Move, Early, Late, indexVars
<1>4. ASSUME NEW c \in Calls, Abort(c) \/ CreateEvent(c), UNCHANGED indexVars
      PROVE  AnswersInv'
  BY <1>2, <1>4, MoveIs DEF Abort, CreateEvent, Move, Early, Late, Asking, indexVars
<1>5. ASSUME NEW c \in Calls, PaymentStep(c), UNCHANGED indexVars
      PROVE  AnswersInv'
  <2>1. CASE Pay(c)
    BY <1>5, <2>1 DEF Pay, callVars, indexVars, AnswersInv, RowsOfEvent, AnswerOK, EventOf, Passed,
                      InEvent, AllPassed, Call
  <2>2. CASE ~ Pay(c)
    <3>1. /\ Moves(c) /\ pc'[c] \notin Early
          /\ Call(c).op \notin Asking
      BY <1>5, <2>2, MoveIs
      DEF PaymentStep, CreateDuser, CheckDonation, StorePending, CreateCheckoutSession,
          DonateDirect, Donate, Cart, SessionCompleted, Credit, Settle, WebhookFails, ReadEntries,
          ReadStatistics, Move, At, Early, Asking
    <3>2. QED
      BY <1>2, <1>5, <3>1 DEF indexVars
  <2>3. QED
    BY <2>1, <2>2
<1>6. ASSUME NEW c \in Calls, IndexStep(c)
      PROVE  AnswersInv'
  BY <1>6, AnswerIndexKeeps DEF TypeOK
<1>7. CASE UNCHANGED vars
  BY <1>7 DEF vars, callVars, indexVars, AnswersInv, RowsOfEvent, AnswerOK, EventOf, Passed, InEvent,
              AllPassed, Call
<1>8. QED
  BY <1>1, <1>3, <1>4, <1>5, <1>6, <1>7 DEF Next

\* Uploads, scans and searches of an event answer faces of its images, and show a
\* match without its image only when that is gone or could not be read.
THEOREM AnswersStayInEvent == Spec => []AnswersOfEvent
<1>1. AnswersInv => AnswersOfEvent
  BY DEF AnswersInv, AnswerOK, AnswersOfEvent, InEvent, Asking, Late
<1>2. QED
  BY <1>1, PaymentsStart, PaymentsStep, TypesStart, TypesStep, PageStart, PageStep, AnswersStart,
     AnswersStep, PTL DEF Spec
=============================================================================
