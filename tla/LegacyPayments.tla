--------------------------- MODULE LegacyPayments ---------------------------
(***************************************************************************)
(* Donations of the event application (main.py): payment intents and       *)
(* checkout sessions, Stripe's webhooks, direct donations and the          *)
(* leaderboard.  An intent or a session is named by the call that made it. *)
(* Stripe delivers an event at least once and in any order: each delivery  *)
(* is a call.                                                              *)
(***************************************************************************)
EXTENDS LegacyBase

VARIABLES
  donors,    \* the dusers table
  pending,   \* pending[i]: status of intent i's row in pending_payments
  board,     \* the leaderboard's rows, by the call that inserted them
  paid       \* Stripe: the intents and sessions that were paid

paymentVars == <<donors, pending, board, paid>>

NoIntent == "none"
Listed == {"completed", "direct"}

PaymentsTypeOK ==
  /\ \A i \in DOMAIN pending : pending[i] \in {"pending", "completed"}
  /\ up => \A w \in DOMAIN board : board[w].status \in Listed
  /\ paid \subseteq Calls

PaymentsInit ==
  /\ donors = scene.donors
  /\ pending = <<>>
  /\ board = scene.board
  /\ paid = {}

Donation(c, of, status) ==
  [of |-> of, event |-> Call(c).event, donor |-> Call(c).donor, status |-> status]

\* A call names an event and a donor there are: what handlers look up and what
\* the foreign keys of leaderboard and pending_payments ask for.
Known(c) == Call(c).event \in events /\ Call(c).donor \in donors

-----------------------------------------------------------------------------
\* Mutant: the rows keep the status they have.
RelabelledNot(rows) == rows

\* The UPDATE at the end of _init_db.
Relabelled(rows) ==
  [w \in DOMAIN rows |->
     [rows[w] EXCEPT !.status = IF @ \in {"null", "pending"} THEN "direct" ELSE @]]

\* _init_db, whenever a worker starts.
StartWorker ==
  /\ up' = TRUE
  /\ board' = Relabelled(board)
  /\ UNCHANGED <<scene, pc, seen, faulted, shared, donors, pending, paid>>

\* create_duser, an upsert.
CreateDuser(c) ==
  /\ At(c, "start", {"createDuser"})
  /\ donors' = donors \cup {Call(c).donor}
  /\ Move(c, "done")
  /\ UNCHANGED <<shared, pending, board, paid>>

\* The look-ups of create_payment_intent and donate_direct, and Stripe's answer.
CheckDonation(c) ==
  /\ At(c, "start", {"intent", "direct"})
  /\ Move(c, IF Known(c) THEN "insert" ELSE "failed")
  /\ UNCHANGED <<shared, paymentVars>>

\* create_payment_intent stores the pending payment, then answers the secret.
StorePending(c) ==
  /\ At(c, "insert", {"intent"})
  /\ pending' = Extend(pending, c, "pending")
  /\ Move(c, "done")
  /\ UNCHANGED <<shared, donors, board, paid>>

\* create_checkout_session looks nothing up and stores nothing.
CreateCheckoutSession(c) ==
  /\ At(c, "start", {"checkout"})
  /\ Move(c, "done")
  /\ UNCHANGED <<shared, paymentVars>>

DonateDirect(c) ==
  /\ At(c, "insert", {"direct"})
  /\ board' = Extend(board, c, Donation(c, NoIntent, "direct"))
  /\ Move(c, "done")
  /\ UNCHANGED <<shared, donors, pending, paid>>

\* donate builds a StripePaymentIntent without its e-mail, which raises.
Donate(c) ==
  /\ At(c, "start", {"donate"})
  /\ Move(c, "failed")
  /\ UNCHANGED <<shared, paymentVars>>

\* The cart's queries name a column that images_cart does not have.
Cart(c) ==
  /\ At(c, "start", {"cart"})
  /\ Move(c, "failed")
  /\ UNCHANGED <<shared, paymentVars>>

\* The donor pays, once a call has answered what to pay with.
Pay(i) ==
  /\ pc[i] = "done"
  /\ Call(i).op \in {"intent", "checkout"}
  /\ paid' = paid \cup {i}
  /\ UNCHANGED <<callVars, shared, donors, pending, board>>

-----------------------------------------------------------------------------
(* stripe_webhook.                                                         *)

\* Mutant: the session's own metadata is filled in as the intent's is.
SessionCreditsAsIntent == TRUE

\* The session carries no metadata, only its payment intent does.
SessionCredits == FALSE

\* handle_checkout_session_completed.
SessionCompleted(w) ==
  /\ At(w, "start", {"session"})
  /\ LET i == Call(w).of IN
       board' = IF SessionCredits /\ Known(i)
                THEN Extend(board, w, Donation(i, i, "completed")) ELSE board
  /\ Move(w, "done")
  /\ UNCHANGED <<shared, donors, pending, paid>>

\* Mutant: create_payment_intent hands the donor's words on as well.
DetailsFitAll(i) == ~Call(i).long

\* Only a checkout's metadata has user_details, which must fit their column.
DetailsFit(i) == Call(i).op = "checkout" => ~Call(i).long

\* handle_successful_payment: the donation.
Credit(w) ==
  /\ At(w, "start", {"succeeded"})
  /\ LET i == Call(w).of IN
       IF Known(i) /\ DetailsFit(i)
       THEN /\ board' = Extend(board, w, Donation(i, i, "completed"))
            /\ Move(w, "settle")
       ELSE Move(w, "done") /\ UNCHANGED board
  /\ UNCHANGED <<shared, donors, pending, paid>>

\* handle_successful_payment: its second transaction, for an intent that has a
\* pending row.
Settle(w) ==
  /\ At(w, "settle", {"succeeded"})
  /\ LET i == Call(w).of IN
       pending' = IF i \in DOMAIN pending THEN [pending EXCEPT ![i] = "completed"] ELSE pending
  /\ Move(w, "done")
  /\ UNCHANGED <<shared, donors, board, paid>>

\* Mutant: each query's failure is swallowed, not the handler's.
WebhookFailsOn(w) ==
  /\ At(w, "start", {"succeeded"}) \/ At(w, "settle", {"succeeded"})
  /\ Fault(w, IF pc[w] = "start" THEN "settle" ELSE "done", Nothing)
  /\ UNCHANGED <<shared, paymentVars>>

\* What raises in the handler is logged, and the delivery acknowledged.
WebhookFails(w) ==
  /\ At(w, "start", {"succeeded"}) \/ At(w, "settle", {"succeeded"})
  /\ Fault(w, "done", Nothing)
  /\ UNCHANGED <<shared, paymentVars>>

-----------------------------------------------------------------------------
(* get_event_leaderboard: the donors' sums, and then the statistics.       *)

Entries(e) == {w \in DOMAIN board : /\ board[w].event = e /\ board[w].status \in Listed
                                    /\ board[w].donor \in donors}

\* Mutant: direct donations are left out.
CountedPaid(e) == {w \in DOMAIN board : board[w].event = e /\ board[w].status = "completed"}

Counted(e) == {w \in DOMAIN board : board[w].event = e /\ board[w].status \in Listed}

ReadEntries(c) ==
  /\ At(c, "start", {"page"})
  /\ IF Call(c).event \in events
     THEN MoveWith(c, "stats", [entries |-> Entries(Call(c).event)])
     ELSE Move(c, "failed")
  /\ UNCHANGED <<shared, paymentVars>>

ReadStatistics(c) ==
  /\ At(c, "stats", {"page"})
  /\ MoveWith(c, "done", [entries |-> seen[c].entries, counted |-> Counted(Call(c).event)])
  /\ UNCHANGED <<shared, paymentVars>>

PaymentStep(c) ==
  \/ CreateDuser(c) \/ CheckDonation(c) \/ StorePending(c) \/ CreateCheckoutSession(c)
  \/ DonateDirect(c) \/ Donate(c) \/ Cart(c) \/ Pay(c)
  \/ SessionCompleted(c) \/ Credit(c) \/ Settle(c) \/ WebhookFails(c)
  \/ ReadEntries(c) \/ ReadStatistics(c)

-----------------------------------------------------------------------------
(* Properties.                                                             *)

\* A payment that a donor has made from create_payment_intent can be looked up
\* (get_payment_status), and one that is said to be completed is on the
\* leaderboard: whichever of a call's transactions fail, whichever worker dies
\* between them and however often Stripe delivers.
PendingKeepsTrack ==
  /\ \A i \in paid : Call(i).op = "intent" => i \in DOMAIN pending
  /\ \A i \in DOMAIN pending : pending[i] = "completed" =>
       \E w \in DOMAIN board : board[w].of = i /\ board[w].status = "completed"

\* A checkout raises two events, its session's and its intent's, and only one of
\* them credits: a payment has at most one row for each delivery of its success.
OneEventCredits ==
  \A i \in Calls : \A w \in DOMAIN board : board[w].of = i =>
    i \in paid /\ Call(w).op = "succeeded" /\ Call(w).of = i

\* Stripe does not deliver again what was acknowledged, so the donation is on the
\* leaderboard by then, unless a query failed in the handling of the delivery,
\* or it was a checkout, which nothing has been looked up for.
AckedIsCredited ==
  \A w \in Calls : (pc[w] = "done" /\ Call(w).op = "succeeded") =>
    \/ w \in DOMAIN board
    \/ w \in faulted
    \/ Call(Call(w).of).op = "checkout"

\* The page's statistics are read after its donors, in a transaction of its own:
\* they include every donation that the donors' sums include, whatever kind it is
\* and whichever worker starts meanwhile.
PageNotBehind ==
  \A c \in Calls : (pc[c] = "done" /\ Call(c).op = "page") =>
    seen[c].entries \subseteq seen[c].counted
=============================================================================
