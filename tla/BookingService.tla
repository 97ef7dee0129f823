--------------------------- MODULE BookingService ---------------------------
(***************************************************************************)
(* The life of one booking in the backend (booking.service.ts): the        *)
(* requests and sweeps that act on it run concurrently, each a sequence of *)
(* awaited calls to the database and to the escrow provider, with other    *)
(* requests, failures and crashes between any two of them.                 *)
(*                                                                         *)
(* An action is what happens between two awaits.  The caller is one the    *)
(* operation authorises; an unauthorised one changes nothing.              *)
(***************************************************************************)
EXTENDS Naturals

CONSTANTS
  Requests,     \* request slots: how many operations may overlap
  Ops,          \* the operations the requests may be
  MaxCrashes    \* how often a request may die between two awaits

AllOps == {"confirm", "cancel", "complete", "dispute", "raiseDispute",
           "resolve", "expire"}

ASSUME OpsAssumption == Ops \subseteq AllOps
ASSUME CrashAssumption == MaxCrashes \in Nat

VARIABLES
  status,       \* bookings.status, "Absent" while the row does not exist
  dispute,      \* bookings.dispute_status
  attached,     \* bookings.escrow_id and expires_at are set (one update)
  history,      \* booking_status_history, as pairs of statuses
  refund,       \* refund_requests.status of the booking's only request
  earnings,     \* the settlement is in the host's earnings ledger
  window,       \* the refund tier the clock and the policy now give
  escrow,       \* the provider's status of the booking's escrow
  orders,       \* what the provider was asked for and has yet to execute
  creation,     \* where createBooking is
  req,          \* where each request is, and what it read
  crashes

row == <<status, dispute, attached>>
provider == <<escrow, orders>>
vars == <<row, history, refund, earnings, window, provider, creation, req, crashes>>

Statuses == {"Pending", "Confirmed", "Disputed", "Completed", "Cancelled", "Expired"}

VALID_TRANSITIONS ==
  [Pending   |-> {"Confirmed", "Cancelled", "Expired"},
   Confirmed |-> {"Completed", "Cancelled", "Disputed"},
   Disputed  |-> {"Completed", "Cancelled"},
   Completed |-> {},
   Cancelled |-> {},
   Expired   |-> {}]

RefundStatus == {"requested", "submitted", "confirmed", "failed", "manual_review"}

ALLOWED_REFUND_TRANSITIONS ==
  [requested     |-> {"submitted", "failed", "manual_review"},
   submitted     |-> {"confirmed", "failed", "manual_review"},
   confirmed     |-> {},
   failed        |-> {"submitted", "manual_review"},
   manual_review |-> {"submitted", "failed"}]

Tiers == {"full", "partial", "none"}

Idle == [op |-> "none", pc |-> "idle", from |-> "Absent", to |-> "Absent",
         escrow |-> FALSE, tier |-> "none"]

-----------------------------------------------------------------------------
\* The escrow provider: calls are answered before they take effect, an
\* answer may be lost, and an escrow pays out once.

Open == {"created", "funded"}

Accepts(outcome) ==
  IF outcome = "released" THEN escrow = "funded" ELSE escrow \in Open

Order(outcome) ==
  IF Accepts(outcome) THEN orders \cup {outcome} ELSE orders

\* A call that asks for outcome: accepted (or already so), or an error, which
\* a lost answer turns an accepted call into.
Asked(outcome) ==
  /\ Accepts(outcome) \/ escrow = outcome
  /\ orders' = Order(outcome)

AskedInVain(outcome) == orders' \in {orders, Order(outcome)}

Fund ==
  /\ escrow = "created"
  /\ escrow' = "funded"
  /\ UNCHANGED <<row, history, refund, earnings, window, orders, creation, req, crashes>>

Settle ==
  /\ escrow \in Open
  /\ \E outcome \in orders : escrow' = outcome
  /\ orders' = {}
  /\ UNCHANGED <<row, history, refund, earnings, window, creation, req, crashes>>

\* The tier goes by the hours left until check-in, which time takes away and an
\* accepted date change may give back.
resolveRefundTier ==
  /\ window' \in Tiers \ {window}
  /\ UNCHANGED <<row, history, refund, earnings, provider, creation, req, crashes>>

-----------------------------------------------------------------------------
\* createBooking, from the reservation of the dates to the attached escrow.

requestsUnchanged == UNCHANGED <<dispute, earnings, window, req, crashes>>

\* Refused or failed, there is no row, unless the error hides a reservation that
\* was made: nobody looks for it.
Reserve ==
  /\ creation = "reserve"
  /\ \/ status' = "Pending" /\ creation' = "checks"
     \/ status' \in {"Absent", "Pending"} /\ creation' = "done"
  /\ requestsUnchanged /\ UNCHANGED <<attached, history, refund, provider>>

\* Storing the agreed terms and the on-chain availability check: both delete
\* the reservation when they fail.
ReservationChecks ==
  /\ creation = "checks"
  /\ creation' \in {"escrow", "delete"}
  /\ requestsUnchanged /\ UNCHANGED <<status, attached, history, refund, provider>>

CreateEscrow ==
  /\ creation = "escrow"
  /\ \/ escrow' = "created" /\ creation' \in {"attach", "delete"}
     \/ escrow' = escrow /\ creation' = "delete"
  /\ requestsUnchanged /\ UNCHANGED <<status, attached, history, refund, orders>>

\* The rollback deletes the row whatever its status has become; its history
\* and refund request go with it (ON DELETE CASCADE).  Nobody looks at its
\* result: the row may stay.
DeleteReservation ==
  /\ creation = "delete"
  /\ \/ status' = "Absent" /\ history' = {} /\ refund' = "none"
     \/ UNCHANGED <<status, history, refund>>
  /\ creation' = "done"
  /\ requestsUnchanged /\ UNCHANGED <<attached, provider>>

\* Only the escrow is rolled back when the attaching update fails.
AttachEscrow ==
  /\ creation = "attach"
  /\ \/ attached' = TRUE /\ creation' = "done"
     \/ attached' \in BOOLEAN /\ creation' = "cancelEscrow"
  /\ requestsUnchanged /\ UNCHANGED <<status, history, refund, provider>>

RollBackEscrow ==
  /\ creation = "cancelEscrow"
  /\ Asked("cancelled") \/ AskedInVain("cancelled")
  /\ creation' = "done"
  /\ requestsUnchanged /\ UNCHANGED <<status, attached, history, refund, escrow>>

createBooking == Reserve \/ ReservationChecks \/ CreateEscrow \/ DeleteReservation
                 \/ AttachEscrow \/ RollBackEscrow

-----------------------------------------------------------------------------
\* The requests.  Each keeps what it read when it started: the status it will
\* commit from, whether there was an escrow, the tier of its refund.

Continue(r, pc) == req' = [req EXCEPT ![r].pc = pc]
Return(r) == req' = [req EXCEPT ![r] = Idle]
Proceed(r, pc) == IF pc = "idle" THEN Return(r) ELSE Continue(r, pc)

At(r, pc) == req[r].pc = pc

\* What the operation's eligibility checks ask of the row it has just read.
Eligible(op) ==
  CASE op = "cancel"       -> status # "Disputed"
    [] op = "raiseDispute" -> dispute # "raised"
    [] op = "resolve"      -> dispute = "raised"
    [] op = "expire"       -> status = "Pending" /\ attached
    [] OTHER               -> TRUE

\* Mutant of Targets: the sweep writes the status in lower case.
Targets_lowercase(op) ==
  CASE op = "confirm"  -> {"Confirmed"}
    [] op = "cancel"   -> {"Cancelled"}
    [] op = "complete" -> {"Completed"}
    [] op = "resolve"  -> {"Completed", "Cancelled"}
    [] op = "expire"   -> {"expired"}
    [] OTHER           -> {"Disputed"}

\* The status an operation moves the booking to; the sweep decides later.
Targets(op) ==
  CASE op = "confirm"  -> {"Confirmed"}
    [] op = "cancel"   -> {"Cancelled"}
    [] op = "complete" -> {"Completed"}
    [] op = "resolve"  -> {"Completed", "Cancelled"}
    [] op = "expire"   -> {"Expired"}
    [] OTHER           -> {"Disputed"}

\* How an operation goes about the escrow once it has read the row.
FirstStep(op) ==
  IF op = "cancel" /\ window # "none" THEN "request"
  ELSE IF ~attached \/ op \in {"dispute", "raiseDispute"} THEN "commit"
  ELSE IF op \in {"confirm", "resolve"} THEN "call" ELSE "look"

Load(r, op) ==
  /\ At(r, "idle")
  /\ op \in Ops
  /\ status # "Absent"
  /\ Eligible(op)
  /\ \E to \in Targets(op) :
       req' = [req EXCEPT ![r] =
                 [op |-> op, pc |-> FirstStep(op), to |-> to,
                  from |-> IF op = "resolve" THEN "Disputed" ELSE status,
                  escrow |-> attached,
                  tier |-> IF op = "cancel" THEN window ELSE "none"]]
  /\ UNCHANGED <<row, history, refund, earnings, window, provider, creation, crashes>>

\* cancelBooking: one refund request per booking, made or found again.  A full
\* refund goes through the escrow, any other waits for an operator.
RequestRefund(r) ==
  LET found == IF refund = "none" THEN "requested" ELSE refund
  IN /\ At(r, "request")
     /\ \/ /\ status # "Absent"
           /\ refund' = found
           /\ IF req[r].tier = "full" /\ req[r].escrow
              THEN Continue(r, CASE found = "confirmed" -> "commit"
                                 [] found = "submitted" -> "look"
                                 [] OTHER               -> "submit")
              ELSE Continue(r, IF found = "manual_review" THEN "commit" ELSE "review")
        \/ refund' \in {refund, found} /\ Return(r)
     /\ UNCHANGED <<row, history, earnings, window, provider, creation, crashes>>

\* transitionRefundStatus: validated against the status just read and written
\* only if that status still holds; anything else is an error.
transitionRefundStatus(to) ==
  /\ refund # "none"
  /\ to \in ALLOWED_REFUND_TRANSITIONS[refund]
  /\ refund' = to

MoveRefund(r, pc, to, next, otherwise) ==
  /\ At(r, pc)
  /\ \/ transitionRefundStatus(to) /\ (Proceed(r, next) \/ Proceed(r, otherwise))
     \/ UNCHANGED refund /\ Proceed(r, otherwise)
  /\ UNCHANGED <<row, history, earnings, window, provider, creation, crashes>>

ReviewRefund(r) == MoveRefund(r, "review", "manual_review", "commit", "idle")
SubmitRefund(r) == MoveRefund(r, "submit", "submitted", "look", "idle")
ConfirmRefund(r) == MoveRefund(r, "confirmRefund", "confirmed", "commit", "commit")
FailRefund(r) == MoveRefund(r, "fail", "failed", "idle", "idle")

\* The payment an operation asks the provider for.
Wanted(r) ==
  LET q == req[r]
  IN IF \/ q.op \in {"confirm", "complete"}
        \/ q.op = "cancel" /\ q.tier = "none"
        \/ q.op = "resolve" /\ q.to = "Completed"
     THEN "released" ELSE "cancelled"

\* Where a failed provider call leads: completion and expiry go on regardless.
OnError(r) ==
  CASE req[r].op = "complete" -> "commit"
    [] req[r].op = "cancel" /\ req[r].tier = "full" -> "fail"
    [] OTHER -> "idle"

\* The two operations that look again before they record a payment.
Verifies(r) == req[r].op = "complete" \/ (req[r].op = "cancel" /\ req[r].tier = "full")

Look(r) ==
  /\ At(r, "look")
  /\ IF req[r].op = "expire"
     THEN \/ Continue(r, "call")                         \* unpaid, or no answer
          \/ /\ escrow \in {"funded", "released"}        \* late confirmation
             /\ req' = [req EXCEPT ![r].pc = "commit", ![r].to = "Confirmed"]
     ELSE \/ Proceed(r, OnError(r))
          \/ Continue(r, IF escrow # Wanted(r) THEN "call"
                         ELSE IF Verifies(r) THEN "recheck" ELSE "commit")
  /\ UNCHANGED <<row, history, refund, earnings, window, provider, creation, crashes>>

\* Mutant of CallProvider: the sweep gives up when the escrow cannot be cancelled.
CallProvider_fatal(r) ==
  /\ At(r, "call")
  /\ \/ /\ Asked(Wanted(r))
        /\ Continue(r, IF Verifies(r) THEN "recheck" ELSE "commit")
     \/ /\ AskedInVain(Wanted(r))
        /\ Proceed(r, OnError(r))
  /\ UNCHANGED <<row, history, refund, earnings, window, escrow, creation, crashes>>

CallProvider(r) ==
  /\ At(r, "call")
  /\ \/ /\ Asked(Wanted(r))
        /\ Continue(r, IF Verifies(r) THEN "recheck" ELSE "commit")
     \/ /\ AskedInVain(Wanted(r))
        /\ Proceed(r, IF req[r].op = "expire" THEN "commit" ELSE OnError(r))
  /\ UNCHANGED <<row, history, refund, earnings, window, escrow, creation, crashes>>

\* Mutant of Recheck: an accepted call counts as a payment.
Recheck_trusting(r) ==
  /\ At(r, "recheck")
  /\ Continue(r, IF req[r].op = "complete" THEN "ledger" ELSE "confirmRefund")
  /\ UNCHANGED <<row, history, refund, earnings, window, provider, creation, crashes>>

Recheck(r) ==
  /\ At(r, "recheck")
  /\ \/ Proceed(r, OnError(r))
     \/ Proceed(r, IF escrow = Wanted(r)
                   THEN IF req[r].op = "complete" THEN "ledger" ELSE "confirmRefund"
                   ELSE IF req[r].op = "complete" THEN "idle" ELSE "commit")
  /\ UNCHANGED <<row, history, refund, earnings, window, provider, creation, crashes>>

\* The ledger's entries are unique per booking; a failure to record them, or to
\* read them back, ends the request.
RecordEarnings(r) ==
  /\ At(r, "ledger")
  /\ \/ earnings' = TRUE /\ Continue(r, "commit")
     \/ earnings' \in {earnings, TRUE} /\ Return(r)
  /\ UNCHANGED <<row, history, refund, window, provider, creation, crashes>>

\* transitionStatus: the write takes effect only on the status the request
\* read, but a write that matched no row goes on as one that did.  A database
\* error ends the request, be it before the write or in place of its answer.
Committed(r) ==
  req' = [req EXCEPT ![r] = [Idle EXCEPT !.pc = "history", !.from = req[r].from, !.to = req[r].to]]

\* Mutant of StillAt: the write is not conditioned on the status.
StillAt_unconditional(r) == status # "Absent"

StillAt(r) == status = req[r].from

Write(r) ==
  /\ StillAt(r)
  /\ status' = req[r].to
  /\ dispute' = CASE req[r].op = "raiseDispute" -> "raised"
                  [] req[r].op = "resolve"      -> "resolved"
                  [] OTHER                      -> dispute

Commit(r) ==
  /\ At(r, "commit")
  /\ IF req[r].to \in VALID_TRANSITIONS[req[r].from]
     THEN \/ Write(r) /\ (Committed(r) \/ Return(r))
          \/ ~StillAt(r) /\ UNCHANGED <<status, dispute>> /\ Committed(r)
          \/ UNCHANGED <<status, dispute>> /\ Return(r)
     ELSE UNCHANGED <<status, dispute>> /\ Return(r)
  /\ UNCHANGED <<attached, history, refund, earnings, window, provider, creation, crashes>>

\* A failed insert is only logged.
InsertHistory(r) ==
  /\ At(r, "history")
  /\ \/ status # "Absent" /\ history' = history \cup {<<req[r].from, req[r].to>>}
     \/ history' = history
  /\ Return(r)
  /\ UNCHANGED <<row, refund, earnings, window, provider, creation, crashes>>

Step(r) ==
  \/ RequestRefund(r) \/ ReviewRefund(r) \/ SubmitRefund(r) \/ ConfirmRefund(r)
  \/ FailRefund(r) \/ Look(r) \/ CallProvider(r) \/ Recheck(r)
  \/ RecordEarnings(r) \/ Commit(r) \/ InsertHistory(r)

\* The process dies with whatever request it was serving.
Crash ==
  /\ crashes < MaxCrashes
  /\ crashes' = crashes + 1
  /\ \/ \E r \in Requests : ~At(r, "idle") /\ Return(r) /\ UNCHANGED creation
     \/ creation # "done" /\ creation' = "done" /\ UNCHANGED req
  /\ UNCHANGED <<row, history, refund, earnings, window, provider>>

-----------------------------------------------------------------------------
Init ==
  /\ status = "Absent" /\ dispute = "none" /\ attached = FALSE
  /\ history = {} /\ refund = "none" /\ earnings = FALSE /\ window \in Tiers
  /\ escrow = "none" /\ orders = {}
  /\ creation = "reserve" /\ req = [r \in Requests |-> Idle] /\ crashes = 0

Next ==
  \/ createBooking \/ Fund \/ Settle \/ resolveRefundTier \/ Crash
  \/ \E r \in Requests : Step(r) \/ \E op \in Ops : Load(r, op)

Spec == Init /\ [][Next]_vars

-----------------------------------------------------------------------------
\* Fairness: a request does not stop by itself, the scheduler keeps sweeping
\* while a hold is overdue, and the database does not refuse the sweep's write
\* for ever.

Written(r) == Commit(r) /\ req'[r].pc = "history"

FairSpec ==
  /\ Spec
  /\ \A r \in Requests :
       /\ WF_vars(Step(r))
       /\ SF_vars(Load(r, "expire"))
       /\ SF_vars(req[r].op = "expire" /\ Written(r))

-----------------------------------------------------------------------------
TypeOK ==
  /\ status \in Statuses \cup {"Absent"}
  /\ dispute \in {"none", "raised", "resolved"}
  /\ attached \in BOOLEAN
  /\ history \subseteq Statuses \X Statuses
  /\ refund \in RefundStatus \cup {"none"}
  /\ earnings \in BOOLEAN
  /\ window \in Tiers
  /\ escrow \in Open \cup {"none", "released", "cancelled"}
  /\ orders \subseteq {"released", "cancelled"}
  /\ creation \in {"reserve", "checks", "escrow", "delete", "attach", "cancelEscrow", "done"}
  /\ req \in [Requests -> [op : AllOps \cup {"none"},
                           pc : {"idle", "request", "review", "submit", "look", "call",
                                 "recheck", "confirmRefund", "ledger", "fail", "commit",
                                 "history"},
                           from : Statuses \cup {"Absent"}, to : Statuses \cup {"Absent"},
                           escrow : BOOLEAN, tier : Tiers]]
  /\ crashes \in 0..MaxCrashes

\* Money is never on record as paid to a party before the provider has paid it:
\* completeBooking writes earnings, and cancelBooking confirms a refund, only
\* once the escrow was seen settled their way, whoever else acts on it.
ClaimsAreBacked ==
  /\ earnings => escrow = "released"
  /\ refund = "confirmed" => escrow = "cancelled"

\* The service with all its overlapping requests is the plain contract with the
\* two parties: statuses along the state machine, one payment, no record of a
\* payment before it and none taken back.
Outcome == INSTANCE BookingOutcome WITH
  Successors <- VALID_TRANSITIONS,
  paid <- CASE escrow = "released"  -> "host"
            [] escrow = "cancelled" -> "tenant"
            [] OTHER                -> "nobody",
  claims <- (IF earnings THEN {"host"} ELSE {})
              \cup (IF refund = "confirmed" THEN {"tenant"} ELSE {})

OutcomePromise == Outcome!Spec

\* A hold with a deadline does not last: expireStaleBookings gets it out of
\* Pending in the end, whatever fails or races on the way.
HoldsExpire == (status = "Pending" /\ attached) ~> (status # "Pending")
=============================================================================
