--------------------------- MODULE PaymentService ---------------------------
(***************************************************************************)
(* One booking's USDC payment: the state machine of payment.service.ts,    *)
(* the submission, polling and retry of its Stellar transactions           *)
(* (stellar.service.ts, payment.controller.ts) and the provider's webhook  *)
(* (paymentCallback.service.ts), all running concurrently.                 *)
(*                                                                         *)
(* A transition of the payment reads the row, decides, and writes under    *)
(* the version it read; an action is what happens between two awaits.      *)
(***************************************************************************)
EXTENDS Naturals

CONSTANTS
  Requests,       \* request slots: how many operations may overlap
  Txs,            \* the transactions the tenant's wallet may sign
  Webhooks,       \* the provider's events that it calls the webhook for
  HashedEvents,   \* those that carry a transaction hash
  MaxVersion,     \* no retry begins on a row written that often
  MaxFailures     \* how many calls may fail, or requests die

NoTx == "noTx"
ASSUME TxsAssumption == NoTx \notin Txs
ASSUME BoundsAssumption == MaxVersion \in Nat /\ MaxFailures \in Nat

VARIABLES
  payment,    \* the payments row
  recorded,   \* payment_callback_events, the ledger of seen events
  priced,     \* payment, quote and bookings.total_price still agree
  req,        \* where each request is, and what it read
  ledger,     \* each transaction on the Stellar network
  escrow,     \* the provider's status of the booking's escrow
  fundedBy,   \* the transaction that funded it
  emitted,    \* the statuses it has had, an event each
  failures

outside == <<ledger, escrow, fundedBy, emitted>>
vars == <<payment, recorded, priced, req, outside, failures>>

ALLOWED_TRANSITIONS ==
  [pending      |-> {"submitted", "failed"},
   submitted    |-> {"confirmed", "failed", "timed_out"},
   confirmed    |-> {"refunded"},
   failed       |-> {},
   timed_out    |-> {"submitted", "failed"},
   refunded     |-> {},
   under_review |-> {"pending", "failed"}]

PaymentStatus == DOMAIN ALLOWED_TRANSITIONS

\* Mutant of PROVIDER_STATUS_MAP: a status of the provider's is passed through.
PROVIDER_STATUS_MAP_raw ==
  [SUCCESS |-> "confirmed", FAILED |-> "failed", NOT_FOUND |-> "timed_out",
   funded |-> "confirmed", released |-> "refunded", cancelled |-> "cancelled",
   disputed |-> "disputed", created |-> "pending"]

PROVIDER_STATUS_MAP ==
  [SUCCESS |-> "confirmed", FAILED |-> "failed", NOT_FOUND |-> "timed_out",
   funded |-> "confirmed", released |-> "refunded", cancelled |-> "failed",
   disputed |-> "under_review", created |-> "pending"]

mapProviderStatus(raw) ==
  IF raw \in DOMAIN PROVIDER_STATUS_MAP THEN PROVIDER_STATUS_MAP[raw] ELSE "under_review"

\* The statuses an escrow has at the provider, each an event when it is reached.
Events == {"created", "funded", "released", "cancelled", "disputed"}

isAllowedTransition(from, to) == to \in ALLOWED_TRANSITIONS[from]

NoPayment == [status |-> "absent", version |-> 0, last |-> <<NoTx, "none">>, tx |-> NoTx]

Idle == [pc |-> "idle", op |-> "none", tx |-> NoTx, to |-> "pending",
         event |-> "created", from |-> "pending", version |-> 0]

-----------------------------------------------------------------------------
\* What a request does next: a transition of the payment is read, then written,
\* and its caller goes on from its result.

Goes(r, q) == req' = [req EXCEPT ![r] = q]

\* A request that wants the payment in that status.
Transition(op, tx, to) == [Idle EXCEPT !.pc = "read", !.op = op, !.tx = tx, !.to = to]

Delivery(op, event, tx, to) == [Transition(op, tx, to) EXCEPT !.event = event]

\* The catch blocks: mark the payment failed, of the submission without a hash.
Recover(q) == Transition("recover", IF q.op = "initiate" THEN NoTx ELSE q.tx, "failed")

Callbacks == {"callback", "mismatch"}

\* What the event hash is computed from.
Payload(q) == IF q.op \in Callbacks THEN <<q.event, q.op>> ELSE <<q.tx, q.to>>

Polls(q) == [Idle EXCEPT !.pc = "poll", !.op = "confirm", !.tx = q.tx]
Submitted(q) == [Idle EXCEPT !.pc = "submitted", !.op = "initiate", !.tx = q.tx]
Records(q) == [Idle EXCEPT !.pc = "record", !.op = q.op, !.event = q.event]

\* Mutant of Done: nobody starts the polling after a submission.
Done_unpolled(q) == IF q.op \in Callbacks THEN Records(q) ELSE Idle

Done(q) ==
  CASE q.op = "initiate"   -> Submitted(q)
    [] q.op = "retry"      -> Polls(q)
    [] q.op \in Callbacks  -> Records(q)
    [] OTHER               -> Idle

\* The transition came back as an error; nobody tries it again, and a webhook is
\* recorded all the same.
Refused(q) ==
  CASE q.op \in {"initiate", "confirm"} -> Recover(q)
    [] q.op \in Callbacks               -> Records(q)
    [] OTHER                            -> Idle

\* A failed read is 'Payment not found', which the polling loop takes for a
\* transaction that is not on the ledger yet.
Missing(q) == IF q.op = "confirm" THEN Polls(q) ELSE Refused(q)

Fault == failures < MaxFailures /\ failures' = failures + 1
NoFault == UNCHANGED failures

-----------------------------------------------------------------------------
\* transitionPaymentStatus

\* Mutant of Stored: no trigger looks at the price again when the row is written.
Stored_unguarded(q) == IF isAllowedTransition(q.from, q.to) THEN q.to ELSE "under_review"

\* The status that is stored: guard_confirmed_payment_amount turns a
\* confirmation at another price into a quarantine.
Stored(q) ==
  LET to == IF isAllowedTransition(q.from, q.to) THEN q.to ELSE "under_review"
  IN IF to = "confirmed" /\ ~priced THEN "under_review" ELSE to

\* An amount mismatch leaves the hash alone, every other transition sets it.
Hash(q) == IF q.op = "mismatch" THEN payment.tx ELSE q.tx

Updated(q) == [status |-> Stored(q), version |-> payment.version + 1,
               last |-> Payload(q), tx |-> Hash(q)]

\* Mutant of Current: the update is not guarded by the version.
Current_any(q) == payment.status # "absent"

Current(q) == payment.version = q.version

Read(r) ==
  LET q == req[r]
  IN /\ q.pc = "read"
     /\ \/ /\ payment.last = Payload(q)
           /\ Goes(r, Done(q)) /\ NoFault
        \/ /\ payment.last # Payload(q)
           /\ Goes(r, [q EXCEPT !.pc = "write", !.from = payment.status,
                                !.version = payment.version])
           /\ NoFault
        \/ Goes(r, Missing(q)) /\ Fault
     /\ UNCHANGED <<payment, recorded, priced, outside>>

\* An error may hide an update that was made.
Write(r) ==
  LET q == req[r]
  IN /\ q.pc = "write"
     /\ \/ /\ Current(q)
           /\ payment' = Updated(q) /\ Goes(r, Done(q)) /\ NoFault
        \/ /\ ~Current(q)
           /\ UNCHANGED payment /\ Goes(r, Refused(q)) /\ NoFault
        \/ /\ payment' = payment \/ (Current(q) /\ payment' = Updated(q))
           /\ Goes(r, Refused(q)) /\ Fault
     /\ UNCHANGED <<recorded, priced, outside>>

-----------------------------------------------------------------------------
\* The tenant's requests, and the polling each leaves behind.

initiatePayment(r, tx) ==
  /\ req[r] = Idle
  /\ payment = NoPayment
  /\ priced /\ ledger[tx] = "unsent"
  /\ payment' = [NoPayment EXCEPT !.status = "pending", !.version = 1]
  /\ Goes(r, [Idle EXCEPT !.pc = "submit", !.op = "initiate", !.tx = tx])
  /\ UNCHANGED <<recorded, priced, outside, failures>>

retryTransaction(r, tx) ==
  /\ req[r] = Idle
  /\ payment.status \in {"failed", "timed_out"}
  /\ payment.version < MaxVersion
  /\ IF payment.tx # NoTx
     THEN tx = payment.tx /\ Goes(r, Polls([Idle EXCEPT !.tx = tx]))
     ELSE /\ ledger[tx] = "unsent"
          /\ Goes(r, [Idle EXCEPT !.pc = "submit", !.op = "retry", !.tx = tx])
  /\ UNCHANGED <<payment, recorded, priced, outside, failures>>

\* Sending a transaction again changes nothing.
Sent(tx) == IF ledger[tx] = "unsent" THEN [ledger EXCEPT ![tx] = "sent"] ELSE ledger

\* An error says nothing about whether the network has the transaction.
submitTransaction(r) ==
  LET q == req[r]
  IN /\ q.pc = "submit"
     /\ \/ ledger' = Sent(q.tx) /\ Goes(r, Transition(q.op, q.tx, "submitted"))
        \/ ledger' \in {ledger, Sent(q.tx)} /\ Goes(r, Refused(q))
     /\ UNCHANGED <<payment, recorded, priced, escrow, fundedBy, emitted, failures>>

\* The bookkeeping of the circuit breaker is in the same try block as the
\* submission: when it throws, the payment is marked failed without its hash.
\* It is no rare fault: the controller does not even import recordSuccess.
recordSuccess(r) ==
  LET q == req[r]
  IN /\ q.pc = "submitted"
     /\ Goes(r, Polls(q)) \/ Goes(r, Refused(q))
     /\ UNCHANGED <<payment, recorded, priced, outside, failures>>

\* Mutant of Verdict: any transaction on the ledger counts as paid.
Verdict_found(tx) == IF ledger[tx] \in {"success", "failed"} THEN "confirmed" ELSE "failed"

Verdict(tx) == IF ledger[tx] = "success" THEN "confirmed" ELSE "failed"

\* One look at Horizon; a transaction that is not there is looked for again
\* until the deadline.
confirmTransaction(r) ==
  LET q == req[r]
  IN /\ q.pc = "poll"
     /\ \/ /\ ledger[q.tx] \in {"success", "failed"}
           /\ Goes(r, Transition("confirm", q.tx, Verdict(q.tx))) /\ NoFault
        \/ /\ ledger[q.tx] \notin {"success", "failed"}
           /\ Goes(r, Transition("timeout", q.tx, "timed_out")) /\ NoFault
        \/ Goes(r, Recover(q)) /\ Fault
     /\ UNCHANGED <<payment, recorded, priced, outside>>

-----------------------------------------------------------------------------
\* The webhook.  The provider delivers an event again until it is answered, and
\* sometimes twice.

EventTx(e) == IF e \in HashedEvents THEN fundedBy ELSE NoTx

verifyAndProcessCallback(r, e) ==
  /\ req[r] = Idle
  /\ e \in (emitted \cap Webhooks) \ recorded
  /\ payment # NoPayment
  /\ Goes(r, IF priced THEN Delivery("callback", e, EventTx(e), mapProviderStatus(e))
                       ELSE Delivery("mismatch", e, NoTx, "under_review"))
  /\ UNCHANGED <<payment, recorded, priced, outside, failures>>

recordEvent(r) ==
  /\ req[r].pc = "record"
  /\ \/ recorded' = recorded \cup {req[r].event} /\ NoFault
     \/ UNCHANGED recorded /\ Fault
  /\ Goes(r, Idle)
  /\ UNCHANGED <<payment, priced, outside>>

Crash(r) ==
  /\ req[r] # Idle
  /\ Fault /\ Goes(r, Idle)
  /\ UNCHANGED <<payment, recorded, priced, outside>>

-----------------------------------------------------------------------------
\* Around the backend: the network, the provider, and a booking repriced by an
\* accepted date change.

Land(tx) ==
  /\ ledger[tx] = "sent"
  /\ \E result \in {"success", "failed"} : ledger' = [ledger EXCEPT ![tx] = result]
  /\ UNCHANGED <<payment, recorded, priced, req, escrow, fundedBy, emitted, failures>>

EscrowMoves(to) ==
  /\ to \in CASE escrow = "created"  -> {"funded", "cancelled"}
              [] escrow = "funded"   -> {"released", "cancelled", "disputed"}
              [] escrow = "disputed" -> {"released", "cancelled"}
              [] OTHER               -> {}
  /\ escrow' = to
  /\ emitted' = emitted \cup {to}
  /\ IF to = "funded" THEN \E tx \in Txs : ledger[tx] = "success" /\ fundedBy' = tx
                      ELSE UNCHANGED fundedBy
  /\ UNCHANGED <<payment, recorded, priced, req, ledger, failures>>

Reprice ==
  /\ priced /\ priced' = FALSE
  /\ UNCHANGED <<payment, recorded, req, outside, failures>>

-----------------------------------------------------------------------------
Init ==
  /\ payment = NoPayment
  /\ recorded = {}
  /\ priced = TRUE
  /\ req = [r \in Requests |-> Idle]
  /\ ledger = [tx \in Txs |-> "unsent"]
  /\ escrow = "created"
  /\ fundedBy = NoTx
  /\ emitted = {"created"}
  /\ failures = 0

Step(r) ==
  \/ Read(r) \/ Write(r)
  \/ submitTransaction(r) \/ recordSuccess(r) \/ confirmTransaction(r) \/ recordEvent(r)

Starts(r) ==
  \/ \E tx \in Txs : initiatePayment(r, tx) \/ retryTransaction(r, tx)
  \/ \E e \in Events : verifyAndProcessCallback(r, e)

Environment ==
  \/ \E tx \in Txs : Land(tx)
  \/ \E to \in Events : EscrowMoves(to)
  \/ Reprice

Next ==
  \/ \E r \in Requests : Starts(r) \/ Step(r) \/ Crash(r)
  \/ Environment

Spec == Init /\ [][Next]_vars

\* A request that has begun goes on.
FairSpec == Spec /\ \A r \in Requests : WF_vars(Step(r))

-----------------------------------------------------------------------------
TxOrNone == Txs \cup {NoTx}
Payloads == (TxOrNone \X (PaymentStatus \cup {"none"})) \cup (Events \X Callbacks)

Job == [pc : {"idle", "submit", "submitted", "read", "write", "poll", "record"},
        op : {"none", "initiate", "retry", "confirm", "timeout", "recover"} \cup Callbacks,
        tx : TxOrNone, to : PaymentStatus, event : Events, from : PaymentStatus,
        version : Nat]

\* The row and the requests are well formed, and a row that exists never looks
\* like one that does not.
TypeOK ==
  /\ payment \in [status : PaymentStatus \cup {"absent"}, version : Nat,
                  last : Payloads, tx : TxOrNone]
  /\ payment.status = "absent" <=> payment = NoPayment
  /\ recorded \subseteq emitted
  /\ priced \in BOOLEAN
  /\ req \in [Requests -> Job]
  /\ ledger \in [Txs -> {"unsent", "sent", "success", "failed"}]
  /\ escrow \in emitted /\ emitted \subseteq Events
  /\ fundedBy \in TxOrNone
  /\ failures \in 0 .. MaxFailures

Paid == \E tx \in Txs : ledger[tx] = "success"

\* A payment says confirmed, or refunded, only if one of its transactions has
\* succeeded, and the one whose hash it shows has, whatever polls, retries and
\* events overlap.
ConfirmedIsPaid ==
  payment.status \in {"confirmed", "refunded"}
  => Paid /\ (payment.tx # NoTx => ledger[payment.tx] = "success")

\* Transitions only advance through the allowed graph, or end in quarantine,
\* although every one was decided on a row read earlier.
MovesAreAllowed ==
  [][payment'.status # payment.status /\ payment.status # "absent"
     => \/ isAllowedTransition(payment.status, payment'.status)
        \/ payment'.status = "under_review"]_vars

\* No payment is confirmed at a price that is not the booking's any more, although
\* the callback compared the two, and the poll never did, several steps before.
ConfirmedAtPrice ==
  [][payment'.status = "confirmed" /\ payment.status # "confirmed" => priced]_vars

\* The polling updates the payment with the final status: no payment stays
\* submitted for ever, unless a call fails or the process dies.
SubmittedEnds ==
  payment.status = "submitted" /\ failures = 0
  ~> payment.status # "submitted" \/ failures > 0

\* Double-spend protection: at most one transaction of a payment succeeds.
PaidOnce ==
  \A s, t \in Txs : ledger[s] = "success" /\ ledger[t] = "success" => s = t
=============================================================================
