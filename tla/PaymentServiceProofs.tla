------------------------ MODULE PaymentServiceProofs ------------------------
(***************************************************************************)
(* Proofs about PaymentService for any number of overlapping requests, any *)
(* transactions and any number of failures and retries.                    *)
(***************************************************************************)
EXTENDS PaymentService, TLAPS

Good == {"confirmed", "refunded"}
Senders == {"initiate", "retry", "confirm"}

Backed(tx) == Paid /\ (tx # NoTx => ledger[tx] = "success")

\* What a request knows: it sends or polls a transaction of the tenant's, an
\* event it handles was emitted, it wants a paid status only of a paid payment,
\* and the row it decided on is the present one as long as the version is.
Knows(q) ==
  /\ q.op \in Senders => q.tx \in Txs
  /\ q.pc \in {"submit", "submitted", "poll"} => q.op \in Senders
  /\ q.op \in Callbacks => q.event \in emitted
  /\ q.pc = "record" => q.op \in Callbacks
  /\ q.op = "mismatch" => q.to \notin Good
  /\ q.to \in Good => Backed(q.tx)
  /\ q.pc = "write" => /\ q.version <= payment.version
                       /\ q.version = payment.version => q.from = payment.status
  /\ q # Idle => payment.status # "absent"

RequestsKnow == \A r \in Requests : Knows(req[r])

\* Whatever says that the escrow was funded was preceded by a transaction.
FundedFirst ==
  escrow \in {"funded", "disputed", "released"} \/ emitted \cap {"funded", "released"} # {}
  => fundedBy \in Txs /\ ledger[fundedBy] = "success"

Inv == TypeOK /\ ConfirmedIsPaid /\ RequestsKnow /\ FundedFirst

-----------------------------------------------------------------------------
\* The tables.

LEMMA StatusNames ==
  PaymentStatus = {"pending", "submitted", "confirmed", "failed", "timed_out",
                   "refunded", "under_review"}
BY DEF PaymentStatus, ALLOWED_TRANSITIONS

LEMMA EventNames == Events = {"funded", "released", "cancelled", "disputed", "created"}
BY DEF Events

LEMMA MapIsTyped ==
  ASSUME NEW e \in Events
  PROVE  /\ mapProviderStatus(e) \in PaymentStatus
         /\ mapProviderStatus(e) \in Good => e \in {"funded", "released"}
BY EventNames, StatusNames DEF mapProviderStatus, PROVIDER_STATUS_MAP, Good

LEMMA IdleKnows == Idle \in Job /\ Knows(Idle)
BY EventNames, StatusNames
   DEF Idle, Job, Knows, Good, Senders, Callbacks, TxOrNone

LEMMA IdleFields ==
  /\ Idle \in Job
  /\ Idle.pc = "idle" /\ Idle.op = "none" /\ Idle.tx = NoTx /\ Idle.to = "pending"
  /\ Idle.event = "created" /\ Idle.from = "pending" /\ Idle.version = 0
BY IdleKnows DEF Idle

LEMMA TransitionIsJob ==
  ASSUME NEW op \in {"initiate", "retry", "confirm", "timeout", "recover"},
         NEW tx \in TxOrNone, NEW to \in PaymentStatus
  PROVE  /\ Transition(op, tx, to) \in Job
         /\ Transition(op, tx, to).op = op /\ Transition(op, tx, to).tx = tx
         /\ Transition(op, tx, to).to = to /\ Transition(op, tx, to).pc = "read"
BY EventNames, StatusNames DEF Transition, Idle, Job, TxOrNone

-----------------------------------------------------------------------------
\* How a step changes what requests rely on: transactions that succeeded and
\* events that were emitted stay so, and a row that is written has a new version.

Forward ==
  /\ \A tx \in Txs : ledger[tx] = "success" => ledger'[tx] = "success"
  /\ emitted \subseteq emitted'
  /\ \/ payment' = payment
     \/ payment'.version = payment.version + 1 /\ payment'.status # "absent"

LEMMA BackedStays ==
  ASSUME Forward, NEW tx \in TxOrNone, Backed(tx)
  PROVE  Paid' /\ (tx # NoTx => ledger'[tx] = "success")
BY DEF Forward, Backed, Paid, TxOrNone

\* A request that is, or becomes, the record q knows what q knows.
LEMMA KnowsOn ==
  ASSUME TypeOK, Forward, NEW r \in Requests, NEW q \in Job, Knows(q), req'[r] = q
  PROVE  Knows(req[r])'
<1>1. payment.version \in Nat /\ q.version \in Nat /\ q.tx \in TxOrNone
  BY DEF TypeOK, Job
<1>2. q.to \in Good => Backed(req[r].tx)'
  <2> HAVE q.to \in Good
  <2>1. Backed(q.tx)
    BY DEF Knows
  <2> QED BY <1>1, <2>1, BackedStays DEF Backed
<1>3. q.pc = "write" =>
        /\ q.version <= payment'.version
        /\ q.version = payment'.version => q.from = payment'.status
  <2>1. CASE payment' = payment
    BY <2>1 DEF Knows
  <2>2. CASE payment'.version = payment.version + 1 /\ q.pc = "write"
    <3>1. q.version <= payment.version
      BY <2>2 DEF Knows
    <3> QED BY <1>1, <2>2, <3>1
  <2> QED BY <2>1, <2>2 DEF Forward
<1>4. q # Idle => payment'.status # "absent"
  BY DEF Forward, Knows
<1> QED BY <1>2, <1>3, <1>4 DEF Knows, Forward, Backed

\* A step that sends one request on to q and moves the world forward.
LEMMA Proceeds ==
  ASSUME Inv, Forward, NEW r \in Requests, NEW q \in Job, Goes(r, q), Knows(q)
  PROVE  req' \in [Requests -> Job] /\ RequestsKnow'
<1>1. req \in [Requests -> Job] /\ req' = [req EXCEPT ![r] = q] /\ TypeOK /\ RequestsKnow
  BY DEF Inv, TypeOK, Goes
<1>2. req' \in [Requests -> Job]
  BY <1>1
<1>3. ASSUME NEW s \in Requests
      PROVE  Knows(req[s])'
  <2>1. CASE s = r
    BY <1>1, <2>1, KnowsOn
  <2>2. CASE s # r
    <3>1. req'[s] = req[s] /\ req[s] \in Job /\ Knows(req[s])
      BY <1>1, <2>2 DEF RequestsKnow
    <3> QED BY <1>1, <3>1, KnowsOn
  <2> QED BY <2>1, <2>2
<1> QED BY <1>2, <1>3 DEF RequestsKnow

\* A step of the world around the requests.
LEMMA Waits ==
  ASSUME Inv, Forward, UNCHANGED req
  PROVE  req' \in [Requests -> Job] /\ RequestsKnow'
<1>1. req \in [Requests -> Job] /\ TypeOK /\ RequestsKnow
  BY DEF Inv, TypeOK
<1>2. ASSUME NEW s \in Requests
      PROVE  Knows(req[s])'
  <2>1. req'[s] = req[s] /\ req[s] \in Job /\ Knows(req[s])
    BY <1>1 DEF RequestsKnow
  <2> QED BY <1>1, <2>1, KnowsOn
<1> QED BY <1>1, <1>2 DEF RequestsKnow

\* As long as the row stays, a paid payment stays paid.
LEMMA PaidStays ==
  ASSUME Inv, Forward, payment' = payment
  PROVE  ConfirmedIsPaid'
<1>1. payment.tx \in TxOrNone /\ ConfirmedIsPaid
  BY DEF Inv, TypeOK
<1>2. CASE payment.status \in Good
  <2>1. Backed(payment.tx)
    BY <1>1, <1>2 DEF ConfirmedIsPaid, Backed, Good
  <2> QED BY <1>1, <2>1, BackedStays DEF ConfirmedIsPaid, Paid
<1>3. CASE payment.status \notin Good
  BY <1>3 DEF ConfirmedIsPaid, Good
<1> QED BY <1>2, <1>3

LEMMA FundedStays ==
  ASSUME Inv, Forward, UNCHANGED <<escrow, emitted, fundedBy>>
  PROVE  FundedFirst'
BY DEF Inv, FundedFirst, Forward

-----------------------------------------------------------------------------
\* Where a request goes on.

LEMMA TransitionKnows ==
  ASSUME payment.status # "absent",
         NEW op \in {"initiate", "retry", "confirm", "timeout", "recover"},
         NEW tx \in TxOrNone, NEW to \in PaymentStatus,
         op \in Senders => tx \in Txs, to \in Good => Backed(tx)
  PROVE  Transition(op, tx, to) \in Job /\ Knows(Transition(op, tx, to))
<1>1. /\ Transition(op, tx, to) \in Job
      /\ Transition(op, tx, to).op = op /\ Transition(op, tx, to).tx = tx
      /\ Transition(op, tx, to).to = to /\ Transition(op, tx, to).pc = "read"
  BY TransitionIsJob
<1> QED BY <1>1 DEF Knows, Callbacks, Senders

LEMMA RecoverKnows ==
  ASSUME payment.status # "absent", NEW q \in Job
  PROVE  Recover(q) \in Job /\ Knows(Recover(q))
<1>1. q.tx \in TxOrNone /\ NoTx \in TxOrNone
  BY DEF Job, TxOrNone
<1>2. "failed" \in PaymentStatus /\ "failed" \notin Good
  BY StatusNames DEF Good
<1> QED BY <1>1, <1>2, TransitionKnows DEF Recover, Senders

LEMMA PollsKnows ==
  ASSUME payment.status # "absent", NEW q \in Job, q.tx \in Txs
  PROVE  Polls(q) \in Job /\ Knows(Polls(q))
<1>1. /\ Polls(q) \in Job /\ Polls(q).pc = "poll" /\ Polls(q).op = "confirm"
      /\ Polls(q).tx = q.tx /\ Polls(q).to = "pending"
  BY IdleFields DEF Polls, Job, TxOrNone
<1> QED BY <1>1 DEF Knows, Callbacks, Senders, Good

LEMMA SubmittedKnows ==
  ASSUME payment.status # "absent", NEW q \in Job, q.tx \in Txs
  PROVE  Submitted(q) \in Job /\ Knows(Submitted(q))
<1>1. /\ Submitted(q) \in Job /\ Submitted(q).pc = "submitted"
      /\ Submitted(q).op = "initiate" /\ Submitted(q).tx = q.tx /\ Submitted(q).to = "pending"
  BY IdleFields DEF Submitted, Job, TxOrNone
<1> QED BY <1>1 DEF Knows, Callbacks, Senders, Good

LEMMA RecordsKnows ==
  ASSUME payment.status # "absent", NEW q \in Job, q.op \in Callbacks, q.event \in emitted
  PROVE  Records(q) \in Job /\ Knows(Records(q))
<1>1. q.event \in Events
  BY DEF Job
<1>2. /\ Records(q) \in Job /\ Records(q).pc = "record" /\ Records(q).op = q.op
      /\ Records(q).event = q.event /\ Records(q).to = "pending"
  BY <1>1, IdleFields DEF Records, Job, Callbacks
<1> QED BY <1>2 DEF Knows, Callbacks, Senders, Good

LEMMA DoneKnows ==
  ASSUME payment.status # "absent", NEW q \in Job, Knows(q)
  PROVE  Done(q) \in Job /\ Knows(Done(q))
<1>1. CASE q.op = "initiate"
  <2>1. Done(q) = Submitted(q)
    BY <1>1 DEF Done, Callbacks
  <2>2. q.tx \in Txs
    BY <1>1 DEF Knows, Senders
  <2> QED BY <2>1, <2>2, SubmittedKnows
<1>2. CASE q.op = "retry"
  <2>1. Done(q) = Polls(q)
    BY <1>2 DEF Done, Callbacks
  <2>2. q.tx \in Txs
    BY <1>2 DEF Knows, Senders
  <2> QED BY <2>1, <2>2, PollsKnows
<1>3. CASE q.op \in Callbacks
  <2>1. Done(q) = Records(q) /\ q.event \in emitted
    BY <1>3 DEF Done, Knows, Callbacks
  <2> QED BY <1>3, <2>1, RecordsKnows
<1>4. CASE q.op \notin {"initiate", "retry"} \cup Callbacks
  BY <1>4, IdleKnows DEF Done
<1> QED BY <1>1, <1>2, <1>3, <1>4

LEMMA RefusedKnows ==
  ASSUME payment.status # "absent", NEW q \in Job, Knows(q)
  PROVE  Refused(q) \in Job /\ Knows(Refused(q))
<1>1. CASE q.op \in {"initiate", "confirm"}
  <2>1. Refused(q) = Recover(q)
    BY <1>1 DEF Refused, Callbacks
  <2> QED BY <2>1, RecoverKnows
<1>2. CASE q.op \in Callbacks
  <2>1. Refused(q) = Records(q)
    BY <1>2 DEF Refused, Callbacks
  <2>2. q.event \in emitted
    BY <1>2 DEF Knows
  <2> QED BY <1>2, <2>1, <2>2, RecordsKnows
<1>3. CASE q.op \notin {"initiate", "confirm"} \cup Callbacks
  BY <1>3, IdleKnows DEF Refused
<1> QED BY <1>1, <1>2, <1>3

LEMMA MissingKnows ==
  ASSUME payment.status # "absent", NEW q \in Job, Knows(q)
  PROVE  Missing(q) \in Job /\ Knows(Missing(q))
<1>1. CASE q.op = "confirm"
  <2>1. Missing(q) = Polls(q) /\ q.tx \in Txs
    BY <1>1 DEF Missing, Knows, Senders
  <2> QED BY <2>1, PollsKnows
<1>2. CASE q.op # "confirm"
  BY <1>2, RefusedKnows DEF Missing
<1> QED BY <1>1, <1>2

-----------------------------------------------------------------------------
\* One lemma per action: each keeps the invariant.

\* A step of a request that leaves the row and the network alone.
LEMMA RequestMoves ==
  ASSUME Inv, NEW r \in Requests, NEW q \in Job, Goes(r, q), Knows(q),
         UNCHANGED <<payment, priced, outside>>,
         recorded' \subseteq emitted, failures' \in 0 .. MaxFailures
  PROVE  Inv'
<1>1. Forward
  BY DEF Forward, outside
<1>2. req' \in [Requests -> Job] /\ RequestsKnow'
  BY <1>1, Proceeds
<1>3. ConfirmedIsPaid' /\ FundedFirst'
  BY <1>1, PaidStays, FundedStays DEF outside
<1>4. TypeOK'
  BY <1>2 DEF Inv, TypeOK, outside, NoPayment
<1> QED BY <1>2, <1>3, <1>4 DEF Inv

LEMMA Counted ==
  ASSUME TypeOK, Fault \/ NoFault
  PROVE  failures' \in 0 .. MaxFailures
BY BoundsAssumption DEF TypeOK, Fault, NoFault

LEMMA Busy ==
  ASSUME Inv, NEW r \in Requests, req[r].pc # "idle"
  PROVE  req[r] \in Job /\ Knows(req[r]) /\ payment.status # "absent"
<1>1. req[r] \in Job /\ Knows(req[r])
  BY DEF Inv, TypeOK, RequestsKnow
<1>2. req[r] # Idle
  BY IdleFields
<1> QED BY <1>1, <1>2 DEF Knows

LEMMA ReadKeeps ==
  ASSUME Inv, NEW r \in Requests, Read(r)
  PROVE  Inv'
<1> DEFINE q == req[r]
           decided == [q EXCEPT !.pc = "write", !.from = payment.status,
                                !.version = payment.version]
<1>1. q.pc = "read" /\ UNCHANGED <<payment, recorded, priced, outside>>
  BY DEF Read
<1>2. q \in Job /\ Knows(q) /\ payment.status # "absent"
  BY <1>1, Busy
<1>3. failures' \in 0 .. MaxFailures /\ recorded' \subseteq emitted
  BY <1>1, Counted DEF Read, Inv, TypeOK
<1>4. decided \in Job /\ Knows(decided)
  <2>1. payment.status \in PaymentStatus /\ payment.version \in Nat
    BY <1>2 DEF Inv, TypeOK
  <2>2. /\ decided \in Job
        /\ decided.pc = "write" /\ decided.op = q.op /\ decided.tx = q.tx
        /\ decided.to = q.to /\ decided.event = q.event
        /\ decided.from = payment.status /\ decided.version = payment.version
    BY <1>2, <2>1 DEF Job
  <2> HIDE DEF decided
  <2> QED BY <1>2, <2>1, <2>2 DEF Knows
<1>5. Goes(r, Done(q)) \/ Goes(r, decided) \/ Goes(r, Missing(q))
  BY DEF Read
<1> HIDE DEF q, decided
<1>6. CASE Goes(r, Done(q))
  <2>1. Done(q) \in Job /\ Knows(Done(q))
    BY <1>2, DoneKnows
  <2> QED BY <1>1, <1>3, <1>6, <2>1, RequestMoves
<1>7. CASE Goes(r, decided)
  BY <1>1, <1>3, <1>4, <1>7, RequestMoves
<1>8. CASE Goes(r, Missing(q))
  <2>1. Missing(q) \in Job /\ Knows(Missing(q))
    BY <1>2, MissingKnows
  <2> QED BY <1>1, <1>3, <1>8, <2>1, RequestMoves
<1> QED BY <1>5, <1>6, <1>7, <1>8

\* What is stored is a status, and a good one only of a paid payment.
LEMMA UpdatedIsPaid ==
  ASSUME Inv, NEW q \in Job, Knows(q), payment.status # "absent"
  PROVE  /\ Updated(q) \in [status : PaymentStatus, version : Nat, last : Payloads,
                            tx : TxOrNone]
         /\ Updated(q).version = payment.version + 1
         /\ Updated(q).status \in Good => Backed(Updated(q).tx)
<1>1. Stored(q) \in {q.to, "under_review"}
  BY DEF Stored
<1>2. Stored(q) \in PaymentStatus
  BY <1>1, StatusNames DEF Job
<1>3. Payload(q) \in Payloads
  BY DEF Payload, Payloads, Job, Callbacks
<1>4. Hash(q) \in TxOrNone /\ payment.version \in Nat
  BY DEF Hash, Inv, TypeOK, Job
<1>5. Stored(q) \in Good => Backed(Hash(q))
  <2> HAVE Stored(q) \in Good
  <2>1. q.to \in Good
    BY <1>1 DEF Good
  <2>2. q.op # "mismatch" /\ Backed(q.tx)
    BY <2>1 DEF Knows
  <2> QED BY <2>2 DEF Hash
<1> QED BY <1>2, <1>3, <1>4, <1>5 DEF Updated

LEMMA WriteKeeps ==
  ASSUME Inv, NEW r \in Requests, Write(r)
  PROVE  Inv'
<1> DEFINE q == req[r]
<1>1. q.pc = "write" /\ UNCHANGED <<recorded, priced, outside>>
  BY DEF Write
<1>2. q \in Job /\ Knows(q) /\ payment.status # "absent"
  BY <1>1, Busy
<1>3. failures' \in 0 .. MaxFailures
  BY Counted DEF Write, Inv
<1>4. PICK next \in {Done(q), Refused(q)} : Goes(r, next)
  BY DEF Write
<1>5. payment' = payment \/ payment' = Updated(q)
  BY DEF Write
<1> HIDE DEF q
<1>6. next \in Job /\ Knows(next)
  BY <1>2, <1>4, DoneKnows, RefusedKnows
<1>7. CASE payment' = payment
  BY <1>1, <1>3, <1>4, <1>6, <1>7, RequestMoves DEF Inv, TypeOK
<1>8. CASE payment' = Updated(q)
  <2>1. /\ payment' \in [status : PaymentStatus, version : Nat, last : Payloads,
                         tx : TxOrNone]
        /\ payment'.version = payment.version + 1
        /\ payment'.status \in Good => Backed(payment'.tx)
    BY <1>2, <1>8, UpdatedIsPaid
  <2>2. payment'.status # "absent"
    BY <2>1, StatusNames
  <2>3. Forward
    BY <1>1, <2>1, <2>2 DEF Forward, outside
  <2>4. req' \in [Requests -> Job] /\ RequestsKnow'
    BY <1>4, <1>6, <2>3, Proceeds
  <2>5. ConfirmedIsPaid'
    BY <1>1, <2>1 DEF ConfirmedIsPaid, Backed, Good, Paid, outside
  <2>6. FundedFirst'
    BY <1>1, <2>3, FundedStays DEF outside
  <2>7. TypeOK'
    BY <1>1, <1>3, <2>1, <2>2, <2>4 DEF Inv, TypeOK, outside, NoPayment
  <2> QED BY <2>4, <2>5, <2>6, <2>7 DEF Inv
<1> QED BY <1>5, <1>7, <1>8

\* The network only ever moves a transaction that has no result yet.
LEMMA LedgerMoves ==
  ASSUME Inv, ledger' \in [Txs -> {"unsent", "sent", "success", "failed"}],
         \A tx \in Txs : ledger[tx] = "success" => ledger'[tx] = "success",
         req' \in [Requests -> Job], RequestsKnow',
         UNCHANGED <<payment, recorded, priced, escrow, fundedBy, emitted, failures>>
  PROVE  Inv'
<1>1. Forward
  BY DEF Forward
<1>2. ConfirmedIsPaid' /\ FundedFirst'
  BY <1>1, PaidStays, FundedStays
<1>3. TypeOK'
  BY DEF Inv, TypeOK, NoPayment
<1> QED BY <1>2, <1>3 DEF Inv

LEMMA SentKeeps ==
  ASSUME TypeOK, NEW tx \in Txs
  PROVE  /\ Sent(tx) \in [Txs -> {"unsent", "sent", "success", "failed"}]
         /\ \A t \in Txs : ledger[t] = "success" => Sent(tx)[t] = "success"
BY DEF TypeOK, Sent

LEMMA submitTransactionKeeps ==
  ASSUME Inv, NEW r \in Requests, submitTransaction(r)
  PROVE  Inv'
<1> DEFINE q == req[r]
           wanted == Transition(q.op, q.tx, "submitted")
<1>1. /\ q.pc = "submit"
      /\ UNCHANGED <<payment, recorded, priced, escrow, fundedBy, emitted, failures>>
  BY DEF submitTransaction
<1>2. q \in Job /\ Knows(q) /\ payment.status # "absent"
  BY <1>1, Busy
<1>3. PICK next \in {wanted, Refused(q)} : Goes(r, next) /\ ledger' \in {ledger, Sent(q.tx)}
  BY DEF submitTransaction
<1>4. q.op \in Senders /\ q.tx \in Txs
  BY <1>1, <1>2 DEF Knows
<1>5. /\ ledger' \in [Txs -> {"unsent", "sent", "success", "failed"}]
      /\ \A tx \in Txs : ledger[tx] = "success" => ledger'[tx] = "success"
  BY <1>3, <1>4, SentKeeps DEF Inv, TypeOK
<1> HIDE DEF q
<1>6. wanted \in Job /\ Knows(wanted)
  <2>1. "submitted" \in PaymentStatus /\ "submitted" \notin Good
    BY StatusNames DEF Good
  <2> QED BY <1>2, <1>4, <2>1, TransitionKnows DEF Senders, TxOrNone
<1>7. next \in Job /\ Knows(next)
  BY <1>2, <1>3, <1>6, RefusedKnows
<1>8. Forward
  BY <1>1, <1>5 DEF Forward
<1>9. req' \in [Requests -> Job] /\ RequestsKnow'
  BY <1>3, <1>7, <1>8, Proceeds
<1> QED BY <1>1, <1>5, <1>9, LedgerMoves

LEMMA recordSuccessKeeps ==
  ASSUME Inv, NEW r \in Requests, recordSuccess(r)
  PROVE  Inv'
<1> DEFINE q == req[r]
<1>1. q.pc = "submitted" /\ UNCHANGED <<payment, recorded, priced, outside>>
  BY DEF recordSuccess
<1>2. q \in Job /\ Knows(q) /\ payment.status # "absent"
  BY <1>1, Busy
<1>3. failures' \in 0 .. MaxFailures /\ recorded' \subseteq emitted
  BY DEF recordSuccess, Inv, TypeOK, outside
<1>4. PICK next \in {Polls(q), Refused(q)} : Goes(r, next)
  BY DEF recordSuccess
<1>5. q.tx \in Txs
  BY <1>1, <1>2 DEF Knows
<1> HIDE DEF q
<1>6. next \in Job /\ Knows(next)
  BY <1>2, <1>4, <1>5, PollsKnows, RefusedKnows
<1> QED BY <1>1, <1>3, <1>4, <1>6, RequestMoves

LEMMA confirmTransactionKeeps ==
  ASSUME Inv, NEW r \in Requests, confirmTransaction(r)
  PROVE  Inv'
<1> DEFINE q == req[r]
           final == Transition("confirm", q.tx, Verdict(q.tx))
           late == Transition("timeout", q.tx, "timed_out")
<1>1. q.pc = "poll" /\ UNCHANGED <<payment, recorded, priced, outside>>
  BY DEF confirmTransaction
<1>2. q \in Job /\ Knows(q) /\ payment.status # "absent"
  BY <1>1, Busy
<1>3. failures' \in 0 .. MaxFailures /\ recorded' \subseteq emitted
  BY <1>1, Counted DEF confirmTransaction, Inv, TypeOK
<1>4. PICK next \in {final, late, Recover(q)} : Goes(r, next)
  BY DEF confirmTransaction
<1>5. q.tx \in Txs /\ q.tx \in TxOrNone
  BY <1>1, <1>2 DEF Knows, TxOrNone
<1> HIDE DEF q
<1>6. final \in Job /\ Knows(final)
  <2>1. Verdict(q.tx) \in PaymentStatus
    BY StatusNames DEF Verdict
  <2>2. Verdict(q.tx) \in Good => Backed(q.tx)
    BY <1>5 DEF Verdict, Good, Backed, Paid
  <2> QED BY <1>2, <1>5, <2>1, <2>2, TransitionKnows
<1>7. late \in Job /\ Knows(late)
  <2>1. "timed_out" \in PaymentStatus /\ "timed_out" \notin Good
    BY StatusNames DEF Good
  <2> QED BY <1>2, <1>5, <2>1, TransitionKnows DEF Senders
<1>8. next \in Job /\ Knows(next)
  BY <1>2, <1>4, <1>6, <1>7, RecoverKnows
<1> QED BY <1>1, <1>3, <1>4, <1>8, RequestMoves

LEMMA recordEventKeeps ==
  ASSUME Inv, NEW r \in Requests, recordEvent(r)
  PROVE  Inv'
<1>1. /\ req[r].pc = "record" /\ Goes(r, Idle)
      /\ UNCHANGED <<payment, priced, outside>>
  BY DEF recordEvent
<1>2. req[r].event \in emitted
  BY <1>1, Busy DEF Knows
<1>3. recorded' \subseteq emitted
  BY <1>2 DEF recordEvent, Inv, TypeOK
<1>4. failures' \in 0 .. MaxFailures
  BY Counted DEF recordEvent, Inv
<1> QED BY <1>1, <1>3, <1>4, IdleKnows, RequestMoves

LEMMA CrashKeeps ==
  ASSUME Inv, NEW r \in Requests, Crash(r)
  PROVE  Inv'
<1>1. failures' \in 0 .. MaxFailures
  BY Counted DEF Crash, Inv
<1> QED BY <1>1, IdleKnows, RequestMoves DEF Crash, Inv, TypeOK

\* The first row is written while there are no requests.
LEMMA initiatePaymentKeeps ==
  ASSUME Inv, NEW r \in Requests, NEW tx \in Txs, initiatePayment(r, tx)
  PROVE  Inv'
<1> DEFINE q == [Idle EXCEPT !.pc = "submit", !.op = "initiate", !.tx = tx]
<1>1. /\ payment = NoPayment
      /\ payment' = [NoPayment EXCEPT !.status = "pending", !.version = 1]
      /\ Goes(r, q)
      /\ UNCHANGED <<recorded, priced, outside, failures>>
  BY DEF initiatePayment
<1>2. /\ q \in Job
      /\ q.pc = "submit" /\ q.op = "initiate" /\ q.tx = tx /\ q.to = "pending"
  BY IdleFields DEF Job, TxOrNone
<1> HIDE DEF q
<1>3. /\ payment.status = "absent"
      /\ payment'.status = "pending" /\ payment'.version = 1 /\ payment'.tx = NoTx
      /\ payment' \in [status : PaymentStatus, version : Nat, last : Payloads, tx : TxOrNone]
  BY <1>1, StatusNames DEF NoPayment, Payloads, TxOrNone
<1>4. req' \in [Requests -> Job] /\ req' = [req EXCEPT ![r] = q]
  BY <1>1, <1>2 DEF Goes, Inv, TypeOK
<1>5. ASSUME NEW s \in Requests
      PROVE  Knows(req[s])'
  <2>1. req'[s] = IF s = r THEN q ELSE Idle
    <3>1. req \in [Requests -> Job] /\ req[s] = Idle
      BY <1>3 DEF Inv, TypeOK, RequestsKnow, Knows
    <3> QED BY <1>4, <3>1
  <2>2. CASE s = r
    BY <1>2, <1>3, <2>1, <2>2 DEF Knows, Senders, Callbacks, Good
  <2>3. CASE s # r
    BY <2>1, <2>3, IdleFields DEF Knows, Senders, Callbacks, Good
  <2> QED BY <2>2, <2>3
<1>6. ConfirmedIsPaid'
  BY <1>3 DEF ConfirmedIsPaid
<1>7. FundedFirst'
  BY <1>1 DEF Inv, FundedFirst, outside
<1>8. TypeOK'
  BY <1>1, <1>3, <1>4 DEF Inv, TypeOK, outside, NoPayment
<1> QED BY <1>5, <1>6, <1>7, <1>8 DEF Inv, RequestsKnow

LEMMA retryTransactionKeeps ==
  ASSUME Inv, NEW r \in Requests, NEW tx \in Txs, retryTransaction(r, tx)
  PROVE  Inv'
<1> DEFINE asked == [Idle EXCEPT !.tx = tx]
           again == [Idle EXCEPT !.pc = "submit", !.op = "retry", !.tx = tx]
<1>1. /\ payment.status \in {"failed", "timed_out"}
      /\ UNCHANGED <<payment, recorded, priced, outside, failures>>
      /\ Goes(r, Polls(asked)) \/ Goes(r, again)
  BY DEF retryTransaction
<1>2. asked \in Job /\ asked.tx = tx
  BY IdleFields DEF Job, TxOrNone
<1>3. /\ again \in Job
      /\ again.pc = "submit" /\ again.op = "retry" /\ again.tx = tx /\ again.to = "pending"
  BY IdleFields DEF Job, TxOrNone
<1> HIDE DEF asked, again
<1>4. Polls(asked) \in Job /\ Knows(Polls(asked))
  BY <1>1, <1>2, PollsKnows
<1>5. Knows(again)
  BY <1>1, <1>3 DEF Knows, Senders, Callbacks, Good
<1>6. recorded' \subseteq emitted /\ failures' \in 0 .. MaxFailures
  BY <1>1 DEF Inv, TypeOK
<1> QED BY <1>1, <1>3, <1>4, <1>5, <1>6, RequestMoves

LEMMA DeliveryIsJob ==
  ASSUME NEW op \in Callbacks, NEW e \in Events, NEW tx \in TxOrNone,
         NEW to \in PaymentStatus
  PROVE  /\ Delivery(op, e, tx, to) \in Job
         /\ Delivery(op, e, tx, to).op = op /\ Delivery(op, e, tx, to).event = e
         /\ Delivery(op, e, tx, to).tx = tx /\ Delivery(op, e, tx, to).to = to
         /\ Delivery(op, e, tx, to).pc = "read"
BY IdleFields DEF Delivery, Transition, Job, Callbacks

\* An event that says the escrow was funded comes with, or after, a transaction.
LEMMA verifyAndProcessCallbackKeeps ==
  ASSUME Inv, NEW r \in Requests, NEW e \in Events, verifyAndProcessCallback(r, e)
  PROVE  Inv'
<1> DEFINE good == Delivery("callback", e, EventTx(e), mapProviderStatus(e))
           bad == Delivery("mismatch", e, NoTx, "under_review")
<1>1. /\ e \in emitted /\ payment # NoPayment
      /\ Goes(r, good) \/ Goes(r, bad)
      /\ UNCHANGED <<payment, recorded, priced, outside, failures>>
  BY DEF verifyAndProcessCallback
<1>2. payment.status # "absent" /\ fundedBy \in TxOrNone
  BY <1>1 DEF Inv, TypeOK
<1>3. EventTx(e) \in TxOrNone /\ NoTx \in TxOrNone
  BY <1>2 DEF EventTx, TxOrNone
<1>4. mapProviderStatus(e) \in Good => Backed(EventTx(e))
  <2> HAVE mapProviderStatus(e) \in Good
  <2>1. e \in {"funded", "released"}
    BY MapIsTyped
  <2>2. fundedBy \in Txs /\ ledger[fundedBy] = "success"
    BY <1>1, <2>1 DEF Inv, FundedFirst
  <2> QED BY <2>2 DEF EventTx, Backed, Paid
<1>5. good \in Job /\ Knows(good)
  <2>1. mapProviderStatus(e) \in PaymentStatus /\ "callback" \in Callbacks
    BY MapIsTyped DEF Callbacks
  <2>2. /\ good \in Job /\ good.op = "callback" /\ good.event = e
        /\ good.tx = EventTx(e) /\ good.to = mapProviderStatus(e) /\ good.pc = "read"
    BY <1>3, <2>1, DeliveryIsJob
  <2> HIDE DEF good
  <2> QED BY <1>1, <1>2, <1>4, <2>2 DEF Knows, Senders
<1>6. bad \in Job /\ Knows(bad)
  <2>1. "under_review" \in PaymentStatus /\ "mismatch" \in Callbacks
    BY StatusNames DEF Callbacks
  <2>2. /\ bad \in Job /\ bad.op = "mismatch" /\ bad.event = e
        /\ bad.tx = NoTx /\ bad.to = "under_review" /\ bad.pc = "read"
    BY <1>3, <2>1, DeliveryIsJob
  <2> HIDE DEF bad
  <2> QED BY <1>1, <1>2, <2>2 DEF Knows, Senders, Good
<1> HIDE DEF good, bad
<1>7. recorded' \subseteq emitted /\ failures' \in 0 .. MaxFailures
  BY <1>1 DEF Inv, TypeOK
<1> QED BY <1>1, <1>5, <1>6, <1>7, RequestMoves

LEMMA LandKeeps ==
  ASSUME Inv, NEW tx \in Txs, Land(tx)
  PROVE  Inv'
<1>1. PICK result \in {"success", "failed"} : ledger' = [ledger EXCEPT ![tx] = result]
  BY DEF Land
<1>2. /\ ledger' \in [Txs -> {"unsent", "sent", "success", "failed"}]
      /\ \A t \in Txs : ledger[t] = "success" => ledger'[t] = "success"
  BY <1>1 DEF Land, Inv, TypeOK
<1>3. Forward
  BY <1>2 DEF Land, Forward
<1>4. req' \in [Requests -> Job] /\ RequestsKnow'
  BY <1>3, Waits DEF Land
<1> QED BY <1>2, <1>4, LedgerMoves DEF Land

LEMMA EscrowMovesKeeps ==
  ASSUME Inv, NEW to \in Events, EscrowMoves(to)
  PROVE  Inv'
<1>1. /\ escrow' = to /\ emitted' = emitted \cup {to}
      /\ UNCHANGED <<payment, recorded, priced, req, ledger, failures>>
  BY DEF EscrowMoves
<1>2. Forward
  BY <1>1 DEF Forward
<1>3. req' \in [Requests -> Job] /\ RequestsKnow' /\ ConfirmedIsPaid'
  BY <1>1, <1>2, Waits, PaidStays
<1>4. fundedBy' \in TxOrNone /\ FundedFirst'
  <2>1. CASE to = "funded"
    BY <1>1, <2>1 DEF EscrowMoves, FundedFirst, TxOrNone
  <2>2. CASE to # "funded"
    <3>1. UNCHANGED fundedBy
      BY <2>2 DEF EscrowMoves
    <3>2. to \in {"released", "disputed"} => escrow \in {"funded", "disputed"}
      BY <2>2 DEF EscrowMoves
    <3> QED BY <1>1, <2>2, <3>1, <3>2 DEF Inv, TypeOK, FundedFirst
  <2> QED BY <2>1, <2>2
<1>5. TypeOK'
  BY <1>1, <1>3, <1>4 DEF Inv, TypeOK, NoPayment
<1> QED BY <1>3, <1>4, <1>5 DEF Inv

LEMMA RepriceKeeps ==
  ASSUME Inv, Reprice
  PROVE  Inv'
<1>1. Forward
  BY DEF Reprice, Forward, outside
<1>2. req' \in [Requests -> Job] /\ RequestsKnow' /\ ConfirmedIsPaid' /\ FundedFirst'
  BY <1>1, Waits, PaidStays, FundedStays DEF Reprice, outside
<1>3. TypeOK'
  BY <1>2 DEF Reprice, Inv, TypeOK, outside, NoPayment
<1> QED BY <1>2, <1>3 DEF Inv

-----------------------------------------------------------------------------
LEMMA Initially == Init => Inv
<1> SUFFICES ASSUME Init
             PROVE  Inv
  OBVIOUS
<1>1. \A r \in Requests : req[r] = Idle
  BY DEF Init
<1>2. payment.status = "absent"
  BY DEF Init, NoPayment
<1>3. RequestsKnow
  BY <1>1, <1>2, IdleKnows DEF RequestsKnow
<1>4. ConfirmedIsPaid /\ FundedFirst
  BY <1>2 DEF Init, ConfirmedIsPaid, FundedFirst
<1>5. TypeOK
  <2>1. payment \in [status : PaymentStatus \cup {"absent"}, version : Nat,
                     last : Payloads, tx : TxOrNone]
    BY DEF Init, NoPayment, Payloads, TxOrNone
  <2>2. req \in [Requests -> Job]
    BY IdleKnows DEF Init
  <2> QED BY <1>2, <2>1, <2>2, EventNames, BoundsAssumption DEF Init, TypeOK, TxOrNone, NoPayment
<1> QED BY <1>3, <1>4, <1>5 DEF Inv

LEMMA Inductive == Inv /\ [Next]_vars => Inv'
<1> SUFFICES ASSUME Inv, [Next]_vars
             PROVE  Inv'
  OBVIOUS
<1>1. ASSUME NEW r \in Requests, Starts(r)
      PROVE  Inv'
  BY <1>1, initiatePaymentKeeps, retryTransactionKeeps, verifyAndProcessCallbackKeeps
     DEF Starts
<1>2. ASSUME NEW r \in Requests, Step(r)
      PROVE  Inv'
  BY <1>2, ReadKeeps, WriteKeeps, submitTransactionKeeps, recordSuccessKeeps,
     confirmTransactionKeeps, recordEventKeeps DEF Step
<1>3. ASSUME NEW r \in Requests, Crash(r)
      PROVE  Inv'
  BY <1>3, CrashKeeps
<1>4. CASE Environment
  BY <1>4, LandKeeps, EscrowMovesKeeps, RepriceKeeps DEF Environment
<1>5. CASE UNCHANGED vars
  <2>1. Forward
    BY <1>5 DEF vars, outside, Forward
  <2>2. req' \in [Requests -> Job] /\ RequestsKnow' /\ ConfirmedIsPaid' /\ FundedFirst'
    BY <1>5, <2>1, Waits, PaidStays, FundedStays DEF vars, outside
  <2>3. TypeOK'
    BY <1>5 DEF vars, outside, Inv, TypeOK, NoPayment
  <2> QED BY <2>2, <2>3 DEF Inv
<1> QED BY <1>1, <1>2, <1>3, <1>4, <1>5 DEF Next

\* A row that exists changes by an update guarded by its version alone.
LEMMA ChangedBy ==
  ASSUME [Next]_vars, payment' # payment
  PROVE  \/ payment = NoPayment /\ payment'.status = "pending"
         \/ \E r \in Requests : Write(r) /\ payment' = Updated(req[r]) /\ Current(req[r])
<1>1. ASSUME NEW r \in Requests, Starts(r)
      PROVE  payment = NoPayment /\ payment'.status = "pending"
  <2>1. ASSUME NEW tx \in Txs, initiatePayment(r, tx)
        PROVE  payment = NoPayment /\ payment'.status = "pending"
    BY <2>1 DEF initiatePayment, NoPayment
  <2>2. ASSUME NEW tx \in Txs
        PROVE  ~retryTransaction(r, tx)
    BY DEF retryTransaction
  <2>3. ASSUME NEW e \in Events
        PROVE  ~verifyAndProcessCallback(r, e)
    BY DEF verifyAndProcessCallback
  <2> QED BY <1>1, <2>1, <2>2, <2>3 DEF Starts
<1>2. ASSUME NEW r \in Requests, Step(r), ~Write(r)
      PROVE  FALSE
  BY <1>2 DEF Step, Read, submitTransaction, recordSuccess, confirmTransaction, recordEvent
<1>3. ASSUME NEW r \in Requests, Crash(r)
      PROVE  FALSE
  BY <1>3 DEF Crash
<1>4. ASSUME NEW r \in Requests, Write(r)
      PROVE  payment' = Updated(req[r]) /\ Current(req[r])
  BY <1>4 DEF Write
<1>5. CASE Environment \/ UNCHANGED vars
  BY <1>5 DEF Environment, Land, EscrowMoves, Reprice, vars
<1> QED BY <1>1, <1>2, <1>3, <1>4, <1>5 DEF Next

\* The version says that the status is still the one the move was decided on.
LEMMA MoveIsAllowed ==
  ASSUME Inv, [Next]_vars, payment'.status # payment.status, payment.status # "absent"
  PROVE  isAllowedTransition(payment.status, payment'.status) \/ payment'.status = "under_review"
<1>1. payment' # payment /\ payment # NoPayment
  BY DEF NoPayment
<1>2. PICK r \in Requests : Write(r) /\ payment' = Updated(req[r]) /\ Current(req[r])
  BY <1>1, ChangedBy
<1>3. req[r].pc = "write" /\ req[r] \in Job /\ Knows(req[r])
  BY <1>2, Busy DEF Write
<1>4. req[r].from = payment.status
  BY <1>2, <1>3 DEF Knows, Current
<1>5. payment'.status = Stored(req[r])
  BY <1>2 DEF Updated
<1> QED BY <1>4, <1>5 DEF Stored

\* The trigger sees the price at the moment of the write.
LEMMA ConfirmationIsPriced ==
  ASSUME [Next]_vars, payment'.status = "confirmed", payment.status # "confirmed"
  PROVE  priced
<1>1. PICK r \in Requests : payment' = Updated(req[r])
  BY ChangedBy
<1>2. Stored(req[r]) = "confirmed"
  BY <1>1 DEF Updated
<1> QED BY <1>2 DEF Stored

LEMMA Invariance == Spec => []Inv
BY Initially, Inductive, PTL DEF Spec

\* TypesCorrect: row, ledger of events and requests keep their types, and only
\* events the provider emitted are ever recorded (recordEvent).
THEOREM TypesCorrect == Spec => []TypeOK
<1>1. Inv => TypeOK
  BY DEF Inv
<1> QED BY <1>1, Invariance, PTL

\* ConfirmedPaid: whatever polls, retries and events overlap, get lost or come
\* twice, transitionPaymentStatus stores confirmed or refunded only after a
\* transaction of the payment has succeeded, and with no other hash.
THEOREM ConfirmedPaid == Spec => []ConfirmedIsPaid
<1>1. Inv => ConfirmedIsPaid
  BY DEF Inv
<1> QED BY <1>1, Invariance, PTL

\* MovesAllowed: the version check of transitionPaymentStatus makes every move
\* one of ALLOWED_TRANSITIONS, or a quarantine, from the status it replaces.
THEOREM MovesAllowed == Spec => MovesAreAllowed
<1>1. Inv /\ [Next]_vars =>
        [payment'.status # payment.status /\ payment.status # "absent"
         => \/ isAllowedTransition(payment.status, payment'.status)
            \/ payment'.status = "under_review"]_vars
  BY MoveIsAllowed
<1> QED BY <1>1, Invariance, PTL DEF Spec, MovesAreAllowed

\* ConfirmedPriced: guard_confirmed_payment_amount compares the amounts in the
\* write itself, so no comparison made earlier has to hold still.
THEOREM ConfirmedPriced == Spec => ConfirmedAtPrice
<1>1. [Next]_vars =>
        [payment'.status = "confirmed" /\ payment.status # "confirmed" => priced]_vars
  BY ConfirmationIsPriced
<1> QED BY <1>1, PTL DEF Spec, ConfirmedAtPrice
=============================================================================
