------------------------ MODULE BookingServiceProofs ------------------------
(***************************************************************************)
(* Proofs about BookingService for any number of overlapping requests, any *)
(* choice of operations and any number of crashes.                         *)
(***************************************************************************)
EXTENDS BookingService, TLAPS

Pcs == {"idle", "request", "review", "submit", "look", "call", "recheck",
        "confirmRefund", "ledger", "fail", "commit", "history"}

Request == [op : AllOps \cup {"none"}, pc : Pcs, from : Statuses \cup {"Absent"},
            to : Statuses \cup {"Absent"}, escrow : BOOLEAN, tier : Tiers]

\* The steps at which a request acts on the escrow or on what it paid.
EscrowPcs == {"submit", "look", "call", "recheck", "confirmRefund", "ledger", "fail"}

\* What a request knows: it acts on the escrow only if it read one in the row,
\* commits from a status it read there, and writes down a payment it has seen,
\* which the provider does not take back.
Knows(q) ==
  /\ q.pc \in EscrowPcs => q.escrow
  /\ q.escrow => attached
  /\ q.pc # "idle" => q.from \in Statuses /\ q.to \in Statuses
  /\ q.pc = "recheck" => q.op = "complete" \/ (q.op = "cancel" /\ q.tier = "full")
  /\ q.pc = "ledger" => escrow = "released"
  /\ q.pc = "confirmRefund" => escrow = "cancelled"

RequestsKnow == \A r \in Requests : Knows(req[r])

\* Until the escrow is attached there is nothing to confirm, and only until then
\* can the reservation be withdrawn.
CreationOrder ==
  /\ creation = "reserve" => status = "Absent"
  /\ creation \in {"checks", "escrow", "delete", "attach"} => status # "Absent"
  /\ creation \in {"reserve", "checks", "escrow", "delete", "attach"} => ~attached
  /\ creation \in {"reserve", "checks", "escrow"} => escrow = "none" /\ orders = {}
  /\ attached => status # "Absent"
  /\ ~attached => refund \notin {"submitted", "confirmed"}

Inv == TypeOK /\ ClaimsAreBacked /\ RequestsKnow /\ CreationOrder

-----------------------------------------------------------------------------
\* How a step of one request changes the table of requests.

OthersKept(r) == \A s \in Requests : s # r => req'[s] = req[s]

LEMMA TypeOfReq == TypeOK => req \in [Requests -> Request]
BY DEF TypeOK, Request, Pcs

LEMMA TypeOfReqPrime == TypeOK' <=> /\ (status \in Statuses \cup {"Absent"})'
                                    /\ (dispute \in {"none", "raised", "resolved"})'
                                    /\ (attached \in BOOLEAN)'
                                    /\ (history \subseteq Statuses \X Statuses)'
                                    /\ (refund \in RefundStatus \cup {"none"})'
                                    /\ (earnings \in BOOLEAN)'
                                    /\ (window \in Tiers)'
                                    /\ (escrow \in Open \cup {"none", "released", "cancelled"})'
                                    /\ (orders \subseteq {"released", "cancelled"})'
                                    /\ (creation \in {"reserve", "checks", "escrow", "delete",
                                                      "attach", "cancelEscrow", "done"})'
                                    /\ req' \in [Requests -> Request]
                                    /\ (crashes \in 0..MaxCrashes)'
BY DEF TypeOK, Request, Pcs

LEMMA IdleIsRequest == Idle \in Request /\ Knows(Idle) /\ Knows(Idle)'
<1>1. Idle \in Request
  BY DEF Idle, Request, Pcs, Tiers
<1>2. Knows(Idle) /\ Knows(Idle)'
  BY DEF Idle, Knows, EscrowPcs
<1> QED BY <1>1, <1>2

LEMMA Proceeding ==
  ASSUME TypeOK, NEW r \in Requests, NEW pc \in Pcs, Proceed(r, pc)
  PROVE  /\ req' \in [Requests -> Request]
         /\ OthersKept(r)
         /\ req'[r] = Idle \/ (req'[r] = [req[r] EXCEPT !.pc = pc] /\ pc # "idle")
<1>1. req \in [Requests -> Request] /\ req[r] \in Request
  BY TypeOfReq
<1>2. [req[r] EXCEPT !.pc = pc] \in Request
  BY <1>1 DEF Request
<1>3. CASE pc = "idle"
  BY <1>1, <1>3, IdleIsRequest DEF Proceed, Return, OthersKept
<1>4. CASE pc # "idle"
  BY <1>1, <1>2, <1>4 DEF Proceed, Continue, OthersKept
<1> QED BY <1>3, <1>4

\* If a step leaves the row and the payment alone, what the others know stands.
LEMMA OthersKnow ==
  ASSUME RequestsKnow, NEW r \in Requests, OthersKept(r), Knows(req[r])',
         UNCHANGED <<attached, escrow>>
  PROVE  RequestsKnow'
BY DEF RequestsKnow, Knows, OthersKept

\* Going on to pc is sound when the request knows what that step relies on.
LEMMA GoingOn ==
  ASSUME Inv, NEW r \in Requests, NEW pc \in Pcs, Proceed(r, pc),
         req[r].pc # "idle",
         pc \in EscrowPcs => req[r].escrow,
         pc = "recheck" => Verifies(r),
         pc = "ledger" => escrow = "released",
         pc = "confirmRefund" => escrow = "cancelled",
         UNCHANGED <<attached, escrow>>
  PROVE  req' \in [Requests -> Request] /\ RequestsKnow'
<1>1. /\ req' \in [Requests -> Request]
      /\ OthersKept(r)
      /\ req'[r] = Idle \/ (req'[r] = [req[r] EXCEPT !.pc = pc] /\ pc # "idle")
  BY Proceeding DEF Inv
<1>2. req[r] \in Request
  BY TypeOfReq DEF Inv
<1>3. Knows(req[r])
  BY DEF Inv, RequestsKnow
<1>4. Knows(req[r])'
  <2>1. CASE req'[r] = Idle
    BY <2>1 DEF Idle, Knows, EscrowPcs
  <2>2. CASE req'[r] = [req[r] EXCEPT !.pc = pc]
    <3>1. /\ req'[r].pc = pc /\ req'[r].escrow = req[r].escrow
          /\ req'[r].from = req[r].from /\ req'[r].op = req[r].op
          /\ req'[r].tier = req[r].tier /\ req'[r].to = req[r].to
      BY <1>2, <2>2 DEF Request
    <3> QED BY <1>3, <3>1 DEF Knows, Verifies
  <2> QED BY <1>1, <2>1, <2>2
<1>5. RequestsKnow'
  BY <1>1, <1>4, OthersKnow DEF Inv
<1> QED BY <1>1, <1>5

\* A request that turns into another record knows what that record needs.
LEMMA GoingOver ==
  ASSUME Inv, NEW r \in Requests, NEW q \in Request, req' = [req EXCEPT ![r] = q],
         Knows(q), UNCHANGED <<attached, escrow>>
  PROVE  req' \in [Requests -> Request] /\ RequestsKnow'
<1>1. req \in [Requests -> Request]
  BY TypeOfReq DEF Inv
<1>2. req' \in [Requests -> Request] /\ OthersKept(r) /\ req'[r] = q
  BY <1>1 DEF OthersKept
<1>3. Knows(req[r])'
  BY <1>2 DEF Knows
<1> QED BY <1>2, <1>3, OthersKnow DEF Inv

-----------------------------------------------------------------------------
\* One lemma per action: each keeps the invariant.

LEMMA LoadKeeps ==
  ASSUME Inv, NEW r \in Requests, NEW op \in Ops, Load(r, op)
  PROVE  Inv'
<1>1. PICK to \in Targets(op) :
        req' = [req EXCEPT ![r] =
                  [op |-> op, pc |-> FirstStep(op), to |-> to,
                   from |-> IF op = "resolve" THEN "Disputed" ELSE status,
                   escrow |-> attached,
                   tier |-> IF op = "cancel" THEN window ELSE "none"]]
  BY DEF Load
<1> DEFINE q == [op |-> op, pc |-> FirstStep(op), to |-> to,
                 from |-> IF op = "resolve" THEN "Disputed" ELSE status,
                 escrow |-> attached,
                 tier |-> IF op = "cancel" THEN window ELSE "none"]
<1>2. FirstStep(op) \in {"request", "commit", "call", "look"}
      /\ (FirstStep(op) \in {"call", "look"} => attached)
  BY DEF FirstStep
<1>3. q \in Request
  <2>1. op \in AllOps
    BY OpsAssumption
  <2>2. to \in Statuses
    BY <2>1 DEF Targets, Statuses
  <2>3. window \in Tiers /\ status \in Statuses \cup {"Absent"} /\ attached \in BOOLEAN
    BY DEF Inv, TypeOK
  <2> QED BY <1>2, <2>1, <2>2, <2>3 DEF Request, Pcs, Tiers, Statuses
<1>4. status \in Statuses /\ to \in Statuses
  BY OpsAssumption DEF Load, Inv, TypeOK, Targets, Statuses
<1>5. Knows(q)
  BY <1>2, <1>4 DEF Knows, EscrowPcs, Statuses
<1>6. req' \in [Requests -> Request] /\ RequestsKnow'
  <2> HIDE DEF q
  <2> QED BY <1>1, <1>3, <1>5, GoingOver DEF q, Load, row, provider
<1>7. TypeOK'
  BY <1>6, TypeOfReqPrime DEF Inv, TypeOK, Load, row, provider
<1>8. ClaimsAreBacked' /\ CreationOrder'
  BY DEF Inv, ClaimsAreBacked, CreationOrder, Load, row, provider
<1> QED BY <1>6, <1>7, <1>8 DEF Inv

LEMMA LookKeeps ==
  ASSUME Inv, NEW r \in Requests, Look(r)
  PROVE  Inv'
<1>1. req[r] \in Request /\ Knows(req[r]) /\ req[r].escrow
  BY TypeOfReq DEF Inv, RequestsKnow, Knows, Look, At, EscrowPcs
<1>2. UNCHANGED <<row, history, refund, earnings, window, provider, creation, crashes>>
  BY DEF Look
<1>3. req' \in [Requests -> Request] /\ RequestsKnow'
  <2>1. CASE \E pc \in {"commit", "fail", "idle", "call", "recheck"} :
                Proceed(r, pc) /\ (pc = "recheck" => Verifies(r))
    BY <1>1, <1>2, <2>1, GoingOn DEF Look, At, Pcs, EscrowPcs, row, provider
  <2>2. CASE req' = [req EXCEPT ![r].pc = "commit", ![r].to = "Confirmed"]
    <3> DEFINE q == [req[r] EXCEPT !.pc = "commit", !.to = "Confirmed"]
    <3>1. q \in Request
      BY <1>1 DEF Request, Pcs, Statuses
    <3>2. q.pc = "commit" /\ q.escrow = req[r].escrow /\ q.from = req[r].from
          /\ q.to = "Confirmed"
      BY <1>1 DEF Request
    <3>3. Knows(q)
      BY <1>1, <3>2 DEF Knows, Look, At, EscrowPcs, Statuses
    <3>4. req' = [req EXCEPT ![r] = q]
      BY <2>2, TypeOfReq DEF Inv
    <3> HIDE DEF q
    <3> QED BY <1>2, <3>1, <3>3, <3>4, GoingOver DEF row, provider
  <2>3. \/ \E pc \in {"commit", "fail", "idle", "call", "recheck"} :
                Proceed(r, pc) /\ (pc = "recheck" => Verifies(r))
        \/ req' = [req EXCEPT ![r].pc = "commit", ![r].to = "Confirmed"]
    <3>1. \A pc \in {"call", "recheck", "commit"} : Continue(r, pc) => Proceed(r, pc)
      BY DEF Proceed
    <3>2. OnError(r) \in {"commit", "fail", "idle"}
      BY DEF OnError
    <3>3. CASE req[r].op = "expire"
      BY <3>1, <3>3 DEF Look
    <3>4. CASE req[r].op # "expire"
      BY <3>1, <3>2, <3>4 DEF Look
    <3> QED BY <3>3, <3>4
  <2> QED BY <2>1, <2>2, <2>3
<1>4. TypeOK'
  BY <1>2, <1>3, TypeOfReqPrime DEF Inv, TypeOK, row, provider
<1>5. ClaimsAreBacked' /\ CreationOrder'
  BY <1>2 DEF Inv, ClaimsAreBacked, CreationOrder, row, provider
<1> QED BY <1>3, <1>4, <1>5 DEF Inv

LEMMA RequestRefundKeeps ==
  ASSUME Inv, NEW r \in Requests, RequestRefund(r)
  PROVE  Inv'
<1> DEFINE found == IF refund = "none" THEN "requested" ELSE refund
<1>1. req[r].pc = "request" /\ refund' \in {refund, found}
  BY DEF RequestRefund, At
<1>2. UNCHANGED <<row, history, earnings, window, provider, creation, crashes>>
  BY DEF RequestRefund
<1>3. PICK pc \in {"commit", "look", "submit", "review", "idle"} :
        Proceed(r, pc) /\ (pc \in {"look", "submit"} => req[r].escrow)
  <2>1. \A pc \in {"commit", "look", "submit", "review"} : Continue(r, pc) => Proceed(r, pc)
    BY DEF Proceed
  <2>2. Return(r) => Proceed(r, "idle")
    BY DEF Proceed
  <2> QED BY <2>1, <2>2 DEF RequestRefund
<1>4. req' \in [Requests -> Request] /\ RequestsKnow'
  BY <1>1, <1>2, <1>3, GoingOn DEF Pcs, EscrowPcs, row, provider
<1>5. TypeOK'
  BY <1>1, <1>2, <1>4, TypeOfReqPrime DEF Inv, TypeOK, RefundStatus, row, provider
<1>6. ClaimsAreBacked' /\ CreationOrder'
  BY <1>1, <1>2 DEF Inv, ClaimsAreBacked, CreationOrder, row, provider
<1> QED BY <1>4, <1>5, <1>6 DEF Inv

\* A refund moves to a status other than confirmed, or the escrow was seen
\* cancelled; it is submitted or confirmed only by a request with an escrow.
LEMMA MoveRefundKeeps ==
  ASSUME Inv, NEW r \in Requests,
         NEW pc \in Pcs, NEW to \in RefundStatus, NEW next \in {"commit", "look", "idle"},
         NEW otherwise \in {"commit", "idle"},
         MoveRefund(r, pc, to, next, otherwise), pc # "idle",
         to \in {"submitted", "confirmed"} \/ next = "look" => pc \in EscrowPcs,
         to = "confirmed" => pc = "confirmRefund"
  PROVE  Inv'
<1>1. Knows(req[r]) /\ req[r].pc = pc
  BY DEF Inv, RequestsKnow, MoveRefund, At
<1>2. UNCHANGED <<row, history, earnings, window, provider, creation, crashes>>
  BY DEF MoveRefund
<1>3. refund' = refund \/ (refund # "none" /\ refund # "confirmed" /\ refund' = to)
  <2>1. ALLOWED_REFUND_TRANSITIONS["confirmed"] = {}
    BY DEF ALLOWED_REFUND_TRANSITIONS
  <2> QED BY <2>1 DEF MoveRefund, transitionRefundStatus
<1>4. req' \in [Requests -> Request] /\ RequestsKnow'
  <2>1. Proceed(r, next) \/ Proceed(r, otherwise)
    BY DEF MoveRefund
  <2>2. next \in EscrowPcs => req[r].escrow
    BY <1>1 DEF Knows, EscrowPcs
  <2>3. CASE Proceed(r, next)
    BY <1>1, <1>2, <2>2, <2>3, GoingOn DEF Pcs, row, provider
  <2>4. CASE Proceed(r, otherwise)
    BY <1>1, <1>2, <2>4, GoingOn DEF Pcs, EscrowPcs, row, provider
  <2> QED BY <2>1, <2>3, <2>4
<1>5. TypeOK'
  BY <1>2, <1>3, <1>4, TypeOfReqPrime DEF Inv, TypeOK, row, provider
<1>6. ClaimsAreBacked'
  BY <1>1, <1>2, <1>3 DEF Inv, ClaimsAreBacked, Knows, provider
<1>7. CreationOrder'
  BY <1>1, <1>2, <1>3 DEF Inv, CreationOrder, Knows, row, provider
<1> QED BY <1>4, <1>5, <1>6, <1>7 DEF Inv

LEMMA RefundStepsKeep ==
  ASSUME Inv, NEW r \in Requests,
         ReviewRefund(r) \/ SubmitRefund(r) \/ ConfirmRefund(r) \/ FailRefund(r)
  PROVE  Inv'
<1>1. CASE ReviewRefund(r)
  BY <1>1, MoveRefundKeeps DEF ReviewRefund, Pcs, RefundStatus, EscrowPcs
<1>2. CASE SubmitRefund(r)
  BY <1>2, MoveRefundKeeps DEF SubmitRefund, Pcs, RefundStatus, EscrowPcs
<1>3. CASE ConfirmRefund(r)
  BY <1>3, MoveRefundKeeps DEF ConfirmRefund, Pcs, RefundStatus, EscrowPcs
<1>4. CASE FailRefund(r)
  BY <1>4, MoveRefundKeeps DEF FailRefund, Pcs, RefundStatus, EscrowPcs
<1> QED BY <1>1, <1>2, <1>3, <1>4

LEMMA CallProviderKeeps ==
  ASSUME Inv, NEW r \in Requests, CallProvider(r)
  PROVE  Inv'
<1>1. req[r].pc = "call" /\ req[r].escrow /\ attached
  BY DEF Inv, RequestsKnow, Knows, CallProvider, At, EscrowPcs
<1>2. UNCHANGED <<row, history, refund, earnings, window, escrow, creation, crashes>>
  BY DEF CallProvider
<1>3. Wanted(r) \in {"released", "cancelled"}
  BY DEF Wanted
<1>4. orders' \subseteq {"released", "cancelled"}
  <2>1. orders' = orders \/ orders' = orders \cup {Wanted(r)}
    BY DEF CallProvider, Asked, AskedInVain, Order
  <2> QED BY <1>3, <2>1 DEF Inv, TypeOK
<1>5. PICK pc \in {"recheck", "commit", "fail", "idle"} :
        Proceed(r, pc) /\ (pc = "recheck" => Verifies(r))
  <2>1. \A pc \in {"recheck", "commit"} : Continue(r, pc) => Proceed(r, pc)
    BY DEF Proceed
  <2>2. OnError(r) \in {"commit", "fail", "idle"}
    BY DEF OnError
  <2> QED BY <2>1, <2>2 DEF CallProvider
<1>6. req' \in [Requests -> Request] /\ RequestsKnow'
  BY <1>1, <1>2, <1>5, GoingOn DEF Pcs, row
<1>7. TypeOK'
  BY <1>2, <1>4, <1>6, TypeOfReqPrime DEF Inv, TypeOK, row
<1>8. ClaimsAreBacked' /\ CreationOrder'
  BY <1>1, <1>2 DEF Inv, ClaimsAreBacked, CreationOrder, row
<1> QED BY <1>6, <1>7, <1>8 DEF Inv

LEMMA RecheckKeeps ==
  ASSUME Inv, NEW r \in Requests, Recheck(r)
  PROVE  Inv'
<1>1. req[r].pc = "recheck" /\ req[r].escrow /\ Verifies(r)
  BY DEF Verifies, Inv, RequestsKnow, Knows, Recheck, At, EscrowPcs
<1>2. UNCHANGED <<row, history, refund, earnings, window, provider, creation, crashes>>
  BY DEF Recheck
<1>3. PICK pc \in {"ledger", "confirmRefund", "commit", "fail", "idle"} :
        /\ Proceed(r, pc)
        /\ pc = "ledger" => escrow = "released"
        /\ pc = "confirmRefund" => escrow = "cancelled"
  <2>1. OnError(r) \in {"commit", "fail", "idle"}
    BY DEF OnError
  <2>2. Wanted(r) = IF req[r].op = "complete" THEN "released" ELSE "cancelled"
    BY <1>1 DEF Wanted, Verifies
  <2>3. CASE Proceed(r, OnError(r))
    BY <2>1, <2>3
  <2>4. CASE ~Proceed(r, OnError(r))
    BY <2>2, <2>4 DEF Recheck
  <2> QED BY <2>3, <2>4
<1>4. req' \in [Requests -> Request] /\ RequestsKnow'
  BY <1>1, <1>2, <1>3, GoingOn DEF Pcs, row, provider
<1>5. TypeOK'
  BY <1>2, <1>4, TypeOfReqPrime DEF Inv, TypeOK, row, provider
<1>6. ClaimsAreBacked' /\ CreationOrder'
  BY <1>2 DEF Inv, ClaimsAreBacked, CreationOrder, row, provider
<1> QED BY <1>4, <1>5, <1>6 DEF Inv

LEMMA RecordEarningsKeeps ==
  ASSUME Inv, NEW r \in Requests, RecordEarnings(r)
  PROVE  Inv'
<1>1. req[r].pc = "ledger" /\ escrow = "released"
  BY DEF Inv, RequestsKnow, Knows, RecordEarnings, At
<1>2. UNCHANGED <<row, history, refund, window, provider, creation, crashes>>
      /\ earnings' \in BOOLEAN
  BY DEF RecordEarnings, Inv, TypeOK
<1>3. \E pc \in {"commit", "idle"} : Proceed(r, pc)
  BY DEF RecordEarnings, Proceed
<1>4. req' \in [Requests -> Request] /\ RequestsKnow'
  BY <1>1, <1>2, <1>3, GoingOn DEF Pcs, EscrowPcs, row, provider
<1>5. TypeOK'
  BY <1>2, <1>4, TypeOfReqPrime DEF Inv, TypeOK, row, provider
<1>6. ClaimsAreBacked' /\ CreationOrder'
  BY <1>1, <1>2 DEF Inv, ClaimsAreBacked, CreationOrder, row, provider
<1> QED BY <1>4, <1>5, <1>6 DEF Inv

\* The status a commit leaves is the old one or a successor of it.
LEMMA CommitMoves ==
  ASSUME Inv, NEW r \in Requests, Commit(r)
  PROVE  /\ status' = status \/ (status \in Statuses /\ status' \in VALID_TRANSITIONS[status])
         /\ status' \in Statuses \cup {"Absent"}
         /\ status # "Absent" => status' # "Absent"
         /\ dispute' \in {"none", "raised", "resolved"}
<1>1. req[r].from \in Statuses /\ req[r] \in Request
  BY TypeOfReq DEF Inv, RequestsKnow, Knows, Commit, At
<1>2. \A s \in Statuses : VALID_TRANSITIONS[s] \subseteq Statuses
  BY DEF VALID_TRANSITIONS, Statuses
<1>3. dispute' \in {"none", "raised", "resolved"}
  BY DEF Commit, Write, Inv, TypeOK
<1>4. status' = status \/ (status \in Statuses /\ status' \in VALID_TRANSITIONS[status])
  BY <1>1 DEF Commit, Write, StillAt
<1>5. "Absent" \notin Statuses
  BY DEF Statuses
<1> QED BY <1>2, <1>3, <1>4, <1>5 DEF Inv, TypeOK

LEMMA CommitKeeps ==
  ASSUME Inv, NEW r \in Requests, Commit(r)
  PROVE  Inv'
<1>1. UNCHANGED <<attached, history, refund, earnings, window, provider, creation, crashes>>
  BY DEF Commit
<1>2. req[r].pc = "commit" /\ req[r] \in Request /\ req[r].from \in Statuses
      /\ req[r].to \in Statuses
  BY TypeOfReq DEF Inv, RequestsKnow, Knows, Commit, At
<1>3. req' \in [Requests -> Request] /\ RequestsKnow'
  <2> DEFINE q == [Idle EXCEPT !.pc = "history", !.from = req[r].from, !.to = req[r].to]
  <2>1. q \in Request
    BY <1>2, IdleIsRequest DEF Request, Pcs
  <2>2. Knows(q)
    <3>1. q.pc = "history" /\ q.from = req[r].from /\ q.to = req[r].to /\ q.escrow = FALSE
      BY IdleIsRequest DEF Idle, Request
    <3> QED BY <1>2, <3>1 DEF Knows, EscrowPcs
  <2>3. CASE Committed(r)
    <3>1. req' = [req EXCEPT ![r] = q]
      BY <2>3 DEF Committed
    <3> HIDE DEF q
    <3> QED BY <1>1, <2>1, <2>2, <3>1, GoingOver DEF provider
  <2>4. CASE Return(r)
    BY <1>1, <2>4, IdleIsRequest, GoingOver DEF Return, provider
  <2> QED BY <2>3, <2>4 DEF Commit
<1>4. TypeOK'
  BY <1>1, <1>3, CommitMoves, TypeOfReqPrime DEF Inv, TypeOK, provider
<1>5. creation = "reserve" => status' = status
  <2>1. "Absent" \notin Statuses
    BY DEF Statuses
  <2> QED BY <2>1, CommitMoves DEF Inv, CreationOrder
<1>6. ClaimsAreBacked' /\ CreationOrder'
  BY <1>1, <1>5, CommitMoves DEF Inv, ClaimsAreBacked, CreationOrder, provider
<1> QED BY <1>3, <1>4, <1>6 DEF Inv

LEMMA InsertHistoryKeeps ==
  ASSUME Inv, NEW r \in Requests, InsertHistory(r)
  PROVE  Inv'
<1>1. UNCHANGED <<row, refund, earnings, window, provider, creation, crashes>>
  BY DEF InsertHistory
<1>2. req[r].from \in Statuses /\ req[r].to \in Statuses
  BY DEF Inv, RequestsKnow, Knows, InsertHistory, At
<1>3. req' \in [Requests -> Request] /\ RequestsKnow'
  BY <1>1, IdleIsRequest, GoingOver DEF InsertHistory, Return, row, provider
<1>4. history' \subseteq Statuses \X Statuses
  <2>1. history' = history \/ history' = history \cup {<<req[r].from, req[r].to>>}
    BY DEF InsertHistory
  <2> QED BY <1>2, <2>1 DEF Inv, TypeOK
<1>5. TypeOK'
  BY <1>1, <1>3, <1>4, TypeOfReqPrime DEF Inv, TypeOK, row, provider
<1>6. ClaimsAreBacked' /\ CreationOrder'
  BY <1>1 DEF Inv, ClaimsAreBacked, CreationOrder, row, provider
<1> QED BY <1>3, <1>5, <1>6 DEF Inv

LEMMA StepKeeps ==
  ASSUME Inv, NEW r \in Requests, Step(r)
  PROVE  Inv'
BY RequestRefundKeeps, RefundStepsKeep, LookKeeps, CallProviderKeeps, RecheckKeeps,
   RecordEarningsKeeps, CommitKeeps, InsertHistoryKeeps DEF Step

\* Creating the booking: it is the only request that has its escrow in hand
\* before the row shows it.
LEMMA CreateBookingKeeps ==
  ASSUME Inv, createBooking
  PROVE  Inv'
<1>1. UNCHANGED <<dispute, earnings, window, req, crashes>>
  BY DEF createBooking, requestsUnchanged, Reserve, ReservationChecks, CreateEscrow,
         DeleteReservation, AttachEscrow, RollBackEscrow
<1>2. req' \in [Requests -> Request]
  BY <1>1, TypeOfReq DEF Inv
<1>3. CASE Reserve
  BY <1>1, <1>2, <1>3, TypeOfReqPrime
     DEF Inv, TypeOK, ClaimsAreBacked, RequestsKnow, Knows, CreationOrder, Reserve, provider,
         Statuses
<1>4. CASE ReservationChecks
  BY <1>1, <1>2, <1>4, TypeOfReqPrime
     DEF Inv, TypeOK, ClaimsAreBacked, RequestsKnow, Knows, CreationOrder, ReservationChecks,
         provider
<1>5. CASE CreateEscrow
  <2>1. escrow = "none" /\ ~attached /\ orders = {}
    BY <1>5 DEF Inv, CreationOrder, CreateEscrow
  <2>2. UNCHANGED <<status, attached, history, refund, orders>>
        /\ escrow' \in {"none", "created"} /\ creation' \in {"attach", "delete"}
    BY <1>5, <2>1 DEF CreateEscrow
  <2>3. RequestsKnow'
    BY <1>1, <2>1, <2>2 DEF Inv, RequestsKnow, Knows
  <2>4. TypeOK'
    BY <1>1, <1>2, <2>2, TypeOfReqPrime DEF Inv, TypeOK, Open
  <2>5. ClaimsAreBacked' /\ CreationOrder'
    BY <1>1, <1>5, <2>1, <2>2 DEF Inv, ClaimsAreBacked, CreationOrder, CreateEscrow
  <2> QED BY <2>3, <2>4, <2>5 DEF Inv
<1>6. CASE DeleteReservation
  BY <1>1, <1>2, <1>6, TypeOfReqPrime
     DEF Inv, TypeOK, ClaimsAreBacked, RequestsKnow, Knows, CreationOrder, DeleteReservation,
         provider
<1>7. CASE AttachEscrow
  <2>1. ~attached
    BY <1>7 DEF Inv, CreationOrder, AttachEscrow
  <2>2. UNCHANGED <<status, history, refund, escrow, orders>>
        /\ attached' \in BOOLEAN /\ creation' \in {"done", "cancelEscrow"}
        /\ status # "Absent"
    BY <1>7 DEF AttachEscrow, provider, Inv, CreationOrder
  <2>3. RequestsKnow'
    BY <1>1, <2>1, <2>2 DEF Inv, RequestsKnow, Knows
  <2>4. TypeOK'
    BY <1>1, <1>2, <2>2, TypeOfReqPrime DEF Inv, TypeOK
  <2>5. ClaimsAreBacked' /\ CreationOrder'
    BY <1>1, <2>1, <2>2 DEF Inv, ClaimsAreBacked, CreationOrder
  <2> QED BY <2>3, <2>4, <2>5 DEF Inv
<1>8. CASE RollBackEscrow
  <2>1. orders' = orders \/ orders' = orders \cup {"cancelled"}
    BY <1>8 DEF RollBackEscrow, Asked, AskedInVain, Order
  <2> QED
    BY <1>1, <1>2, <1>8, <2>1, TypeOfReqPrime
       DEF Inv, TypeOK, ClaimsAreBacked, RequestsKnow, Knows, CreationOrder, RollBackEscrow
<1> QED BY <1>3, <1>4, <1>5, <1>6, <1>7, <1>8 DEF createBooking

LEMMA EnvironmentKeeps ==
  ASSUME Inv, Fund \/ Settle \/ resolveRefundTier \/ Crash
  PROVE  Inv'
<1>1. req \in [Requests -> Request]
  BY TypeOfReq DEF Inv
<1>2. CASE Fund
  BY <1>1, <1>2, TypeOfReqPrime
     DEF Inv, TypeOK, ClaimsAreBacked, RequestsKnow, Knows, CreationOrder, Fund, row, Open
<1>3. CASE Settle
  <2>1. escrow' \in {"released", "cancelled"} /\ orders' = {} /\ escrow \in Open /\ orders # {}
    BY <1>3 DEF Settle, Inv, TypeOK
  <2>2. UNCHANGED <<row, history, refund, earnings, window, creation, req, crashes>>
    BY <1>3 DEF Settle
  <2>3. ClaimsAreBacked' /\ RequestsKnow' /\ CreationOrder'
    BY <2>1, <2>2 DEF Inv, ClaimsAreBacked, RequestsKnow, Knows, CreationOrder, row, Open
  <2>4. TypeOK'
    BY <1>1, <2>1, <2>2, TypeOfReqPrime DEF Inv, TypeOK, row
  <2> QED BY <2>3, <2>4 DEF Inv
<1>4. CASE resolveRefundTier
  <2>1. window' \in Tiers
    BY <1>4 DEF resolveRefundTier, Tiers, Inv, TypeOK
  <2> QED
    BY <1>1, <1>4, <2>1, TypeOfReqPrime
       DEF Inv, TypeOK, ClaimsAreBacked, RequestsKnow, Knows, CreationOrder, resolveRefundTier,
           row, provider
<1>5. CASE Crash
  <2>1. UNCHANGED <<row, history, refund, earnings, window, provider>>
        /\ crashes' \in 0..MaxCrashes
    BY <1>5, CrashAssumption DEF Crash, Inv, TypeOK
  <2>2. req' \in [Requests -> Request] /\ RequestsKnow' /\ creation' \in {creation, "done"}
    <3>1. CASE UNCHANGED req
      BY <1>1, <1>5, <2>1, <3>1 DEF Crash, Inv, RequestsKnow, Knows, row, provider
    <3>2. CASE \E r \in Requests : Return(r) /\ UNCHANGED creation
      BY <2>1, <3>2, IdleIsRequest, GoingOver DEF Return, row, provider
    <3> QED BY <1>5, <3>1, <3>2 DEF Crash
  <2>3. TypeOK'
    BY <2>1, <2>2, TypeOfReqPrime DEF Inv, TypeOK, row, provider
  <2>4. ClaimsAreBacked' /\ CreationOrder'
    BY <2>1, <2>2 DEF Inv, ClaimsAreBacked, CreationOrder, row, provider
  <2> QED BY <2>2, <2>3, <2>4 DEF Inv
<1> QED BY <1>2, <1>3, <1>4, <1>5

LEMMA InitEstablishes == Init => Inv
<1> SUFFICES ASSUME Init PROVE Inv
  OBVIOUS
<1>1. req \in [Requests -> Request] /\ RequestsKnow
  BY IdleIsRequest DEF Init, RequestsKnow
<1>2. TypeOK
  <2>1. crashes \in 0..MaxCrashes
    BY CrashAssumption DEF Init
  <2>2. req \in [Requests -> Request]
    BY <1>1
  <2> QED BY <2>1, <2>2 DEF Init, TypeOK, Request, Pcs
<1>3. ClaimsAreBacked /\ CreationOrder
  BY DEF Init, ClaimsAreBacked, CreationOrder
<1> QED BY <1>1, <1>2, <1>3 DEF Inv

LEMMA StutteringKeeps == Inv /\ UNCHANGED vars => Inv'
<1> SUFFICES ASSUME Inv, UNCHANGED vars PROVE Inv'
  OBVIOUS
<1>1. TypeOK'
  BY TypeOfReq, TypeOfReqPrime DEF Inv, TypeOK, vars, row, provider
<1>2. ClaimsAreBacked' /\ RequestsKnow' /\ CreationOrder'
  BY DEF Inv, ClaimsAreBacked, RequestsKnow, Knows, CreationOrder, vars, row, provider
<1> QED BY <1>1, <1>2 DEF Inv

\* The whole invariant: types, backed claims, and the two facts that make them
\* inductive - what a request in flight has seen, and the order of a creation.
THEOREM InvariantHolds == Spec => []Inv
<1>1. Inv /\ [Next]_vars => Inv'
  <2> SUFFICES ASSUME Inv, [Next]_vars PROVE Inv'
    OBVIOUS
  <2>1. CASE createBooking
    BY <2>1, CreateBookingKeeps
  <2>2. CASE Fund \/ Settle \/ resolveRefundTier \/ Crash
    BY <2>2, EnvironmentKeeps
  <2>3. CASE \E r \in Requests : Step(r)
    BY <2>3, StepKeeps
  <2>4. CASE \E r \in Requests, op \in Ops : Load(r, op)
    BY <2>4, LoadKeeps
  <2>5. CASE UNCHANGED vars
    BY <2>5, StutteringKeeps
  <2> QED BY <2>1, <2>2, <2>3, <2>4, <2>5 DEF Next
<1> QED BY <1>1, InitEstablishes, PTL DEF Spec

\* Rows, requests and provider state stay well formed.
THEOREM TypesCorrect == Spec => []TypeOK
BY InvariantHolds, PTL DEF Inv

\* No earnings before the release, no confirmed refund before the cancellation.
THEOREM ClaimsBacked == Spec => []ClaimsAreBacked
BY InvariantHolds, PTL DEF Inv

-----------------------------------------------------------------------------
\* The refinement: what a step does to who is paid and who is on record as paid.

Paid == CASE escrow = "released"  -> "host"
          [] escrow = "cancelled" -> "tenant"
          [] OTHER                -> "nobody"

OnRecord == (IF earnings THEN {"host"} ELSE {})
              \cup (IF refund = "confirmed" THEN {"tenant"} ELSE {})

Stutter == UNCHANGED <<status, Paid, OnRecord>>

Moves ==
  /\ \/ status = "Absent" /\ status' = "Pending"
     \/ status # "Absent" /\ status' \in VALID_TRANSITIONS[status]
     \/ status # "Absent" /\ status' = "Absent"
  /\ UNCHANGED <<Paid, OnRecord>>

Pays == Paid = "nobody" /\ Paid' \in {"host", "tenant"} /\ UNCHANGED <<status, OnRecord>>

Records == Paid # "nobody" /\ OnRecord' = OnRecord \cup {Paid} /\ UNCHANGED <<status, Paid>>

Answers == Stutter \/ Moves \/ Pays \/ Records

\* A refund that moves is not yet confirmed; only a confirmation goes on record.
LEMMA RefundAnswers ==
  ASSUME Inv, NEW r \in Requests,
         NEW pc, NEW to \in RefundStatus, NEW next, NEW otherwise,
         MoveRefund(r, pc, to, next, otherwise),
         to = "confirmed" => pc = "confirmRefund"
  PROVE  Stutter \/ Records
<1>1. UNCHANGED <<status, earnings, escrow>>
  BY DEF MoveRefund, row, provider
<1>2. refund' = refund \/ (refund # "confirmed" /\ refund' = to)
  BY DEF MoveRefund, transitionRefundStatus, ALLOWED_REFUND_TRANSITIONS
<1>3. CASE refund' = refund
  BY <1>1, <1>3 DEF Stutter, Paid, OnRecord
<1>4. CASE refund' = to /\ refund # "confirmed" /\ to # "confirmed"
  BY <1>1, <1>4 DEF Stutter, Paid, OnRecord
<1>5. CASE refund' = "confirmed" /\ to = "confirmed"
  <2>1. escrow = "cancelled"
    BY <1>5 DEF Inv, RequestsKnow, Knows, MoveRefund, At
  <2>2. Paid = "tenant" /\ Paid' = Paid
    BY <1>1, <2>1 DEF Paid
  <2>3. OnRecord' = OnRecord \cup {"tenant"}
    BY <1>1, <1>5 DEF OnRecord
  <2> QED BY <1>1, <2>2, <2>3 DEF Records
<1> QED BY <1>2, <1>3, <1>4, <1>5

LEMMA RequestAnswers ==
  ASSUME Inv, NEW r \in Requests, Step(r)
  PROVE  Answers
<1>1. CASE RequestRefund(r)
  <2>1. UNCHANGED <<status, earnings, escrow>> /\ (refund' = refund \/ (refund = "none" /\ refund' = "requested"))
    BY <1>1 DEF RequestRefund, row, provider
  <2> QED BY <2>1 DEF Answers, Stutter, Paid, OnRecord
<1>2. CASE ReviewRefund(r) \/ SubmitRefund(r) \/ ConfirmRefund(r) \/ FailRefund(r)
  BY <1>2, RefundAnswers
     DEF ReviewRefund, SubmitRefund, ConfirmRefund, FailRefund, RefundStatus, Answers
<1>3. CASE Look(r) \/ CallProvider(r) \/ Recheck(r) \/ InsertHistory(r)
  <2>1. UNCHANGED <<status, earnings, refund, escrow>>
    BY <1>3 DEF Look, CallProvider, Recheck, InsertHistory, row, provider
  <2> QED BY <2>1 DEF Answers, Stutter, Paid, OnRecord
<1>4. CASE RecordEarnings(r)
  <2>1. escrow = "released"
    BY <1>4 DEF Inv, RequestsKnow, Knows, RecordEarnings, At
  <2>2. UNCHANGED <<status, refund, escrow>> /\ earnings' \in {earnings, TRUE}
    BY <1>4 DEF RecordEarnings, row, provider
  <2>3. Paid = "host" /\ Paid' = Paid
    BY <2>1, <2>2 DEF Paid
  <2>4. CASE earnings' = earnings
    BY <2>2, <2>3, <2>4 DEF Answers, Stutter, OnRecord
  <2>5. CASE earnings' = TRUE
    <3>1. OnRecord' = OnRecord \cup {"host"}
      BY <2>2, <2>5 DEF OnRecord
    <3> QED BY <2>2, <2>3, <3>1 DEF Answers, Records
  <2> QED BY <2>2, <2>4, <2>5
<1>5. CASE Commit(r)
  <2>1. UNCHANGED <<earnings, refund, escrow>>
    BY <1>5 DEF Commit, provider
  <2>2. "Absent" \notin Statuses
    BY DEF Statuses
  <2>3. UNCHANGED <<Paid, OnRecord>>
    BY <2>1 DEF Paid, OnRecord
  <2> QED BY <1>5, <2>2, <2>3, CommitMoves DEF Answers, Stutter, Moves
<1> QED BY <1>1, <1>2, <1>3, <1>4, <1>5 DEF Step

LEMMA CreationAnswers ==
  ASSUME Inv, createBooking
  PROVE  Answers
<1>1. earnings' = earnings
  BY DEF createBooking, requestsUnchanged, Reserve, ReservationChecks, CreateEscrow,
         DeleteReservation, AttachEscrow, RollBackEscrow
<1>2. CASE Reserve
  <2>1. status = "Absent" /\ status' \in {"Absent", "Pending"} /\ UNCHANGED <<refund, escrow>>
    BY <1>2 DEF Reserve, Inv, CreationOrder, provider
  <2>2. UNCHANGED <<Paid, OnRecord>>
    BY <1>1, <2>1 DEF Paid, OnRecord
  <2> QED BY <2>1, <2>2 DEF Answers, Stutter, Moves
<1>3. CASE ReservationChecks \/ AttachEscrow \/ RollBackEscrow
  <2>1. UNCHANGED <<status, refund, escrow>>
    BY <1>3 DEF ReservationChecks, AttachEscrow, RollBackEscrow, provider
  <2> QED BY <1>1, <2>1 DEF Answers, Stutter, Paid, OnRecord
<1>4. CASE CreateEscrow
  <2>1. escrow = "none" /\ escrow' \in {"none", "created"} /\ UNCHANGED <<status, refund>>
    BY <1>4 DEF CreateEscrow, Inv, CreationOrder
  <2> QED BY <1>1, <2>1 DEF Answers, Stutter, Paid, OnRecord
<1>5. CASE DeleteReservation
  <2>1. escrow' = escrow /\ refund # "confirmed" /\ status # "Absent"
    BY <1>5 DEF DeleteReservation, Inv, CreationOrder, provider
  <2>2. CASE status' = "Absent" /\ refund' = "none"
    BY <1>1, <2>1, <2>2 DEF Answers, Moves, Paid, OnRecord
  <2>3. CASE UNCHANGED <<status, refund>>
    BY <1>1, <2>1, <2>3 DEF Answers, Stutter, Paid, OnRecord
  <2> QED BY <1>5, <2>2, <2>3 DEF DeleteReservation
<1> QED BY <1>2, <1>3, <1>4, <1>5 DEF createBooking

LEMMA NextAnswers == Inv /\ [Next]_vars => Answers
<1> SUFFICES ASSUME Inv, [Next]_vars PROVE Answers
  OBVIOUS
<1>1. CASE createBooking
  BY <1>1, CreationAnswers
<1>2. CASE \E r \in Requests : Step(r)
  BY <1>2, RequestAnswers
<1>3. CASE Settle
  <2>1. escrow \in Open /\ escrow' \in {"released", "cancelled"}
        /\ UNCHANGED <<status, refund, earnings>>
    BY <1>3 DEF Settle, Inv, TypeOK, row
  <2> QED BY <2>1 DEF Answers, Pays, Paid, OnRecord, Open
<1>4. CASE Fund
  BY <1>4 DEF Fund, Answers, Stutter, Paid, OnRecord, row
<1>5. CASE resolveRefundTier \/ Crash \/ (\E r \in Requests, op \in Ops : Load(r, op)) \/ UNCHANGED vars
  <2>1. UNCHANGED <<status, refund, earnings, escrow>>
    BY <1>5 DEF resolveRefundTier, Crash, Load, vars, row, provider
  <2> QED BY <2>1 DEF Answers, Stutter, Paid, OnRecord
<1> QED BY <1>1, <1>2, <1>3, <1>4, <1>5 DEF Next

\* Whatever overlaps, fails or dies, the parties of the booking see the plain
\* contract of BookingOutcome.
THEOREM OutcomeImplemented == Spec => OutcomePromise
<1>1. Init => Outcome!Init
  BY DEF Init, Outcome!Init
<1>2. Inv /\ [Next]_vars => [Outcome!Next]_(Outcome!vars)
  <2> SUFFICES ASSUME Answers PROVE [Outcome!Next]_(Outcome!vars)
    BY NextAnswers
  <2> QED
    BY DEF Answers, Stutter, Moves, Pays, Records, Paid, OnRecord,
           Outcome!Next, Outcome!Move, Outcome!Pay, Outcome!Claim, Outcome!vars
<1> QED BY <1>1, <1>2, InvariantHolds, PTL DEF Spec, OutcomePromise, Outcome!Spec
=============================================================================
