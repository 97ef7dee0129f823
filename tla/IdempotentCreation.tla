------------------------- MODULE IdempotentCreation -------------------------
(***************************************************************************)
(* POST /bookings under one Idempotency-Key of one user:                   *)
(* booking.controller.ts around idempotency.service.ts.  A request claims  *)
(* the key by inserting a row, books, and stores its answer for the        *)
(* retries; an action is what happens between two awaits.                  *)
(***************************************************************************)
EXTENDS Naturals

CONSTANTS
  Requests,      \* request slots: how many requests with the key may overlap
  Bodies,        \* the payloads sent with it
  MaxBookings,   \* no booking is made beyond that many
  MaxFailures    \* how many calls may fail, or requests die

None == "none"
ASSUME RequestsAssumption == None \notin Requests
ASSUME BoundsAssumption == MaxBookings \in Nat /\ MaxFailures \in Nat

VARIABLES
  row,        \* the row of the key in idempotency_keys
  req,        \* where each request is
  occupied,   \* the payloads whose dates are booked, by whomever
  made,       \* bookings this user has made; each is known by its number
  answers,    \* those answered to requests under the protection of the key
  unkeyed,    \* those answered to requests that went on without it
  failures

book == <<occupied, made>>
told == <<answers, unkeyed>>
vars == <<row, req, book, told, failures>>

\* A row names the request that claimed it; old: past the retention.
NoRow == [id |-> None, body |-> None, status |-> "absent", answer |-> 0, old |-> FALSE]
Claim(r, body) == [id |-> r, body |-> body, status |-> "processing", answer |-> 0, old |-> FALSE]

Idle == [pc |-> "idle", body |-> None, answer |-> 0]
At(pc, body) == [pc |-> pc, body |-> body, answer |-> 0]

Goes(r, q) == req' = [req EXCEPT ![r] = q]
Ends(r) == Goes(r, Idle)
Moves(r, pc) == Goes(r, At(pc, req[r].body))

Fault == failures < MaxFailures /\ failures' = failures + 1
NoFault == UNCHANGED failures

-----------------------------------------------------------------------------
\* lockKey

createBooking(r, body) ==
  /\ req[r] = Idle
  /\ Goes(r, At("insert", body))
  /\ UNCHANGED <<row, book, told, failures>>

\* Mutant of Vacant: a key in flight may be claimed again.
Vacant_processing == row.status # "completed"

\* UNIQUE (user_id, key), whatever the age of the row.
Vacant == row = NoRow

\* Any error is taken for the unique violation; the row may be there all the same.
lockKey(r) ==
  /\ req[r].pc = "insert"
  /\ \/ /\ Vacant
        /\ row' = Claim(r, req[r].body) /\ Moves(r, "keyed") /\ NoFault
     \/ /\ ~Vacant
        /\ UNCHANGED row /\ Moves(r, "fetch") /\ NoFault
     \/ /\ row' = row \/ (Vacant /\ row' = Claim(r, req[r].body))
        /\ Moves(r, "fetch") /\ Fault
  /\ UNCHANGED <<book, told>>

Replayable == row.status = "completed"

Found == row # NoRow /\ ~row.old

\* The second half of lockKey, and what the controller does with the record:
\* 422, 409 or a replay.  Without a record the request goes on without the key.
fetchExisting(r) ==
  /\ req[r].pc = "fetch"
  /\ \/ /\ Found /\ NoFault /\ Ends(r)
        /\ answers' = IF row.body = req[r].body /\ Replayable THEN answers \cup {row.answer}
                                                              ELSE answers
     \/ /\ ~Found /\ NoFault /\ Moves(r, "unkeyed")
        /\ UNCHANGED answers
     \/ /\ Fault /\ Moves(r, "unkeyed")
        /\ UNCHANGED answers
  /\ UNCHANGED <<row, book, unkeyed>>

-----------------------------------------------------------------------------
\* bookingService.createBooking: the dates are taken atomically, or it fails; a
\* failure after the reservation may leave it behind.

Booked(body) ==
  /\ body \notin occupied /\ made < MaxBookings
  /\ occupied' = occupied \cup {body}
  /\ made' = made + 1

\* The request that holds the key: 'complete' with its booking, or 'release'.
BookKeyed(r) ==
  LET body == req[r].body
  IN /\ req[r].pc = "keyed"
     /\ \/ Booked(body) /\ Goes(r, [pc |-> "complete", body |-> body, answer |-> made']) /\ NoFault
        \/ UNCHANGED book /\ Moves(r, "release") /\ NoFault
        \/ Booked(body) /\ Moves(r, "release") /\ Fault
     /\ UNCHANGED <<row, told>>

BookUnkeyed(r) ==
  /\ req[r].pc = "unkeyed"
  /\ \/ Booked(req[r].body) /\ unkeyed' = unkeyed \cup {made'} /\ NoFault
     \/ UNCHANGED <<book, unkeyed>> /\ NoFault
     \/ Booked(req[r].body) /\ UNCHANGED unkeyed /\ Fault
  /\ Ends(r)
  /\ UNCHANGED <<row, answers>>

-----------------------------------------------------------------------------
\* Mutant of completeKey's update: the answer is not stored with the status.
Completed_blank(r) == IF row.id = r THEN [row EXCEPT !.status = "completed"] ELSE row

Completed(r) ==
  IF row.id = r THEN [row EXCEPT !.status = "completed", !.answer = req[r].answer] ELSE row

\* The update may fail; the tenant gets 201 all the same.
completeKey(r) ==
  /\ req[r].pc = "complete"
  /\ \/ row' = Completed(r) /\ NoFault
     \/ row' \in {row, Completed(r)} /\ Fault
  /\ answers' = answers \cup {req[r].answer}
  /\ Ends(r)
  /\ UNCHANGED <<book, unkeyed>>

Released(r) == IF row.id = r /\ row.status = "processing" THEN NoRow ELSE row

\* Nobody looks at the result of the delete.
releaseKey(r) ==
  /\ req[r].pc = "release"
  /\ \/ row' = Released(r) /\ NoFault
     \/ UNCHANGED row /\ Fault
  /\ Ends(r)
  /\ UNCHANGED <<book, told>>

Crash(r) ==
  /\ req[r] # Idle
  /\ Ends(r) /\ Fault
  /\ UNCHANGED <<row, book, told>>

-----------------------------------------------------------------------------
\* Mutant of purgeExpired: only answers are purged.
purgeExpired_completed ==
  /\ row # NoRow
  /\ row.old /\ row.status = "completed"
  /\ row' = NoRow
  /\ UNCHANGED <<req, book, told, failures>>

\* Mutant of purgeExpired: claims of any age are purged.
purgeExpired_fresh ==
  /\ row # NoRow
  /\ row' = NoRow
  /\ UNCHANGED <<req, book, told, failures>>

purgeExpired ==
  /\ row # NoRow
  /\ row.old
  /\ row' = NoRow
  /\ UNCHANGED <<req, book, told, failures>>

Holds(r) == req[r].pc \in {"keyed", "complete", "release"}

\* IDEMPOTENCY_RETENTION_HOURS go by since the claim: no request holds it that
\* long.  What was answered before is no longer promised.
Age ==
  /\ row # NoRow /\ ~row.old
  /\ \A r \in Requests : row.id = r => ~Holds(r)
  /\ row' = [row EXCEPT !.old = TRUE]
  /\ answers' = {} /\ unkeyed' = {}
  /\ UNCHANGED <<req, book, failures>>

\* Dates are booked by others, and given back by cancellations and expiry.
Occupy(body) ==
  /\ occupied' = occupied \cup {body}
  /\ UNCHANGED <<row, req, made, told, failures>>

Vacate(body) ==
  /\ occupied' = occupied \ {body}
  /\ UNCHANGED <<row, req, made, told, failures>>

-----------------------------------------------------------------------------
Init ==
  /\ row = NoRow
  /\ req = [r \in Requests |-> Idle]
  /\ occupied = {} /\ made = 0
  /\ answers = {} /\ unkeyed = {}
  /\ failures = 0

Step(r) ==
  \/ lockKey(r) \/ fetchExisting(r)
  \/ BookKeyed(r) \/ BookUnkeyed(r)
  \/ completeKey(r) \/ releaseKey(r)

Next ==
  \/ \E r \in Requests : Step(r) \/ Crash(r) \/ \E body \in Bodies : createBooking(r, body)
  \/ purgeExpired \/ Age
  \/ \E body \in Bodies : Occupy(body) \/ Vacate(body)

Spec == Init /\ [][Next]_vars

\* A request goes on, a day goes by, and the hourly cleanup runs.
FairSpec ==
  /\ Spec
  /\ \A r \in Requests : WF_vars(Step(r))
  /\ WF_vars(Age) /\ WF_vars(purgeExpired)

-----------------------------------------------------------------------------
Bookings == 1 .. made

Row == [id : Requests, body : Bodies, status : {"processing", "completed"},
        answer : Nat, old : BOOLEAN]

Request == [pc : {"insert", "fetch", "keyed", "unkeyed", "complete", "release"},
            body : Bodies, answer : Nat]

TypeOK ==
  /\ row \in Row \cup {NoRow}
  /\ req \in [Requests -> Request \cup {Idle}]
  /\ occupied \subseteq Bodies
  /\ made \in Nat
  /\ answers \subseteq Bookings /\ unkeyed \subseteq Bookings
  /\ failures \in 0 .. MaxFailures

\* For as long as the key is retained, every request that got past lockKey is told
\* of one and the same booking, by its own 201 or by a replay, whatever calls fail
\* and processes die.
OneAnswer == \A a, b \in answers : a = b

\* However many requests with the key overlap, retry, fail and die, one at most is
\* between its claim and its answer, and nobody has been answered under the key by
\* then: what it books is the first booking the key stands for.
OneHolder ==
  \A r, s \in Requests : Holds(r) /\ Holds(s) => r = s /\ answers = {}

\* A claim never blocks the key for good: a row left 'processing' by a dead
\* request is purged, a day and a cleanup later.
ClaimsEnd == row.status = "processing" ~> row.status # "processing"

\* Retries and double clicks never create a second booking under the key, as long
\* as no call fails.
NoDuplicate == failures = 0 => \A a, b \in answers \cup unkeyed : a = b
=============================================================================
