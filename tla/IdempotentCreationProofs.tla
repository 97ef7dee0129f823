---------------------- MODULE IdempotentCreationProofs ----------------------
(***************************************************************************)
(* Proofs about IdempotentCreation for any number of overlapping requests, *)
(* any payloads and any number of failures and crashes.                    *)
(***************************************************************************)
EXTENDS IdempotentCreation, TLAPS

\* A request past its claim owns the row, which is in flight and fresh, and
\* nobody has been answered yet.
HoldersOwn ==
  \A r \in Requests : Holds(r) =>
    /\ row.id = r /\ row.status = "processing" /\ ~row.old
    /\ answers = {}
    /\ req[r].pc = "complete" => req[r].answer \in Bookings

\* What was answered lies behind a row that is still retained; a stored answer is
\* the one that was given.
AnswersStored ==
  /\ row.old \/ row.status = "absent" => answers = {}
  /\ row.status = "completed" => row.answer \in Bookings /\ answers \subseteq {row.answer}

Inv == TypeOK /\ OneAnswer /\ HoldersOwn /\ AnswersStored

-----------------------------------------------------------------------------
LEMMA Initially == Init => Inv
BY RequestsAssumption, BoundsAssumption
   DEF Init, Inv, TypeOK, OneAnswer, HoldersOwn, AnswersStored, Holds, Idle, NoRow, Bookings

\* A request that does not hold the claim moves on without touching the row or
\* the bookings.
LEMMA Bystander ==
  ASSUME Inv, NEW r \in Requests, NEW q \in Request \cup {Idle},
         ~Holds(r), q.pc \notin {"keyed", "complete", "release"},
         Goes(r, q), UNCHANGED <<row, answers>>,
         occupied' \subseteq Bodies, made' \in Nat, made' >= made,
         unkeyed' \subseteq Bookings', failures' \in 0 .. MaxFailures
  PROVE  Inv'
<1>1. TypeOK'
  BY DEF Inv, TypeOK, Goes, Bookings
<1>2. OneAnswer' /\ AnswersStored'
  BY DEF Inv, TypeOK, OneAnswer, AnswersStored, Bookings
<1>3. HoldersOwn'
  <2> SUFFICES ASSUME NEW s \in Requests, Holds(s)' PROVE
        /\ row.id = s /\ row.status = "processing" /\ ~row.old
        /\ answers = {}
        /\ req'[s].pc = "complete" => req'[s].answer \in Bookings'
    BY DEF HoldersOwn
  <2>1. s # r /\ req'[s] = req[s]
    BY DEF Inv, TypeOK, Goes, Holds
  <2> QED BY <2>1 DEF Inv, TypeOK, HoldersOwn, Holds, Bookings
<1> QED BY <1>1, <1>2, <1>3 DEF Inv

LEMMA IdleIsIdle == Idle.pc = "idle"
BY DEF Idle

LEMMA AtIsRequest ==
  ASSUME NEW pc \in {"insert", "fetch", "keyed", "unkeyed", "release"}, NEW body \in Bodies
  PROVE  At(pc, body) \in Request /\ At(pc, body).pc = pc
BY DEF At, Request

LEMMA Busy ==
  ASSUME TypeOK, NEW r \in Requests, req[r].pc # "idle"
  PROVE  req[r] \in Request
BY IdleIsIdle DEF TypeOK

LEMMA Failing ==
  ASSUME TypeOK, Fault \/ NoFault PROVE failures' \in 0 .. MaxFailures
BY BoundsAssumption DEF TypeOK, Fault, NoFault

-----------------------------------------------------------------------------
\* One lemma per action.

LEMMA CreateStep ==
  ASSUME Inv, NEW r \in Requests, NEW body \in Bodies, createBooking(r, body)
  PROVE  Inv'
<1>1. ~Holds(r)
  BY IdleIsIdle DEF createBooking, Holds
<1> QED BY <1>1, Bystander, AtIsRequest DEF createBooking, book, told, Inv, TypeOK, Bookings

LEMMA LockStep ==
  ASSUME Inv, NEW r \in Requests, lockKey(r)
  PROVE  Inv'
<1>1. ~Holds(r) /\ req[r] \in Request /\ req[r].body \in Bodies
  BY Busy DEF lockKey, Holds, Inv, Request
<1>2. failures' \in 0 .. MaxFailures
  BY Failing DEF lockKey, Inv
<1>3. CASE UNCHANGED row /\ Moves(r, "fetch")
  BY <1>1, <1>2, <1>3, Bystander, AtIsRequest
     DEF lockKey, Moves, book, told, Inv, TypeOK, Bookings
<1>4. ASSUME NEW pc \in {"keyed", "fetch"},
             Vacant, row' = Claim(r, req[r].body), Moves(r, pc)
      PROVE  Inv'
  <2> DEFINE c == Claim(r, req[r].body)
  <2>1. /\ c \in Row /\ c.id = r /\ c.status = "processing" /\ ~c.old
    BY <1>1 DEF Claim, Row
  <2>2. row.status = "absent" /\ answers = {}
    BY <1>4 DEF Vacant, NoRow, Inv, AnswersStored
  <2>3. At(pc, req[r].body) \in Request /\ At(pc, req[r].body).pc = pc
    BY <1>1, AtIsRequest
  <2>4. req' = [req EXCEPT ![r] = At(pc, req[r].body)]
    BY <1>4 DEF Moves, Goes
  <2>5. UNCHANGED <<occupied, made, answers, unkeyed>>
    BY DEF lockKey, book, told
  <2> HIDE DEF c
  <2>6. TypeOK'
    BY <1>2, <1>4, <2>1, <2>3, <2>4, <2>5 DEF Inv, TypeOK, Bookings, c
  <2>7. OneAnswer' /\ AnswersStored'
    BY <1>4, <2>1, <2>2, <2>5 DEF Inv, OneAnswer, AnswersStored, c
  <2>8. \A s \in Requests : s # r => ~Holds(s)'
    BY <2>2, <2>4 DEF Inv, TypeOK, HoldersOwn, Holds
  <2>9. HoldersOwn'
    BY <1>4, <2>1, <2>2, <2>3, <2>4, <2>5, <2>8 DEF Inv, TypeOK, HoldersOwn, Holds, c
  <2> QED BY <2>6, <2>7, <2>9 DEF Inv
<1> QED BY <1>3, <1>4 DEF lockKey

LEMMA FetchStep ==
  ASSUME Inv, NEW r \in Requests, fetchExisting(r)
  PROVE  Inv'
<1>1. ~Holds(r) /\ req[r] \in Request /\ req[r].body \in Bodies
  BY Busy DEF fetchExisting, Holds, Inv, Request
<1>2. failures' \in 0 .. MaxFailures
  BY Failing DEF fetchExisting, Inv
<1>3. CASE UNCHANGED answers
  BY <1>1, <1>2, <1>3, Bystander, AtIsRequest, IdleIsIdle
     DEF fetchExisting, Moves, Ends, book, Inv, TypeOK, Bookings
<1>4. CASE Found /\ Replayable /\ answers' = answers \cup {row.answer} /\ Ends(r)
  <2>1. answers' = {row.answer} /\ row.answer \in Bookings /\ row.status = "completed"
    BY <1>4 DEF Inv, AnswersStored, Replayable
  <2>2. UNCHANGED <<row, occupied, made, unkeyed>> /\ req' = [req EXCEPT ![r] = Idle]
    BY <1>4 DEF fetchExisting, book, Ends, Goes
  <2>3. TypeOK'
    BY <1>2, <2>1, <2>2 DEF Inv, TypeOK, Bookings
  <2>4. OneAnswer' /\ AnswersStored'
    BY <1>4, <2>1, <2>2 DEF Inv, OneAnswer, AnswersStored, Bookings, Found
  <2>5. \A s \in Requests : ~Holds(s)'
    BY <2>1, <2>2, IdleIsIdle DEF Inv, TypeOK, HoldersOwn, Holds
  <2> QED BY <2>3, <2>4, <2>5 DEF Inv, HoldersOwn
<1> QED BY <1>3, <1>4 DEF fetchExisting

LEMMA BookKeyedStep ==
  ASSUME Inv, NEW r \in Requests, BookKeyed(r)
  PROVE  Inv'
<1>1. Holds(r) /\ req[r] \in Request /\ req[r].body \in Bodies
  BY Busy DEF BookKeyed, Holds, Inv, Request
<1>2. failures' \in 0 .. MaxFailures
  BY Failing DEF BookKeyed, Inv
<1>3. /\ UNCHANGED <<row, answers, unkeyed>>
      /\ occupied' \subseteq Bodies /\ made' \in Nat /\ made' >= made
  BY <1>1 DEF BookKeyed, told, book, Booked, Inv, TypeOK
<1>4. PICK q \in Request :
        /\ req' = [req EXCEPT ![r] = q]
        /\ q.pc \in {"complete", "release"}
        /\ q.pc = "complete" => q.answer \in Bookings'
  <2>1. CASE Booked(req[r].body) /\ Goes(r, [pc |-> "complete", body |-> req[r].body, answer |-> made'])
    <3> DEFINE q == [pc |-> "complete", body |-> req[r].body, answer |-> made']
    <3>1. q \in Request /\ q.pc = "complete" /\ q.answer \in Bookings'
      BY <1>1, <1>3, <2>1 DEF Request, Bookings, Booked, Inv, TypeOK
    <3> QED BY <2>1, <3>1 DEF Goes
  <2>2. CASE Moves(r, "release")
    BY <1>1, <2>2, AtIsRequest DEF Moves, Goes
  <2> QED BY <2>1, <2>2 DEF BookKeyed
<1>5. TypeOK'
  BY <1>2, <1>3, <1>4 DEF Inv, TypeOK, Bookings
<1>6. OneAnswer' /\ AnswersStored'
  BY <1>3 DEF Inv, TypeOK, OneAnswer, AnswersStored, Bookings
<1>7. HoldersOwn'
  <2> SUFFICES ASSUME NEW s \in Requests, Holds(s)' PROVE
        /\ row.id = s /\ row.status = "processing" /\ ~row.old
        /\ answers = {}
        /\ req'[s].pc = "complete" => req'[s].answer \in Bookings'
    BY <1>3 DEF HoldersOwn
  <2>1. CASE s = r
    BY <1>1, <1>4, <2>1 DEF Inv, TypeOK, HoldersOwn
  <2>2. CASE s # r
    BY <1>3, <1>4, <2>2 DEF Inv, TypeOK, HoldersOwn, Holds, Bookings
  <2> QED BY <2>1, <2>2
<1> QED BY <1>5, <1>6, <1>7 DEF Inv

LEMMA BookUnkeyedStep ==
  ASSUME Inv, NEW r \in Requests, BookUnkeyed(r)
  PROVE  Inv'
<1>1. ~Holds(r) /\ req[r] \in Request /\ req[r].body \in Bodies
  BY Busy DEF BookUnkeyed, Holds, Inv, Request
<1>2. failures' \in 0 .. MaxFailures
  BY Failing DEF BookUnkeyed, Inv
<1>3. /\ UNCHANGED <<row, answers>> /\ Goes(r, Idle)
      /\ occupied' \subseteq Bodies /\ made' \in Nat /\ made' >= made
      /\ unkeyed' \subseteq Bookings'
  <2>1. UNCHANGED <<row, answers>> /\ Goes(r, Idle)
    BY DEF BookUnkeyed, Ends
  <2>2. CASE Booked(req[r].body) /\ unkeyed' \in {unkeyed, unkeyed \cup {made'}}
    BY <1>1, <2>1, <2>2 DEF Booked, Inv, TypeOK, Bookings
  <2>3. CASE UNCHANGED <<book, unkeyed>>
    BY <2>1, <2>3 DEF book, Inv, TypeOK, Bookings
  <2> QED BY <2>2, <2>3 DEF BookUnkeyed
<1> QED BY <1>1, <1>2, <1>3, Bystander, IdleIsIdle

\* The holder is done: it alone was past the claim.
LEMMA HolderEnds ==
  ASSUME Inv, NEW r \in Requests, Holds(r), Ends(r)
  PROVE  /\ req' = [req EXCEPT ![r] = Idle]
         /\ req' \in [Requests -> Request \cup {Idle}]
         /\ \A s \in Requests : ~Holds(s)'
BY IdleIsIdle DEF Inv, TypeOK, HoldersOwn, Holds, Ends, Goes

LEMMA CompleteStep ==
  ASSUME Inv, NEW r \in Requests, completeKey(r)
  PROVE  Inv'
<1>1. Holds(r) /\ req[r] \in Request
  BY Busy DEF completeKey, Holds, Inv
<1>2. failures' \in 0 .. MaxFailures
  BY Failing DEF completeKey, Inv
<1>3. /\ row \in Row /\ row.id = r /\ row.status = "processing" /\ ~row.old /\ answers = {}
      /\ req[r].answer \in Bookings /\ req[r].answer \in Nat
  BY <1>1 DEF completeKey, Inv, TypeOK, HoldersOwn, NoRow, Request
<1>4. answers' = {req[r].answer} /\ UNCHANGED <<occupied, made, unkeyed>>
  BY <1>3 DEF completeKey, book
<1>5. \/ row' = row
      \/ /\ row' \in Row /\ row'.status = "completed" /\ row'.answer = req[r].answer
         /\ row'.old = row.old
  BY <1>3 DEF completeKey, Completed, Row
<1>6. TypeOK'
  BY <1>1, <1>2, <1>3, <1>4, <1>5, HolderEnds DEF completeKey, Inv, TypeOK, Bookings
<1>7. OneAnswer' /\ AnswersStored'
  BY <1>3, <1>4, <1>5 DEF OneAnswer, AnswersStored, Bookings
<1>8. HoldersOwn'
  BY <1>1, HolderEnds DEF completeKey, HoldersOwn
<1> QED BY <1>6, <1>7, <1>8 DEF Inv

LEMMA ReleaseStep ==
  ASSUME Inv, NEW r \in Requests, releaseKey(r)
  PROVE  Inv'
<1>1. Holds(r) /\ req[r] \in Request
  BY Busy DEF releaseKey, Holds, Inv
<1>2. failures' \in 0 .. MaxFailures
  BY Failing DEF releaseKey, Inv
<1>3. answers = {} /\ UNCHANGED <<occupied, made, answers, unkeyed>> /\ row' \in {row, NoRow}
  BY <1>1 DEF releaseKey, Released, book, told, Inv, HoldersOwn
<1>4. TypeOK'
  BY <1>1, <1>2, <1>3, HolderEnds DEF releaseKey, Inv, TypeOK, Bookings
<1>5. OneAnswer' /\ AnswersStored'
  BY <1>3 DEF Inv, OneAnswer, AnswersStored, Bookings, NoRow
<1>6. HoldersOwn'
  BY <1>1, HolderEnds DEF releaseKey, HoldersOwn
<1> QED BY <1>4, <1>5, <1>6 DEF Inv

LEMMA CrashStep ==
  ASSUME Inv, NEW r \in Requests, Crash(r)
  PROVE  Inv'
<1>1. failures' \in 0 .. MaxFailures /\ UNCHANGED <<row, occupied, made, answers, unkeyed>>
  BY Failing DEF Crash, Inv, book, told
<1>2. CASE ~Holds(r)
  BY <1>1, <1>2, Bystander, IdleIsIdle DEF Crash, Ends, Inv, TypeOK, Bookings
<1>3. CASE Holds(r)
  <2>1. TypeOK'
    BY <1>1, <1>3, HolderEnds DEF Crash, Inv, TypeOK, Bookings
  <2>2. OneAnswer' /\ AnswersStored'
    BY <1>1 DEF Inv, OneAnswer, AnswersStored, Bookings
  <2>3. HoldersOwn'
    BY <1>3, HolderEnds DEF Crash, HoldersOwn
  <2> QED BY <2>1, <2>2, <2>3 DEF Inv
<1> QED BY <1>2, <1>3

\* The row ages or goes when nobody holds it.
LEMMA TimeStep ==
  ASSUME Inv, Age \/ purgeExpired
  PROVE  Inv'
<1>1. UNCHANGED <<req, occupied, made, failures>> /\ answers' = {} /\ unkeyed' \subseteq Bookings
  BY DEF Age, purgeExpired, book, told, Inv, TypeOK, AnswersStored
<1>2. \A r \in Requests : ~Holds(r)'
  BY <1>1 DEF Age, purgeExpired, Inv, HoldersOwn, Holds
<1>3. \/ row' = NoRow
      \/ row' \in Row /\ row'.old /\ row'.status = row.status /\ row'.answer = row.answer
  BY DEF Age, purgeExpired, Inv, TypeOK, Row
<1>4. TypeOK'
  BY <1>1, <1>3 DEF Inv, TypeOK, Bookings
<1>5. OneAnswer' /\ AnswersStored' /\ HoldersOwn'
  BY <1>1, <1>2, <1>3 DEF Inv, OneAnswer, AnswersStored, HoldersOwn, Bookings, NoRow
<1> QED BY <1>4, <1>5 DEF Inv

LEMMA OthersStep ==
  ASSUME Inv, \/ \E body \in Bodies : Occupy(body) \/ Vacate(body)
              \/ UNCHANGED vars
  PROVE  Inv'
<1>1. UNCHANGED <<row, req, made, answers, unkeyed, failures>> /\ occupied' \subseteq Bodies
  BY DEF Occupy, Vacate, vars, book, told, Inv, TypeOK
<1> QED BY <1>1 DEF Inv, TypeOK, OneAnswer, AnswersStored, HoldersOwn, Holds, Bookings

-----------------------------------------------------------------------------
LEMMA Inductive == Inv /\ [Next]_vars => Inv'
BY CreateStep, LockStep, FetchStep, BookKeyedStep, BookUnkeyedStep, CompleteStep,
   ReleaseStep, CrashStep, TimeStep, OthersStep
   DEF Next, Step

LEMMA Invariance == Spec => []Inv
BY Initially, Inductive, PTL DEF Spec

\* TypesCorrect: the row of the key, the requests and the answers keep their types,
\* and every answer given is a booking that was made.
THEOREM TypesCorrect == Spec => []TypeOK
<1>1. Inv => TypeOK
  BY DEF Inv
<1> QED BY <1>1, Invariance, PTL

\* KeyedOnce: whatever fails, dies or overlaps, all requests that lockKey lets act
\* under the key are answered with one booking.
THEOREM KeyedOnce == Spec => []OneAnswer
<1>1. Inv => OneAnswer
  BY DEF Inv
<1> QED BY <1>1, Invariance, PTL

\* OneHolder: lockKey lets one request at a time past the insert, until its row is
\* completed, released or purged.
THEOREM HeldByOne == Spec => []OneHolder
<1>1. Inv => OneHolder
  BY DEF Inv, HoldersOwn, OneHolder
<1> QED BY <1>1, Invariance, PTL
=============================================================================
