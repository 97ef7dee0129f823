------------------------- MODULE BookingDatesProofs -------------------------
(***************************************************************************)
(* Proofs about BookingDates for any bookings, proposals and stays and any *)
(* number of overlapping requests.                                         *)
(***************************************************************************)
EXTENDS BookingDates, TLAPS

RowStatuses == Statuses \cup {"Absent", "Deleted"}
BookingType == [status : RowStatuses, stay : Stays \cup {{}}]
AnswerOps == {"markAccepted", "decline"}
OnProposal == [op : {"accept"} \cup AnswerOps, proposal : Proposals]

Inv == TypeOK /\ NoDateOverlap

-----------------------------------------------------------------------------
\* The tables of statuses and answers, and the shape of a request.

LEMMA StatusNames ==
  Statuses = {"Pending", "Confirmed", "Disputed", "Completed", "Cancelled", "Expired"}
BY DEF Statuses, VALID_TRANSITIONS

LEMMA TransitionsStay ==
  ASSUME NEW s \in Statuses
  PROVE  VALID_TRANSITIONS[s] \subseteq Statuses
BY DEF Statuses, VALID_TRANSITIONS

\* Only a Pending, Confirmed or Disputed booking moves, so none leaves Cancelled.
LEMMA CancelledIsFinal == VALID_TRANSITIONS["Cancelled"] = {}
BY DEF VALID_TRANSITIONS

LEMMA Answers ==
  /\ DOMAIN Answer = AnswerOps
  /\ ProposalOps = {"accept"} \cup AnswerOps
  /\ \A op \in AnswerOps : Answer[op] \in {"accepted", "declined"}
BY DEF Answer, AnswerOps, ProposalOps

\* What a request at work on a proposal carries, and that the proposal is there.
LEMMA RequestOnProposal ==
  ASSUME TypeOK, NEW r \in Requests, task[r].op \in ProposalOps
  PROVE  /\ task[r] \in OnProposal
         /\ task[r].proposal \in Proposals
         /\ proposal[task[r].proposal] \in ProposalType
<1>1. task[r] \in TaskType
  BY DEF TypeOK
<1>2. task[r] \in OnProposal
  BY <1>1, Answers DEF TaskType, NoTask, OnProposal, AnswerOps
<1>3. task[r].proposal \in Proposals
  BY <1>2 DEF OnProposal
<1>4. proposal[task[r].proposal] # NoProposal
  BY DEF TypeOK
<1>. QED
  BY <1>2, <1>3, <1>4 DEF TypeOK

\* The request moves on to another step of its work on the same proposal.
LEMMA RequestMovesOn ==
  ASSUME NEW q \in OnProposal, NEW op \in ProposalOps
  PROVE  /\ [q EXCEPT !.op = op] \in TaskType
         /\ [q EXCEPT !.op = op].proposal = q.proposal
<1>1. [q EXCEPT !.op = op] \in OnProposal
  BY Answers DEF OnProposal
<1>. QED
  BY <1>1, Answers DEF TaskType, OnProposal

\* A request starts or ends: its new state is well formed, and no request is
\* left at work on a proposal that is not there.
LEMMA TaskReplaced ==
  ASSUME TypeOK, NEW r \in Requests, NEW t \in TaskType,
         task' = [task EXCEPT ![r] = t], proposal' = proposal,
         t.op \in ProposalOps => proposal[t.proposal] # NoProposal
  PROVE  /\ task' \in [Requests -> TaskType]
         /\ \A q \in Requests : task'[q].op \in ProposalOps
              => proposal'[task'[q].proposal] # NoProposal
BY DEF TypeOK

LEMMA NoTaskTyped == NoTask \in TaskType /\ NoTask.op \notin ProposalOps
BY Answers DEF TaskType, NoTask, AnswerOps

-----------------------------------------------------------------------------
\* Steps on the bookings.

\* Writing a row: the table stays well formed, and rows that shared no night
\* still share none if the written one shares none with the other rows.
LEMMA RowWritten ==
  ASSUME Inv, NEW b \in Bookings, NEW row \in BookingType,
         booking' = [booking EXCEPT ![b] = row],
         row.status \notin Statuses \ {"Cancelled"} \/ ~Excluded(b, row.stay)
  PROVE  /\ booking' \in [Bookings -> BookingType]
         /\ NoDateOverlap'
<1>1. booking \in [Bookings -> BookingType]
  BY DEF Inv, TypeOK, BookingType, RowStatuses
<1>2. booking' \in [Bookings -> BookingType]
  BY <1>1
<1>3. ASSUME NEW c \in Bookings, c # b,
             row.status \in Statuses \ {"Cancelled"},
             booking[c].status \in Statuses \ {"Cancelled"}
      PROVE  row.stay \cap booking[c].stay = {}
  BY <1>3 DEF Excluded, Conflicts, Overlap
<1>4. ASSUME NEW c \in Bookings, NEW d \in Bookings, c # d,
             booking'[c].status \in Statuses \ {"Cancelled"},
             booking'[d].status \in Statuses \ {"Cancelled"}
      PROVE  booking'[c].stay \cap booking'[d].stay = {}
  <2>1. CASE c = b
    BY <1>1, <1>3, <1>4, <2>1
  <2>2. CASE d = b
    BY <1>1, <1>3, <1>4, <2>2
  <2>3. CASE c # b /\ d # b
    BY <1>1, <1>4, <2>3 DEF Inv, NoDateOverlap, Overlap
  <2>. QED
    BY <2>1, <2>2, <2>3
<1>. QED
  BY <1>2, <1>4 DEF NoDateOverlap, Overlap

\* Changing a row's status but not its nights keeps the others apart from it,
\* as long as a row that occupied nothing does not begin to.
LEMMA StatusWritten ==
  ASSUME Inv, NEW b \in Bookings, NEW to \in RowStatuses,
         booking' = [booking EXCEPT ![b].status = to],
         to = "Deleted" \/ booking[b].status \in Statuses \ {"Cancelled"}
  PROVE  /\ booking' \in [Bookings -> BookingType]
         /\ NoDateOverlap'
<1> DEFINE row == [booking[b] EXCEPT !.status = to]
<1>1. booking \in [Bookings -> BookingType] /\ booking[b] \in BookingType
  BY DEF Inv, TypeOK, BookingType, RowStatuses
<1>2. row \in BookingType /\ row.stay = booking[b].stay /\ row.status = to
  BY <1>1 DEF BookingType
<1>3. booking' = [booking EXCEPT ![b] = row]
  OBVIOUS
<1> HIDE DEF row
<1>4. row.status \notin Statuses \ {"Cancelled"} \/ ~Excluded(b, row.stay)
  <2>1. CASE to = "Deleted"
    BY <1>2, <2>1, StatusNames
  <2>2. CASE booking[b].status \in Statuses \ {"Cancelled"}
    BY <1>2, <2>2 DEF Inv, NoDateOverlap, Excluded, Conflicts, Overlap
  <2>. QED
    BY <2>1, <2>2
<1>. QED
  BY <1>2, <1>3, <1>4, RowWritten

LEMMA CreateStep ==
  ASSUME Inv, NEW b \in Bookings, NEW stay \in Stays, create_booking_atomic_v2(b, stay)
  PROVE  Inv'
<1> DEFINE row == [status |-> "Pending", stay |-> stay]
<1>1. row \in BookingType /\ row.stay = stay
  BY StatusNames DEF BookingType, RowStatuses
<1>2. booking' = [booking EXCEPT ![b] = row] /\ ~Excluded(b, stay)
  BY DEF create_booking_atomic_v2
<1> HIDE DEF row
<1>3. booking' \in [Bookings -> BookingType] /\ NoDateOverlap'
  BY <1>1, <1>2, RowWritten
<1>4. UNCHANGED <<proposal, blocks, task, sweep>>
  BY DEF create_booking_atomic_v2
<1>5. TypeOK'
  BY <1>3, <1>4 DEF Inv, TypeOK, BookingType, RowStatuses
<1>. QED
  BY <1>3, <1>5 DEF Inv

LEMMA TransitionStep ==
  ASSUME Inv, NEW b \in Bookings, transitionStatus(b)
  PROVE  Inv'
<1>1. PICK to \in VALID_TRANSITIONS[booking[b].status] :
        booking' = [booking EXCEPT ![b].status = to]
  BY DEF transitionStatus
<1>2. booking[b].status \in Statuses
  BY DEF transitionStatus, Exists
<1>3. booking[b].status # "Cancelled"
  BY <1>1, CancelledIsFinal
<1>4. to \in RowStatuses
  BY <1>1, <1>2, TransitionsStay DEF RowStatuses
<1>5. booking' \in [Bookings -> BookingType] /\ NoDateOverlap'
  BY <1>1, <1>2, <1>3, <1>4, StatusWritten
<1>6. UNCHANGED <<proposal, blocks, task, sweep>>
  BY DEF transitionStatus
<1>7. TypeOK'
  BY <1>5, <1>6 DEF Inv, TypeOK, BookingType, RowStatuses
<1>. QED
  BY <1>5, <1>7 DEF Inv

LEMMA DeleteStep ==
  ASSUME Inv, NEW b \in Bookings, DeleteReservation(b)
  PROVE  Inv'
<1>1. booking' = [booking EXCEPT ![b].status = "Deleted"]
  BY DEF DeleteReservation
<1>2. booking' \in [Bookings -> BookingType] /\ NoDateOverlap'
  BY <1>1, StatusNames, StatusWritten DEF RowStatuses
<1>3. UNCHANGED <<blocks, task, sweep>>
  BY DEF DeleteReservation
<1>4. ASSUME NEW p \in Proposals
      PROVE  /\ proposal'[p] \in {NoProposal} \cup ProposalType
             /\ proposal[p] # NoProposal => proposal'[p] # NoProposal
  <2>1. proposal[p] \in {NoProposal} \cup ProposalType
    BY DEF Inv, TypeOK
  <2>2. CASE proposal[p].status # "none" /\ proposal[p].of = b
    <3>1. proposal'[p] = [proposal[p] EXCEPT !.status = "deleted"]
      BY <2>2 DEF DeleteReservation
    <3>2. proposal[p] \in ProposalType
      BY <2>1, <2>2 DEF NoProposal
    <3>. QED
      BY <3>1, <3>2 DEF ProposalType, NoProposal
  <2>3. CASE ~(proposal[p].status # "none" /\ proposal[p].of = b)
    <3>1. proposal'[p] = proposal[p]
      BY <2>3 DEF DeleteReservation
    <3>. QED
      BY <2>1, <3>1
  <2>. QED
    BY <2>2, <2>3
<1>5. proposal' \in [Proposals -> {NoProposal} \cup ProposalType]
  <2>1. proposal' = [p \in Proposals |-> proposal'[p]]
    BY DEF DeleteReservation
  <2>. QED
    BY <1>4, <2>1
<1>6. \A r \in Requests : task[r].op \in ProposalOps => task[r].proposal \in Proposals
  BY RequestOnProposal DEF Inv
<1>7. TypeOK'
  BY <1>2, <1>3, <1>4, <1>5, <1>6 DEF Inv, TypeOK, BookingType, RowStatuses
<1>. QED
  BY <1>2, <1>7 DEF Inv

LEMMA ApplyStep ==
  ASSUME Inv, NEW r \in Requests, ApplyDates(r)
  PROVE  Inv'
<1> DEFINE p == proposal[task[r].proposal]
           row == [booking[p.of] EXCEPT !.stay = p.stay]
<1>1. task[r].op = "accept" /\ "accept" \in ProposalOps /\ "markAccepted" \in ProposalOps
  BY Answers DEF ApplyDates, AnswerOps
<1>2. task[r] \in OnProposal /\ task[r].proposal \in Proposals /\ p \in ProposalType
  BY <1>1, RequestOnProposal DEF Inv
<1>3. p.of \in Bookings /\ p.stay \in Stays
  BY <1>2 DEF ProposalType
<1>4. booking[p.of] \in BookingType
  BY <1>3 DEF Inv, TypeOK, BookingType, RowStatuses
<1>5. row \in BookingType /\ row.stay = p.stay /\ row.status = booking[p.of].status
  BY <1>3, <1>4 DEF BookingType
<1>6. booking' = [booking EXCEPT ![p.of] = row]
  BY DEF ApplyDates
<1>7. booking[p.of].status # "Cancelled" => ~Excluded(p.of, p.stay)
  BY DEF ApplyDates
<1>8. task' = [task EXCEPT ![r].op = "markAccepted"] /\ UNCHANGED <<proposal, blocks, sweep>>
  BY DEF ApplyDates
<1>9. proposal[task[r].proposal] # NoProposal
  BY <1>1 DEF Inv, TypeOK
<1> HIDE DEF p, row
<1>10. booking' \in [Bookings -> BookingType] /\ NoDateOverlap'
  BY <1>3, <1>5, <1>6, <1>7, RowWritten
<1> DEFINE t == [task[r] EXCEPT !.op = "markAccepted"]
<1>11. t \in TaskType /\ t.proposal = task[r].proposal
  BY <1>1, <1>2, RequestMovesOn
<1>12. task' = [task EXCEPT ![r] = t]
  BY <1>8
<1> HIDE DEF t
<1>13. /\ task' \in [Requests -> TaskType]
       /\ \A q \in Requests : task'[q].op \in ProposalOps
            => proposal'[task'[q].proposal] # NoProposal
  BY <1>8, <1>9, <1>11, <1>12, TaskReplaced DEF Inv
<1>14. TypeOK'
  BY <1>8, <1>10, <1>13 DEF Inv, TypeOK, BookingType, RowStatuses
<1>. QED
  BY <1>10, <1>14 DEF Inv

-----------------------------------------------------------------------------
\* Steps that leave the bookings alone keep the nights apart.

LEMMA SameBookings ==
  ASSUME Inv, booking' = booking, TypeOK'
  PROVE  Inv'
BY DEF Inv, NoDateOverlap, Overlap

LEMMA BeginStep ==
  ASSUME Inv, NEW r \in Requests, Begins(r)
  PROVE  Inv'
<1>1. ASSUME NEW t \in TaskType, Begin(r, t),
             t.op \in ProposalOps => proposal[t.proposal] # NoProposal
      PROVE  Inv'
  <2>1. task' = [task EXCEPT ![r] = t] /\ UNCHANGED <<booking, proposal, blocks, sweep>>
    BY <1>1 DEF Begin
  <2>2. /\ task' \in [Requests -> TaskType]
        /\ \A q \in Requests : task'[q].op \in ProposalOps
             => proposal'[task'[q].proposal] # NoProposal
    BY <1>1, <2>1, TaskReplaced DEF Inv
  <2>3. TypeOK'
    BY <2>1, <2>2 DEF Inv, TypeOK
  <2>. QED
    BY <2>1, <2>3, SameBookings
<1>2. ASSUME NEW stay \in Stays, blockAvailabilityRange(r, stay)
      PROVE  Inv'
  <2> DEFINE t == [op |-> "block", stay |-> stay]
  <2>1. t \in TaskType /\ t.op \notin ProposalOps
    BY Answers DEF TaskType, AnswerOps
  <2>2. Begin(r, t)
    BY <1>2 DEF blockAvailabilityRange
  <2>. QED
    BY <1>1, <2>1, <2>2
<1>3. ASSUME NEW b \in Bookings, NEW stay \in Stays, requestModification(r, b, stay)
      PROVE  Inv'
  <2> DEFINE t == [op |-> "propose", of |-> b, stay |-> stay]
  <2>1. t \in TaskType /\ t.op \notin ProposalOps
    BY Answers DEF TaskType, AnswerOps
  <2>2. Begin(r, t)
    BY <1>3 DEF requestModification
  <2>. QED
    BY <1>1, <2>1, <2>2
<1>4. ASSUME NEW p \in Proposals, NEW op \in {"accept", "decline"}, Answerable(p),
             Begin(r, [op |-> op, proposal |-> p])
      PROVE  Inv'
  <2> DEFINE t == [op |-> op, proposal |-> p]
  <2>1. t \in TaskType /\ t.proposal = p
    BY Answers DEF TaskType, AnswerOps
  <2>2. proposal[p] # NoProposal
    BY <1>4 DEF Answerable, NoProposal
  <2>. QED
    BY <1>1, <1>4, <2>1, <2>2
<1>5. ASSUME NEW p \in Proposals, acceptModification(r, p) \/ declineModification(r, p)
      PROVE  Inv'
  BY <1>4, <1>5 DEF acceptModification, declineModification
<1>. QED
  BY <1>2, <1>3, <1>5 DEF Begins

\* A request that ends where it is, whatever happens to the blocks.
LEMMA FinishStep ==
  ASSUME Inv, NEW r \in Requests, Finish(r), UNCHANGED <<booking, proposal>>,
         blocks' \subseteq Stays
  PROVE  Inv'
<1>1. /\ task' \in [Requests -> TaskType]
      /\ \A q \in Requests : task'[q].op \in ProposalOps
           => proposal'[task'[q].proposal] # NoProposal
  BY NoTaskTyped, TaskReplaced DEF Inv, Finish
<1>2. TypeOK'
  BY <1>1 DEF Inv, TypeOK, Finish
<1>. QED
  BY <1>2, SameBookings

\* A proposal that is written stays or becomes a proposal.
LEMMA ProposalWritten ==
  ASSUME Inv, NEW p \in Proposals, NEW q \in ProposalType,
         proposal' = [proposal EXCEPT ![p] = q], UNCHANGED <<booking, blocks>>,
         task' \in [Requests -> TaskType], sweep' \subseteq sweep,
         \A r \in Requests : task'[r].op \in ProposalOps => task'[r] = task[r]
  PROVE  Inv'
<1>1. q # NoProposal
  BY DEF ProposalType, NoProposal
<1>2. proposal' \in [Proposals -> {NoProposal} \cup ProposalType]
  BY DEF Inv, TypeOK
<1>3. \A s \in Proposals : proposal[s] # NoProposal => proposal'[s] # NoProposal
  BY <1>1 DEF Inv, TypeOK
<1>4. \A r \in Requests : task[r].op \in ProposalOps => task[r].proposal \in Proposals
  BY RequestOnProposal DEF Inv
<1>5. \A r \in Requests : task'[r].op \in ProposalOps
        => proposal'[task'[r].proposal] # NoProposal
  BY <1>3, <1>4 DEF Inv, TypeOK
<1>6. TypeOK'
  BY <1>2, <1>3, <1>5 DEF Inv, TypeOK
<1>. QED
  BY <1>6, SameBookings

\* The request that ends is the only one that changes.
LEMMA FinishedTasks ==
  ASSUME Inv, NEW r \in Requests, Finish(r)
  PROVE  /\ task' \in [Requests -> TaskType]
         /\ sweep' = sweep
         /\ \A q \in Requests : task'[q].op \in ProposalOps => task'[q] = task[q]
BY NoTaskTyped DEF Inv, TypeOK, Finish

LEMMA ContinueStep ==
  ASSUME Inv, NEW r \in Requests, Continues(r)
  PROVE  Inv'
<1>1. CASE InsertBlock(r)
  <2>1. task[r] \in TaskType /\ task[r].op = "block"
    BY <1>1 DEF Inv, TypeOK, InsertBlock
  <2>2. task[r].stay \in Stays
    BY <2>1, Answers DEF TaskType, NoTask, AnswerOps
  <2>3. blocks' \subseteq Stays
    BY <1>1, <2>2 DEF Inv, TypeOK, InsertBlock
  <2>. QED
    BY <1>1, <2>3, FinishStep DEF InsertBlock
<1>2. CASE ApplyDates(r)
  BY <1>2, ApplyStep
<1>3. CASE MarkProposal(r)
  <2>1. task[r].op \in AnswerOps /\ task[r].op \in ProposalOps
    BY <1>3, Answers DEF MarkProposal
  <2> DEFINE p == task[r].proposal
             q == [proposal[p] EXCEPT !.status = Answer[task[r].op]]
  <2>2. p \in Proposals /\ proposal[p] \in ProposalType
    BY <2>1, RequestOnProposal DEF Inv
  <2>3. Answer[task[r].op] \in {"accepted", "declined"}
    BY <2>1, Answers
  <2>4. q \in ProposalType
    BY <2>2, <2>3 DEF ProposalType
  <2>5. proposal' = [proposal EXCEPT ![p] = q] /\ Finish(r) /\ UNCHANGED <<booking, blocks>>
    BY <1>3 DEF MarkProposal
  <2> HIDE DEF p, q
  <2>6. QED
    BY <2>2, <2>4, <2>5, FinishedTasks, ProposalWritten
<1>4. CASE Fail(r)
  BY <1>4, FinishStep DEF Fail, Inv, TypeOK
<1>5. ASSUME NEW p \in Proposals, InsertProposal(r, p)
      PROVE  Inv'
  <2> DEFINE q == [status |-> "pending", of |-> task[r].of, stay |-> task[r].stay,
                   lapsed |-> FALSE]
  <2>1. task[r] \in TaskType /\ task[r].op = "propose"
    BY <1>5 DEF Inv, TypeOK, InsertProposal
  <2>2. task[r].of \in Bookings /\ task[r].stay \in Stays
    BY <2>1, Answers DEF TaskType, NoTask, AnswerOps
  <2>3. q \in ProposalType
    BY <2>2 DEF ProposalType
  <2>4. proposal' = [proposal EXCEPT ![p] = q] /\ Finish(r) /\ UNCHANGED <<booking, blocks>>
    BY <1>5 DEF InsertProposal
  <2> HIDE DEF q
  <2>5. QED
    BY <2>3, <2>4, FinishedTasks, ProposalWritten
<1>. QED
  BY <1>1, <1>2, <1>3, <1>4, <1>5 DEF Continues

LEMMA UnblockStep ==
  ASSUME Inv, NEW stay \in Stays, deleteAvailabilityRange(stay)
  PROVE  Inv'
<1>1. TypeOK'
  BY DEF Inv, TypeOK, deleteAvailabilityRange
<1>. QED
  BY <1>1, SameBookings DEF deleteAvailabilityRange

LEMMA ExpiryStep ==
  ASSUME Inv, Expiry
  PROVE  Inv'
<1>1. CASE expireStaleModifications
  <2>1. \A p \in sweep' : p \in Proposals /\ proposal[p] # NoProposal
    BY <1>1 DEF expireStaleModifications, Stale, NoProposal
  <2>2. TypeOK'
    BY <1>1, <2>1 DEF Inv, TypeOK, expireStaleModifications
  <2>. QED
    BY <1>1, <2>2, SameBookings DEF expireStaleModifications
<1>2. ASSUME NEW p \in Proposals, Lapse(p)
      PROVE  Inv'
  <2> DEFINE q == [proposal[p] EXCEPT !.lapsed = TRUE]
  <2>1. proposal[p] \in ProposalType
    BY <1>2 DEF Inv, TypeOK, Lapse, NoProposal
  <2>2. q \in ProposalType
    BY <2>1 DEF ProposalType
  <2>3. proposal' = [proposal EXCEPT ![p] = q] /\ UNCHANGED <<booking, blocks, task, sweep>>
    BY <1>2 DEF Lapse
  <2> HIDE DEF q
  <2>. QED
    BY <2>2, <2>3, ProposalWritten DEF Inv, TypeOK
<1>3. ASSUME NEW p \in Proposals, MarkExpired(p)
      PROVE  Inv'
  <2>1. CASE proposal[p].status = "pending"
    <3> DEFINE q == [proposal[p] EXCEPT !.status = "expired"]
    <3>1. proposal[p] \in ProposalType
      BY <2>1 DEF Inv, TypeOK, NoProposal
    <3>2. q \in ProposalType
      BY <3>1 DEF ProposalType
    <3>3. /\ proposal' = [proposal EXCEPT ![p] = q]
          /\ UNCHANGED <<booking, blocks, task>> /\ sweep' \subseteq sweep
      BY <1>3, <2>1 DEF MarkExpired
    <3> HIDE DEF q
    <3>. QED
      BY <3>2, <3>3, ProposalWritten DEF Inv, TypeOK
  <2>2. CASE proposal[p].status # "pending"
    <3>1. UNCHANGED <<booking, proposal, blocks, task>> /\ sweep' \subseteq sweep
      BY <1>3, <2>2 DEF MarkExpired
    <3>2. TypeOK'
      BY <3>1 DEF Inv, TypeOK
    <3>. QED
      BY <3>1, <3>2, SameBookings
  <2>. QED
    BY <2>1, <2>2
<1>4. ASSUME NEW p \in Proposals, ExpiryFails(p)
      PROVE  Inv'
  <2>1. TypeOK'
    BY <1>4 DEF Inv, TypeOK, ExpiryFails
  <2>. QED
    BY <1>4, <2>1, SameBookings DEF ExpiryFails
<1>. QED
  BY <1>1, <1>2, <1>3, <1>4 DEF Expiry

-----------------------------------------------------------------------------
LEMMA InitInv == Init => Inv
<1> SUFFICES ASSUME Init PROVE Inv
  OBVIOUS
<1>1. NoBooking \in [status : Statuses \cup {"Absent", "Deleted"}, stay : Stays \cup {{}}]
  BY DEF NoBooking
<1>2. TypeOK
  BY <1>1, NoTaskTyped DEF Init, TypeOK
<1>3. NoDateOverlap
  BY StatusNames DEF Init, NoDateOverlap, NoBooking
<1>. QED
  BY <1>2, <1>3 DEF Inv

LEMMA NextInv == Inv /\ [Next]_vars => Inv'
<1> SUFFICES ASSUME Inv, [Next]_vars PROVE Inv'
  OBVIOUS
<1>1. CASE UNCHANGED vars
  BY <1>1, SameBookings DEF vars, Inv, TypeOK
<1>2. CASE Next
  BY <1>2, CreateStep, TransitionStep, DeleteStep, BeginStep, ContinueStep, UnblockStep,
     ExpiryStep DEF Next
<1>. QED
  BY <1>1, <1>2

\* The inductive invariant: types, and no two bookings that are not Cancelled on
\* one night.
THEOREM InvariantHolds == Spec => []Inv
BY InitInv, NextInv, PTL DEF Spec

\* Bookings, proposals, blocks, requests and the sweep's list stay well formed.
THEOREM TypesCorrect == Spec => []TypeOK
<1>1. Inv => TypeOK
  BY DEF Inv
<1>. QED
  BY <1>1, InvariantHolds, PTL

\* No double booking: reservations and accepted date changes, in any order and
\* number, never put two bookings that are not Cancelled on the same night.
THEOREM NightsApart == Spec => []NoDateOverlap
<1>1. Inv => NoDateOverlap
  BY DEF Inv
<1>. QED
  BY <1>1, InvariantHolds, PTL

-----------------------------------------------------------------------------
\* The rows as the abstract calendar sees them, and what a written row does there.

PhaseOf(row) ==
  IF row.status \in Statuses \ {"Cancelled"} THEN "holding"
  ELSE IF row.status = "Absent" THEN "new" ELSE "gone"

NightsOf(row) == IF PhaseOf(row) = "holding" THEN row.stay ELSE {}

LEMMA Mapped ==
  /\ PhaseHeld = [b \in Bookings |-> PhaseOf(booking[b])]
  /\ NightsHeld = [b \in Bookings |-> NightsOf(booking[b])]
  /\ PhaseHeld' = [b \in Bookings |-> PhaseOf(booking'[b])]
  /\ NightsHeld' = [b \in Bookings |-> NightsOf(booking'[b])]
BY StatusNames DEF PhaseHeld, NightsHeld, PhaseOf, NightsOf, Holds

\* Nights the exclusion constraint lets a row take are free in the calendar.
LEMMA NotExcludedIsFree ==
  ASSUME NEW b \in Bookings, NEW stay, ~Excluded(b, stay)
  PROVE  Shared!Free(b, stay)
BY DEF Shared!Free, Excluded, Conflicts, Overlap, NightsHeld, Holds

\* A row that is written changes its own entry in the calendar and no other.
LEMMA RowMapped ==
  ASSUME Inv, NEW b \in Bookings, NEW row \in BookingType,
         booking' = [booking EXCEPT ![b] = row]
  PROVE  /\ PhaseHeld' = [PhaseHeld EXCEPT ![b] = PhaseOf(row)]
         /\ NightsHeld' = [NightsHeld EXCEPT ![b] = NightsOf(row)]
<1>1. \A c \in Bookings : booking'[c] = IF c = b THEN row ELSE booking[c]
  BY DEF Inv, TypeOK
<1>2. \A c \in Bookings : PhaseHeld'[c] = IF c = b THEN PhaseOf(row) ELSE PhaseHeld[c]
  BY <1>1, Mapped
<1>3. \A c \in Bookings : NightsHeld'[c] = IF c = b THEN NightsOf(row) ELSE NightsHeld[c]
  BY <1>1, Mapped
<1>4. /\ PhaseHeld' = [c \in Bookings |-> PhaseHeld'[c]]
      /\ NightsHeld' = [c \in Bookings |-> NightsHeld'[c]]
  BY DEF PhaseHeld, NightsHeld
<1>5. DOMAIN PhaseHeld = Bookings /\ DOMAIN NightsHeld = Bookings
  BY DEF PhaseHeld, NightsHeld
<1>. QED
  BY <1>2, <1>3, <1>4, <1>5

\* The nights of a row without any, or that are the row's already, change nothing.
LEMMA SameEntry ==
  ASSUME Inv, NEW b \in Bookings, NEW row \in BookingType,
         booking' = [booking EXCEPT ![b] = row],
         PhaseOf(row) = PhaseOf(booking[b]), NightsOf(row) = NightsOf(booking[b])
  PROVE  UNCHANGED Shared!vars
BY Mapped, RowMapped DEF Shared!vars

LEMMA TakesNights ==
  ASSUME Inv, NEW b \in Bookings, NEW row \in BookingType,
         booking' = [booking EXCEPT ![b] = row],
         PhaseOf(booking[b]) = "new", PhaseOf(row) = "holding",
         row.stay \in Stays, ~Excluded(b, row.stay)
  PROVE  Shared!Take(b)
<1>1. Shared!Free(b, row.stay)
  BY NotExcludedIsFree
<1>2. PhaseHeld[b] = PhaseOf(booking[b])
  BY Mapped
<1>3. /\ PhaseHeld' = [PhaseHeld EXCEPT ![b] = PhaseOf(row)]
      /\ NightsHeld' = [NightsHeld EXCEPT ![b] = NightsOf(row)]
  BY RowMapped
<1>4. NightsOf(row) = row.stay
  BY DEF NightsOf
<1>. QED
  BY <1>1, <1>2, <1>3, <1>4 DEF Shared!Take

LEMMA MovesNights ==
  ASSUME Inv, NEW b \in Bookings, NEW row \in BookingType,
         booking' = [booking EXCEPT ![b] = row],
         PhaseOf(booking[b]) = "holding", PhaseOf(row) = "holding",
         row.stay \in Stays, ~Excluded(b, row.stay)
  PROVE  Shared!Move(b)
<1>1. Shared!Free(b, row.stay)
  BY NotExcludedIsFree
<1>2. PhaseHeld[b] = PhaseOf(booking[b])
  BY Mapped
<1>3. /\ PhaseHeld' = [PhaseHeld EXCEPT ![b] = PhaseOf(row)]
      /\ NightsHeld' = [NightsHeld EXCEPT ![b] = NightsOf(row)]
  BY RowMapped
<1>4. NightsOf(row) = row.stay
  BY DEF NightsOf
<1>5. PhaseHeld = [c \in Bookings |-> PhaseHeld[c]]
  BY DEF PhaseHeld
<1>6. PhaseHeld' = PhaseHeld
  BY <1>2, <1>3, <1>5
<1>. QED
  BY <1>1, <1>2, <1>3, <1>4, <1>6 DEF Shared!Move

LEMMA GivesNightsUp ==
  ASSUME Inv, NEW b \in Bookings, NEW row \in BookingType,
         booking' = [booking EXCEPT ![b] = row],
         PhaseOf(booking[b]) = "holding", PhaseOf(row) = "gone"
  PROVE  Shared!GiveUp(b)
<1>1. PhaseHeld[b] = PhaseOf(booking[b])
  BY Mapped
<1>2. /\ PhaseHeld' = [PhaseHeld EXCEPT ![b] = PhaseOf(row)]
      /\ NightsHeld' = [NightsHeld EXCEPT ![b] = NightsOf(row)]
  BY RowMapped
<1>3. NightsOf(row) = {}
  BY DEF NightsOf
<1>. QED
  BY <1>1, <1>2, <1>3 DEF Shared!GiveUp

-----------------------------------------------------------------------------
LEMMA TransitionMapped ==
  ASSUME Inv, NEW b \in Bookings, transitionStatus(b)
  PROVE  Shared!GiveUp(b) \/ UNCHANGED Shared!vars
<1>1. PICK to \in VALID_TRANSITIONS[booking[b].status] :
        booking' = [booking EXCEPT ![b].status = to]
  BY DEF transitionStatus
<1>2. booking[b] \in BookingType
  BY DEF Inv, TypeOK, BookingType, RowStatuses
<1>3. booking[b].status \in Statuses \ {"Cancelled"}
  BY <1>1, CancelledIsFinal DEF transitionStatus, Exists
<1>4. to \in Statuses
  BY <1>1, <1>3, TransitionsStay
<1> DEFINE row == [booking[b] EXCEPT !.status = to]
<1>5. row \in BookingType /\ row.stay = booking[b].stay /\ row.status = to
  BY <1>2, <1>4 DEF BookingType, RowStatuses
<1>6. booking' = [booking EXCEPT ![b] = row]
  BY <1>1
<1> HIDE DEF row
<1>7. CASE to = "Cancelled"
  <2>1. PhaseOf(booking[b]) = "holding" /\ PhaseOf(row) = "gone"
    BY <1>3, <1>5, <1>7 DEF PhaseOf
  <2>. QED
    BY <1>5, <1>6, <2>1, GivesNightsUp
<1>8. CASE to # "Cancelled"
  <2>1. PhaseOf(row) = PhaseOf(booking[b]) /\ NightsOf(row) = NightsOf(booking[b])
    BY <1>3, <1>4, <1>5, <1>8 DEF PhaseOf, NightsOf
  <2>. QED
    BY <1>5, <1>6, <2>1, SameEntry
<1>. QED
  BY <1>7, <1>8

LEMMA CreateMapped ==
  ASSUME Inv, NEW b \in Bookings, NEW stay \in Stays, create_booking_atomic_v2(b, stay)
  PROVE  Shared!Take(b)
<1> DEFINE row == [status |-> "Pending", stay |-> stay]
<1>1. row \in BookingType /\ row.stay = stay /\ PhaseOf(row) = "holding"
  BY StatusNames DEF BookingType, RowStatuses, PhaseOf
<1>2. /\ booking' = [booking EXCEPT ![b] = row] /\ ~Excluded(b, stay)
      /\ PhaseOf(booking[b]) = "new"
  BY StatusNames DEF create_booking_atomic_v2, PhaseOf
<1> HIDE DEF row
<1>. QED
  BY <1>1, <1>2, TakesNights

\* A row deleted after it was Cancelled held no nights any more.
LEMMA DeleteMapped ==
  ASSUME Inv, NEW b \in Bookings, DeleteReservation(b)
  PROVE  Shared!GiveUp(b) \/ UNCHANGED Shared!vars
<1> DEFINE row == [booking[b] EXCEPT !.status = "Deleted"]
<1>1. booking[b] \in BookingType
  BY DEF Inv, TypeOK, BookingType, RowStatuses
<1>2. row \in BookingType /\ row.status = "Deleted"
  BY <1>1 DEF BookingType, RowStatuses
<1>3. PhaseOf(row) = "gone" /\ NightsOf(row) = {}
  BY <1>2, StatusNames DEF PhaseOf, NightsOf
<1>4. booking' = [booking EXCEPT ![b] = row] /\ booking[b].status \in Statuses
  BY DEF DeleteReservation, Exists
<1> HIDE DEF row
<1>5. CASE booking[b].status = "Cancelled"
  <2>1. PhaseOf(booking[b]) = "gone" /\ NightsOf(booking[b]) = {}
    BY <1>5 DEF PhaseOf, NightsOf
  <2>. QED
    BY <1>2, <1>3, <1>4, <2>1, SameEntry
<1>6. CASE booking[b].status # "Cancelled"
  <2>1. PhaseOf(booking[b]) = "holding"
    BY <1>4, <1>6 DEF PhaseOf
  <2>. QED
    BY <1>2, <1>3, <1>4, <2>1, GivesNightsUp
<1>. QED
  BY <1>5, <1>6

\* Dates written to a row that is Cancelled do not take any nights: the row is
\* outside the constraint, and outside the calendar too.
LEMMA ApplyMapped ==
  ASSUME Inv, NEW r \in Requests, ApplyDates(r)
  PROVE  (\E b \in Bookings : Shared!Move(b)) \/ UNCHANGED Shared!vars
<1> DEFINE p == proposal[task[r].proposal]
           row == [booking[p.of] EXCEPT !.stay = p.stay]
<1>1. task[r].op = "accept" /\ "accept" \in ProposalOps
  BY Answers DEF ApplyDates
<1>2. p \in ProposalType
  BY <1>1, RequestOnProposal DEF Inv
<1>3. p.of \in Bookings /\ p.stay \in Stays
  BY <1>2 DEF ProposalType
<1>4. booking[p.of] \in BookingType
  BY <1>3 DEF Inv, TypeOK, BookingType, RowStatuses
<1>5. row \in BookingType /\ row.stay = p.stay /\ row.status = booking[p.of].status
  BY <1>3, <1>4 DEF BookingType
<1>6. /\ booking' = [booking EXCEPT ![p.of] = row]
      /\ booking[p.of].status \in Statuses
      /\ booking[p.of].status # "Cancelled" => ~Excluded(p.of, p.stay)
  BY DEF ApplyDates, Exists
<1> HIDE DEF p, row
<1>7. CASE booking[p.of].status = "Cancelled"
  <2>1. PhaseOf(row) = PhaseOf(booking[p.of]) /\ NightsOf(row) = NightsOf(booking[p.of])
    BY <1>5, <1>7 DEF PhaseOf, NightsOf
  <2>. QED
    BY <1>3, <1>5, <1>6, <2>1, SameEntry
<1>8. CASE booking[p.of].status # "Cancelled"
  <2>1. PhaseOf(row) = "holding" /\ PhaseOf(booking[p.of]) = "holding"
    BY <1>5, <1>6, <1>8 DEF PhaseOf
  <2>. QED
    BY <1>3, <1>5, <1>6, <1>8, <2>1, MovesNights
<1>. QED
  BY <1>7, <1>8

LEMMA CalendarStep == Inv /\ [Next]_vars => [Shared!Next]_(Shared!vars)
<1> SUFFICES ASSUME Inv, [Next]_vars PROVE Shared!Next \/ UNCHANGED Shared!vars
  OBVIOUS
<1>1. CASE UNCHANGED booking
  BY <1>1, Mapped DEF Shared!vars
<1>2. ASSUME NEW b \in Bookings,
             \/ transitionStatus(b) \/ DeleteReservation(b)
             \/ \E stay \in Stays : create_booking_atomic_v2(b, stay)
      PROVE  Shared!Next \/ UNCHANGED Shared!vars
  BY <1>2, TransitionMapped, DeleteMapped, CreateMapped DEF Shared!Next
<1>3. ASSUME NEW r \in Requests, Begins(r) \/ Continues(r)
      PROVE  Shared!Next \/ UNCHANGED Shared!vars
  <2>1. CASE ApplyDates(r)
    BY <2>1, ApplyMapped DEF Shared!Next
  <2>2. CASE ~ApplyDates(r)
    <3>1. UNCHANGED booking
      BY <1>3, <2>2 DEF Begins, Continues, Begin, blockAvailabilityRange, requestModification,
         acceptModification, declineModification, InsertBlock, MarkProposal, Fail,
         InsertProposal
    <3>. QED
      BY <1>1, <3>1
  <2>. QED
    BY <2>1, <2>2
<1>4. CASE (\E stay \in Stays : deleteAvailabilityRange(stay)) \/ Expiry
  BY <1>1, <1>4 DEF deleteAvailabilityRange, Expiry, expireStaleModifications, Lapse,
     MarkExpired, ExpiryFails
<1>. QED
  BY <1>1, <1>2, <1>3, <1>4 DEF Next, vars

LEMMA CalendarInit == Init => Shared!Init
BY StatusNames DEF Init, NoBooking, Shared!Init, PhaseHeld, NightsHeld, Holds

\* Reservations, cancellations and accepted date changes implement the abstract
\* calendar: nights are taken and changed by one booking at a time, only when
\* free, and never again by one that has given them up.
THEOREM CalendarImplemented == Spec => CalendarPromise
BY InvariantHolds, CalendarInit, CalendarStep, PTL DEF Spec, CalendarPromise, Shared!Spec

-----------------------------------------------------------------------------
Answered(p) == proposal[p].status \in {"accepted", "declined"}

AnswerStands(p) == Answered(p) => proposal'[p].status \in {"accepted", "declined", "deleted"}

\* A step that writes the status of one proposal, which was not answered.
LEMMA OpenWritten ==
  ASSUME Inv, NEW p \in Proposals, NEW q, proposal' = [proposal EXCEPT ![p] = q],
         ~Answered(p)
  PROVE  \A s \in Proposals : AnswerStands(s)
BY DEF Inv, TypeOK, Answered, AnswerStands

LEMMA AnswerStep ==
  ASSUME Inv, Next
  PROVE  \A p \in Proposals : AnswerStands(p)
<1>1. CASE UNCHANGED proposal
  BY <1>1 DEF AnswerStands, Answered
<1>2. ASSUME NEW b \in Bookings, DeleteReservation(b)
      PROVE  \A p \in Proposals : AnswerStands(p)
  <2> SUFFICES ASSUME NEW p \in Proposals, Answered(p)
               PROVE  proposal'[p].status \in {"accepted", "declined", "deleted"}
    BY DEF AnswerStands
  <2>1. proposal[p] \in ProposalType
    BY DEF Inv, TypeOK, Answered, NoProposal
  <2>2. proposal'[p] \in {proposal[p], [proposal[p] EXCEPT !.status = "deleted"]}
    BY <1>2 DEF DeleteReservation
  <2> QED
    BY <2>1, <2>2 DEF ProposalType, Answered
<1>3. ASSUME NEW r \in Requests, MarkProposal(r)
      PROVE  \A p \in Proposals : AnswerStands(p)
  <2>1. task[r].op \in AnswerOps /\ task[r].op \in ProposalOps
    BY <1>3, Answers DEF MarkProposal
  <2>2. Answer[task[r].op] \in {"accepted", "declined"}
    BY <2>1, Answers
  <2>3. proposal[task[r].proposal] \in ProposalType
    BY <2>1, RequestOnProposal DEF Inv
  <2>4. proposal' = [proposal EXCEPT ![task[r].proposal].status = Answer[task[r].op]]
    BY <1>3 DEF MarkProposal
  <2> QED
    BY <2>2, <2>3, <2>4 DEF Inv, TypeOK, AnswerStands, Answered, ProposalType
<1>4. ASSUME NEW r \in Requests, NEW p \in Proposals, InsertProposal(r, p)
      PROVE  \A s \in Proposals : AnswerStands(s)
  <2>1. ~Answered(p)
    BY <1>4 DEF InsertProposal, NoProposal, Answered
  <2> QED
    BY <1>4, <2>1, OpenWritten DEF InsertProposal
<1>5. ASSUME NEW p \in Proposals, Lapse(p) \/ MarkExpired(p)
      PROVE  \A s \in Proposals : AnswerStands(s)
  <2>1. CASE proposal[p].status = "pending"
    <3>1. ~Answered(p)
      BY <2>1 DEF Answered
    <3>2. \E q : proposal' = [proposal EXCEPT ![p] = q]
      BY <1>5, <2>1 DEF Lapse, MarkExpired
    <3> QED
      BY <3>1, <3>2, OpenWritten
  <2>2. CASE proposal[p].status # "pending"
    BY <1>1, <1>5, <2>2 DEF Lapse, MarkExpired
  <2> QED
    BY <2>1, <2>2
<1>6. CASE \E b \in Bookings : \/ transitionStatus(b)
                               \/ \E stay \in Stays : create_booking_atomic_v2(b, stay)
  BY <1>1, <1>6 DEF transitionStatus, create_booking_atomic_v2
<1>7. ASSUME NEW r \in Requests, Begins(r)
      PROVE  UNCHANGED proposal
  BY <1>7 DEF Begins, Begin, blockAvailabilityRange, requestModification, acceptModification,
     declineModification
<1>8. ASSUME NEW r \in Requests,
             InsertBlock(r) \/ ApplyDates(r) \/ Fail(r)
      PROVE  UNCHANGED proposal
  BY <1>8 DEF InsertBlock, ApplyDates, Fail
<1>9. ASSUME \/ \E stay \in Stays : deleteAvailabilityRange(stay)
             \/ expireStaleModifications \/ \E p \in Proposals : ExpiryFails(p)
      PROVE  UNCHANGED proposal
  BY <1>9 DEF deleteAvailabilityRange, expireStaleModifications, ExpiryFails
<1>. QED
  BY <1>1, <1>2, <1>3, <1>4, <1>5, <1>6, <1>7, <1>8, <1>9 DEF Next, Continues, Expiry

\* Neither the sweep's list nor a request that read the proposal earlier undoes a
\* host's answer.
THEOREM AnswersAreKept == Spec => AnswersStand
<1>1. Inv /\ [Next]_vars => [\A p \in Proposals : AnswerStands(p)]_vars
  BY AnswerStep
<1>2. Spec => [][\A p \in Proposals : AnswerStands(p)]_vars
  BY <1>1, InvariantHolds, PTL DEF Spec
<1>. QED
  BY <1>2 DEF AnswersStand, AnswerStands, Answered
=============================================================================
