---------------------------- MODULE BookingDates ----------------------------
(***************************************************************************)
(* The calendar of one property in the database: reservations by           *)
(* create_booking_atomic_v2, the host's blocked ranges, and date changes   *)
(* proposed by tenants and answered by the host, with the exclusion        *)
(* constraint bookings_no_date_overlap under them all.                     *)
(*                                                                         *)
(* A stay is the set of its nights, so half-open ranges overlap when they  *)
(* share a night.  Each request reads, then writes: the reads before a     *)
(* write are one step, and anything may happen before the write.           *)
(***************************************************************************)
CONSTANTS
  Bookings, Proposals,
  Requests,     \* request slots: how many operations may overlap
  Stays         \* the ranges of nights that may be asked for

ASSUME StaysAssumption == {} \notin Stays

VARIABLES
  booking,      \* bookings: status and nights
  proposal,     \* booking_modifications
  blocks,       \* availability_ranges with is_available = false
  task,         \* where each request is, and what it read
  sweep         \* the proposals the expiry sweep has left to expire

vars == <<booking, proposal, blocks, task, sweep>>

\* Mutant of VALID_TRANSITIONS: a cancelled booking may be taken up again.
VALID_TRANSITIONS_reopened ==
  [Pending   |-> {"Confirmed", "Cancelled", "Expired"},
   Confirmed |-> {"Completed", "Cancelled", "Disputed"},
   Disputed  |-> {"Completed", "Cancelled"},
   Completed |-> {}, Cancelled |-> {"Pending"}, Expired |-> {}]

VALID_TRANSITIONS ==
  [Pending   |-> {"Confirmed", "Cancelled", "Expired"},
   Confirmed |-> {"Completed", "Cancelled", "Disputed"},
   Disputed  |-> {"Completed", "Cancelled"},
   Completed |-> {}, Cancelled |-> {}, Expired |-> {}]

Statuses == DOMAIN VALID_TRANSITIONS

NoBooking == [status |-> "Absent", stay |-> {}]
NoProposal == [status |-> "none"]
Exists(b) == booking[b].status \in Statuses
NoTask == [op |-> "none"]

Overlap(s, t) == s \cap t # {}

\* Rows of the other bookings whose status is one of those, sharing a night.
Conflicts(statuses, stay, others) ==
  {b \in others : booking[b].status \in statuses /\ Overlap(booking[b].stay, stay)}

Occupying == {"Pending", "Confirmed", "Completed", "Disputed"}

Blocked(stay) == \E s \in blocks : Overlap(s, stay)

\* Mutant of Excluded: the constraint looks at bookings under way only.
Excluded_open(b, stay) ==
  Conflicts({"Pending", "Confirmed"}, stay, Bookings \ {b}) # {}

\* bookings_no_date_overlap: rows in any status but Cancelled exclude others.
Excluded(b, stay) == Conflicts(Statuses \ {"Cancelled"}, stay, Bookings \ {b}) # {}

\* checkDateRangeAvailability, the preflight of a date change, if those of its
\* two queries fail: one that fails has found nothing, so the stay passes.
Available(b, stay, failed) ==
  /\ "blocks" \notin failed => ~Blocked(stay)
  /\ "bookings" \notin failed
       => Conflicts(Statuses \ {"Cancelled"}, stay, Bookings \ {b}) = {}

\* The stays it may let through.
MayPass(b) ==
  {stay \in Stays : \E failed \in SUBSET {"blocks", "bookings"} : Available(b, stay, failed)}

-----------------------------------------------------------------------------
\* The reservation is one transaction under the property's advisory lock.

create_booking_atomic_v2(b, stay) ==
  /\ booking[b].status = "Absent"
  /\ Conflicts(Occupying, stay, Bookings) = {}
  /\ ~Blocked(stay)
  /\ ~Excluded(b, stay)
  /\ booking' = [booking EXCEPT ![b] = [status |-> "Pending", stay |-> stay]]
  /\ UNCHANGED <<proposal, blocks, task, sweep>>

transitionStatus(b) ==
  /\ Exists(b)
  /\ \E to \in VALID_TRANSITIONS[booking[b].status] :
       booking' = [booking EXCEPT ![b].status = to]
  /\ UNCHANGED <<proposal, blocks, task, sweep>>

\* A failed creation deletes its row by its id, whatever its status has become
\* meanwhile; its proposals go with it.
DeleteReservation(b) ==
  /\ Exists(b)
  /\ booking' = [booking EXCEPT ![b].status = "Deleted"]
  /\ proposal' = [p \in Proposals |->
                    IF proposal[p].status # "none" /\ proposal[p].of = b
                    THEN [proposal[p] EXCEPT !.status = "deleted"] ELSE proposal[p]]
  /\ UNCHANGED <<blocks, task, sweep>>

-----------------------------------------------------------------------------
\* Requests: the reads that let one through, ...

Begin(r, t) ==
  /\ task[r] = NoTask
  /\ task' = [task EXCEPT ![r] = t]
  /\ UNCHANGED <<booking, proposal, blocks, sweep>>

Finish(r) == task' = [task EXCEPT ![r] = NoTask] /\ UNCHANGED sweep

blockAvailabilityRange(r, stay) ==
  /\ Conflicts({"Confirmed", "Pending"}, stay, Bookings) = {}
  /\ Begin(r, [op |-> "block", stay |-> stay])

requestModification(r, b, stay) ==
  /\ Exists(b) /\ booking[b].status \notin {"Cancelled", "Completed", "Disputed"}
  /\ stay \in MayPass(b)
  /\ Begin(r, [op |-> "propose", of |-> b, stay |-> stay])

\* Pending, and not isLazilyExpiredModification.
Answerable(p) == proposal[p].status = "pending" /\ ~proposal[p].lapsed

acceptModification(r, p) ==
  /\ Answerable(p)
  /\ proposal[p].stay \in MayPass(proposal[p].of)
  /\ Begin(r, [op |-> "accept", proposal |-> p])

declineModification(r, p) ==
  /\ Answerable(p)
  /\ Begin(r, [op |-> "decline", proposal |-> p])

\* ... and its writes.

InsertBlock(r) ==
  /\ task[r].op = "block"
  /\ blocks' = blocks \cup {task[r].stay}
  /\ Finish(r) /\ UNCHANGED <<booking, proposal>>

InsertProposal(r, p) ==
  /\ task[r].op = "propose" /\ Exists(task[r].of)
  /\ proposal[p] = NoProposal
  /\ proposal' = [proposal EXCEPT ![p] =
                    [status |-> "pending", of |-> task[r].of, stay |-> task[r].stay,
                     lapsed |-> FALSE]]
  /\ Finish(r) /\ UNCHANGED <<booking, blocks>>

\* The dates are written whatever has become of the booking's status and of
\* the proposal; only the constraint can refuse them, and a Cancelled row is
\* not subject to it.
ApplyDates(r) ==
  /\ task[r].op = "accept"
  /\ LET p == proposal[task[r].proposal]
     IN /\ Exists(p.of)
        /\ booking[p.of].status # "Cancelled" => ~Excluded(p.of, p.stay)
        /\ booking' = [booking EXCEPT ![p.of].stay = p.stay]
  /\ task' = [task EXCEPT ![r].op = "markAccepted"]
  /\ UNCHANGED <<proposal, blocks, sweep>>

\* Mutant of Answer: the host's answers under the names the tenant's screen uses.
Answer_labels == [markAccepted |-> "approved", decline |-> "declined"]

Answer == [markAccepted |-> "accepted", decline |-> "declined"]

\* The answer overwrites the proposal's status, whatever it is by now.
MarkProposal(r) ==
  /\ task[r].op \in DOMAIN Answer
  /\ proposal[task[r].proposal].status # "deleted"
  /\ proposal' = [proposal EXCEPT ![task[r].proposal].status = Answer[task[r].op]]
  /\ Finish(r) /\ UNCHANGED <<booking, blocks>>

\* A request ends where it is: a check or a database call fails, a row is gone.
Fail(r) == task[r] # NoTask /\ Finish(r) /\ UNCHANGED <<booking, proposal, blocks>>

deleteAvailabilityRange(stay) ==
  /\ stay \in blocks
  /\ blocks' = blocks \ {stay}
  /\ UNCHANGED <<booking, proposal, task, sweep>>

-----------------------------------------------------------------------------
\* The sweep takes a list of lapsed proposals, then expires them one by one.

Lapse(p) ==
  /\ proposal[p].status = "pending" /\ ~proposal[p].lapsed
  /\ proposal' = [proposal EXCEPT ![p].lapsed = TRUE]
  /\ UNCHANGED <<booking, blocks, task, sweep>>

\* Mutant of Stale: proposals for bookings under way only.
Stale_active(p) ==
  /\ proposal[p].status = "pending" /\ proposal[p].lapsed
  /\ booking[proposal[p].of].status \in {"Pending", "Confirmed"}

Stale(p) == proposal[p].status = "pending" /\ proposal[p].lapsed

expireStaleModifications ==
  /\ sweep = {}
  /\ sweep' = {p \in Proposals : Stale(p)}
  /\ sweep' # {}
  /\ UNCHANGED <<booking, proposal, blocks, task>>

\* Mutant of MarkExpired: the list is trusted, the update is not conditional.
MarkExpired_listed(p) ==
  /\ p \in sweep
  /\ sweep' = sweep \ {p}
  /\ proposal' = [proposal EXCEPT ![p].status = "expired"]
  /\ UNCHANGED <<booking, blocks, task>>

\* Conditional on the proposal being pending still.
MarkExpired(p) ==
  /\ p \in sweep
  /\ sweep' = sweep \ {p}
  /\ proposal' = IF proposal[p].status = "pending"
                 THEN [proposal EXCEPT ![p].status = "expired"] ELSE proposal
  /\ UNCHANGED <<booking, blocks, task>>

ExpiryFails(p) ==
  /\ p \in sweep
  /\ sweep' = sweep \ {p}
  /\ UNCHANGED <<booking, proposal, blocks, task>>

-----------------------------------------------------------------------------
Init ==
  /\ booking = [b \in Bookings |-> NoBooking]
  /\ proposal = [p \in Proposals |-> NoProposal]
  /\ blocks = {}
  /\ task = [r \in Requests |-> NoTask]
  /\ sweep = {}

Begins(r) ==
  \/ \E stay \in Stays : blockAvailabilityRange(r, stay)
  \/ \E b \in Bookings, stay \in Stays : requestModification(r, b, stay)
  \/ \E p \in Proposals : acceptModification(r, p) \/ declineModification(r, p)

Continues(r) ==
  \/ InsertBlock(r) \/ ApplyDates(r) \/ MarkProposal(r) \/ Fail(r)
  \/ \E p \in Proposals : InsertProposal(r, p)

Expiry ==
  \/ expireStaleModifications
  \/ \E p \in Proposals : Lapse(p) \/ MarkExpired(p) \/ ExpiryFails(p)

Next ==
  \/ \E b \in Bookings : \/ transitionStatus(b) \/ DeleteReservation(b)
                         \/ \E stay \in Stays : create_booking_atomic_v2(b, stay)
  \/ \E r \in Requests : Begins(r) \/ Continues(r)
  \/ \E stay \in Stays : deleteAvailabilityRange(stay)
  \/ Expiry

Spec == Init /\ [][Next]_vars

\* Time passes, the sweep runs every ten minutes and works its list to the
\* end, and the database does not refuse the same update for ever.
FairSpec ==
  /\ Spec
  /\ WF_vars(expireStaleModifications)
  /\ \A p \in Proposals :
       /\ WF_vars(Lapse(p))
       /\ WF_vars(MarkExpired(p) \/ ExpiryFails(p))
       /\ SF_vars(MarkExpired(p))

-----------------------------------------------------------------------------
ProposalOps == {"accept"} \cup DOMAIN Answer

TaskType ==
  {NoTask}
    \cup [op : {"block"}, stay : Stays]
    \cup [op : {"propose"}, of : Bookings, stay : Stays]
    \cup [op : ProposalOps, proposal : Proposals]

ProposalType ==
  [status : {"pending", "accepted", "declined", "expired", "deleted"},
   of : Bookings, stay : Stays, lapsed : BOOLEAN]

\* Rows and requests are well formed, and a request or the sweep at work on a
\* proposal finds one: rows are only added, and deleted ones never come back.
TypeOK ==
  /\ booking \in [Bookings -> [status : Statuses \cup {"Absent", "Deleted"},
                               stay : Stays \cup {{}}]]
  /\ proposal \in [Proposals -> {NoProposal} \cup ProposalType]
  /\ blocks \subseteq Stays
  /\ task \in [Requests -> TaskType]
  /\ sweep \subseteq Proposals
  /\ \A r \in Requests : task[r].op \in ProposalOps
       => proposal[task[r].proposal] # NoProposal
  /\ \A p \in sweep : proposal[p] # NoProposal

\* No two bookings that are not Cancelled share a night, however reservations
\* and accepted date changes interleave.
NoDateOverlap ==
  \A b, c \in Bookings :
    (/\ b # c
     /\ booking[b].status \in Statuses \ {"Cancelled"}
     /\ booking[c].status \in Statuses \ {"Cancelled"})
    => ~Overlap(booking[b].stay, booking[c].stay)

Holds(b) == booking[b].status \in Statuses \ {"Cancelled"}

PhaseHeld ==
  [b \in Bookings |-> CASE Holds(b)                     -> "holding"
                        [] booking[b].status = "Absent" -> "new"
                        [] OTHER                        -> "gone"]

NightsHeld == [b \in Bookings |-> IF Holds(b) THEN booking[b].stay ELSE {}]

Shared == INSTANCE Calendar WITH
  Guests <- Bookings, Ranges <- Stays, phase <- PhaseHeld, nights <- NightsHeld

\* The calendar keeps its promise to guests: bookings take and change nights
\* one at a time and only onto free ones, and what is Cancelled or deleted
\* holds no night again, though late answers still write dates to its row.
CalendarPromise == Shared!Spec

\* A host's answer stands: no sweep that listed the proposal before it, and no
\* request that read it before, makes an answered proposal expired or open again.
AnswersStand ==
  [][\A p \in Proposals : proposal[p].status \in {"accepted", "declined"}
       => proposal'[p].status \in {"accepted", "declined", "deleted"}]_vars

\* Nobody waits for ever on a proposal: answered, expired or gone in the end.
ProposalsEnd ==
  \A p \in Proposals : proposal[p].status = "pending" ~> proposal[p].status # "pending"
=============================================================================
