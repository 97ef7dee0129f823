------------------------- MODULE ListingModeration -------------------------
(***************************************************************************)
(* Abuse reports on one listing, the moderators' hides and the owner's     *)
(* appeals, and the public copy of the listing in the cache.               *)
(*                                                                         *)
(* A hide is recorded on the report and then on the listing, by two calls  *)
(* to the database; lifting it takes three.  Each call is a step here, and *)
(* the requests of several moderators, the owner and visitors interleave.  *)
(* A report's status (pending, escalated, resolved, dismissed) is left     *)
(* out: nothing here reads it.                                             *)
(***************************************************************************)
CONSTANTS
  Reports,      \* the reports filed on this listing, one per reporter
  Requests,     \* slots for the requests of moderators and of the owner
  Visitors      \* slots for public reads of the listing

VARIABLES
  hidden,       \* properties.moderation_state = 'hidden'
  removed,      \* properties.deleted_at is set
  report,       \* hide_property and appeal_status of each report
  request,      \* where each request is, and what it read
  copy,         \* the cache holds the listing under its public key
  visitor       \* what each public read has found

vars == <<hidden, removed, report, request, copy, visitor>>

listing == <<hidden, removed>>
public == <<copy, visitor>>

\* A report as it is filed.
Filed == [hides |-> FALSE, appeal |-> "none"]
Idle == [op |-> "idle"]

Begin(q, t) ==
  /\ request[q] = Idle
  /\ request' = [request EXCEPT ![q] = t]
  /\ UNCHANGED <<listing, report, public>>

Advance(q, op) == request' = [request EXCEPT ![q].op = op]

Finish(q) == request' = [request EXCEPT ![q] = Idle]

\* A request ends where it is: a call to the database fails, or its server dies.
Fail(q) ==
  /\ request[q] # Idle
  /\ Finish(q)
  /\ UNCHANGED <<listing, report, public>>

-----------------------------------------------------------------------------
\* Hides.

hideProperty(q, r) == Begin(q, [op |-> "hide", report |-> r])
unhideProperty(q, r) == Begin(q, [op |-> "clearHide", report |-> r])

RecordHide(q) ==
  /\ request[q].op = "hide"
  /\ report' = [report EXCEPT ![request[q].report].hides = TRUE]
  /\ Advance(q, "hideListing")
  /\ UNCHANGED <<listing, public>>

HideListing(q) ==
  /\ request[q].op = "hideListing"
  /\ hidden' = TRUE
  /\ Finish(q)
  /\ UNCHANGED <<removed, report, public>>

clearHide(q) ==
  /\ request[q].op = "clearHide"
  /\ report' = [report EXCEPT ![request[q].report].hides = FALSE]
  /\ Advance(q, "otherHides")
  /\ UNCHANGED <<listing, public>>

OtherActiveHide(r) == \E o \in Reports \ {r} : report[o].hides

\* A query that fails counts as no other hide.
hasOtherActiveHide(q) ==
  /\ request[q].op = "otherHides"
  /\ \/ OtherActiveHide(request[q].report) /\ Finish(q)
     \/ Advance(q, "showListing")
  /\ UNCHANGED <<listing, report, public>>

\* The public copy is left as it is, here and in HideListing.
ShowListing(q) ==
  /\ request[q].op = "showListing"
  /\ hidden' = FALSE
  /\ Finish(q)
  /\ UNCHANGED <<removed, report, public>>

-----------------------------------------------------------------------------
\* Appeals.

submitAppeal(q, r) ==
  /\ report[r].hides
  /\ report[r].appeal \in {"none", "denied"}
  /\ Begin(q, [op |-> "appeal", report |-> r])

\* Compare-and-set: of two appeals on one hide, the later answers 409.
FileAppeal(q) ==
  /\ request[q].op = "appeal"
  /\ LET r == request[q].report
     IN report' = IF report[r].appeal \in {"none", "denied"}
                  THEN [report EXCEPT ![r].appeal = "pending"] ELSE report
  /\ Finish(q)
  /\ UNCHANGED <<listing, public>>

reviewAppeal(q, r, approved) ==
  /\ report[r].appeal = "pending"
  /\ Begin(q, [op |-> "decide", report |-> r, approved |-> approved,
               hides |-> report[r].hides])

\* Mutant of StillPending: the verdict is written on the strength of the read.
StillPending_asRead(r) == r \in Reports

StillPending(r) == report[r].appeal = "pending"

\* Mutant of Verdict: a refused appeal is stored under the name dismissed reports have.
Verdict_dismissed(approved) == IF approved THEN "approved" ELSE "dismissed"

Verdict(approved) == IF approved THEN "approved" ELSE "denied"

\* Compare-and-set on the pending appeal.  An approval goes on to lift the
\* hide, if the report was hiding the listing when the review began.
Decide(q) ==
  /\ request[q].op = "decide"
  /\ LET t == request[q]
         r == t.report
     IN IF StillPending(r)
        THEN /\ report' = [report EXCEPT ![r].appeal = Verdict(t.approved)]
             /\ request' = [request EXCEPT ![q] =
                  IF t.approved /\ t.hides
                  THEN [op |-> "clearHide", report |-> r] ELSE Idle]
        ELSE Finish(q) /\ UNCHANGED report
  /\ UNCHANGED <<listing, public>>

-----------------------------------------------------------------------------
\* The owner removes or edits the listing; both then drop the public copy.

deleteProperty(q) ==
  /\ request[q] = Idle
  /\ removed' = TRUE
  /\ request' = [request EXCEPT ![q] = [op |-> "dropCopy"]]
  /\ UNCHANGED <<hidden, report, public>>

updateProperty(q) == Begin(q, [op |-> "dropCopy"])

\* A cache that cannot be reached is no error: that is Fail.
DropCopy(q) ==
  /\ request[q].op = "dropCopy"
  /\ copy' = FALSE
  /\ Finish(q)
  /\ UNCHANGED <<listing, report, visitor>>

-----------------------------------------------------------------------------
\* Public reads.

\* Mutant of PubliclyReadable: only the owner's removal closes the listing.
PubliclyReadable_present == ~removed

PubliclyReadable == ~hidden /\ ~removed

\* A miss reads the row; a hit changes nothing.
getPropertyById(v) ==
  /\ visitor[v] = "idle" /\ ~copy
  /\ PubliclyReadable
  /\ visitor' = [visitor EXCEPT ![v] = "found"]
  /\ UNCHANGED <<listing, report, request, copy>>

StoreCopy(v) ==
  /\ visitor[v] = "found"
  /\ copy' = TRUE
  /\ visitor' = [visitor EXCEPT ![v] = "idle"]
  /\ UNCHANGED <<listing, report, request>>

StoreFails(v) ==
  /\ visitor[v] = "found"
  /\ visitor' = [visitor EXCEPT ![v] = "idle"]
  /\ UNCHANGED <<listing, report, request, copy>>

CopyExpires ==
  /\ copy
  /\ copy' = FALSE
  /\ UNCHANGED <<listing, report, request, visitor>>

-----------------------------------------------------------------------------
Init ==
  /\ hidden = FALSE /\ removed = FALSE
  /\ report = [r \in Reports |-> Filed]
  /\ request = [q \in Requests |-> Idle]
  /\ copy = FALSE
  /\ visitor = [v \in Visitors |-> "idle"]

Begins(q) ==
  \/ \E r \in Reports : \/ hideProperty(q, r) \/ unhideProperty(q, r)
                        \/ submitAppeal(q, r)
                        \/ \E approved \in BOOLEAN : reviewAppeal(q, r, approved)
  \/ deleteProperty(q) \/ updateProperty(q)

Continues(q) ==
  \/ RecordHide(q) \/ HideListing(q)
  \/ clearHide(q) \/ hasOtherActiveHide(q) \/ ShowListing(q)
  \/ FileAppeal(q) \/ Decide(q)
  \/ DropCopy(q)
  \/ Fail(q)

Read(v) == getPropertyById(v) \/ StoreCopy(v) \/ StoreFails(v)

Next ==
  \/ \E q \in Requests : Begins(q) \/ Continues(q)
  \/ \E v \in Visitors : Read(v)
  \/ CopyExpires

Spec == Init /\ [][Next]_vars

\* A cached copy lives 300 seconds, and a read under way ends.
FairSpec ==
  /\ Spec
  /\ WF_vars(CopyExpires)
  /\ \A v \in Visitors : WF_vars(StoreCopy(v) \/ StoreFails(v))

-----------------------------------------------------------------------------
Appeals == {"none", "pending", "approved", "denied"}

RequestType ==
  {Idle}
    \cup [op : {"dropCopy"}]
    \cup [op : {"hide", "hideListing", "clearHide", "otherHides", "showListing", "appeal"},
          report : Reports]
    \cup [op : {"decide"}, report : Reports, approved : BOOLEAN, hides : BOOLEAN]

\* Rows and requests are well formed.
TypeOK ==
  /\ hidden \in BOOLEAN /\ removed \in BOOLEAN /\ copy \in BOOLEAN
  /\ report \in [Reports -> [hides : BOOLEAN, appeal : Appeals]]
  /\ request \in [Requests -> RequestType]
  /\ visitor \in [Visitors -> {"idle", "found"}]

\* An appeal is decided once: however many moderators review it together and
\* however often the owner sends it, a verdict is given on a pending appeal
\* only, an approval is final, and a denial can only be appealed again.
DecidedOnce ==
  [][\A r \in Reports :
       report'[r].appeal # report[r].appeal
       => <<report[r].appeal, report'[r].appeal>> \in
            {<<"none", "pending">>, <<"denied", "pending">>,
             <<"pending", "approved">>, <<"pending", "denied">>}]_vars

\* A listing hidden or removed for good leaves the public cache for good,
\* though no hide deletes the copy, the deletions that are made may fail, and a
\* read that found the listing may store it afterwards.
HiddenLeavesPublic == <>[](hidden \/ removed) => <>[]~copy
=============================================================================
