---------------------------- MODULE ListingTerms ----------------------------
(***************************************************************************)
(* The terms of one listing: the draft its host fills in and publishes,    *)
(* the edits and rollbacks that follow, the numbered versions that record  *)
(* them, and the bookings that take a copy of the terms.                   *)
(*                                                                         *)
(* The tracked fields are one value; edits replace it.  Every call to the  *)
(* database is a step, so the host's tabs and the guests interleave.       *)
(* Removal and hiding only turn requests away, which is Fail and GiveUp.   *)
(***************************************************************************)
EXTENDS Naturals

CONSTANTS
  Terms,        \* what the tracked fields may hold
  Complete,     \* the terms a draft can be published with
  Requests,     \* slots for the host's requests
  Guests,       \* each creates one booking at most
  MaxWrites     \* bound: how often the row is written

ASSUME CompleteAssumption == Complete \subseteq Terms
ASSUME BoundAssumption == MaxWrites \in Nat

VARIABLES
  row,          \* properties: tracked fields, draft_status, whether there is a slug,
                \* writes so far (updated_at)
  versions,     \* property_versions: the snapshot under each version number
  request,      \* where each request of the host is, and what it read
  booking       \* where each creation is; once booked, the row it made

vars == <<row, versions, request, booking>>

Idle == [op |-> "idle"]
NoBooking == [step |-> "none"]

Begin(q, t) ==
  /\ request[q] = Idle
  /\ request' = [request EXCEPT ![q] = t]
  /\ UNCHANGED <<row, versions, booking>>

Finish(q) == request' = [request EXCEPT ![q] = Idle]

\* Every update moves updated_at, by trigger; no two give it the same time.
Write(to) ==
  /\ row.stamp < MaxWrites
  /\ row' = [to EXCEPT !.stamp = row.stamp + 1]

Fail(q) ==
  /\ request[q] # Idle
  /\ Finish(q)
  /\ UNCHANGED <<row, versions, booking>>

-----------------------------------------------------------------------------
\* Drafts.  The editor loads the draft and saves it, with the updated_at it
\* loaded or without.

getDraftProperty(q) ==
  /\ ~row.active
  /\ \E checked \in BOOLEAN, to \in Terms :
       Begin(q, [op |-> "save", to |-> to, checked |-> checked,
                 seen |-> row.terms, stamp |-> row.stamp])

\* Mutant of Unchanged: the save is conditional on the draft status alone.
Unchanged_draft(t) == t.checked \in BOOLEAN

Unchanged(t) == t.checked => t.stamp = row.stamp

updateDraftProperty(q) ==
  /\ request[q].op = "save"
  /\ IF ~row.active /\ Unchanged(request[q])
     THEN Write([row EXCEPT !.terms = request[q].to])
     ELSE UNCHANGED row
  /\ Finish(q)
  /\ UNCHANGED <<versions, booking>>

\* getPublishReadiness looks at the draft as it was read, ...
publishDraft(q) ==
  /\ ~row.active
  /\ row.terms \in Complete
  /\ Begin(q, [op |-> "publish"])

\* ... and the flip is conditional on the draft status.
GoLive(q) ==
  /\ request[q].op = "publish"
  /\ IF row.active THEN UNCHANGED row ELSE Write([row EXCEPT !.active = TRUE])
  /\ Finish(q)
  /\ UNCHANGED <<versions, booking>>

-----------------------------------------------------------------------------
\* Edits and rollbacks.

EditListing(q, to) == Begin(q, [op |-> "edit", to |-> to])

rollbackToVersion(q, n) ==
  /\ versions[n] # row.terms
  /\ Begin(q, [op |-> "edit", to |-> versions[n]])

\* updateProperty reads the row, and takes a read that fails for an empty row, ...
ReadBefore(q) ==
  /\ request[q].op = "edit"
  /\ \E before \in {{row.terms}, {}} :
       request' = [request EXCEPT ![q] =
                     [op |-> "write", to |-> request[q].to, before |-> before]]
  /\ UNCHANGED <<row, versions, booking>>

\* A version of its own is recorded if the edit saw a change.
Updated(t) == IF t.before # {t.to} THEN [op |-> "record", after |-> t.to] ELSE Idle

\* ... writes it, ...
updateProperty(q) ==
  /\ request[q].op = "write"
  /\ Write([row EXCEPT !.terms = request[q].to])
  /\ request' = [request EXCEPT ![q] =
                   IF row.slug THEN Updated(request[q]) ELSE [request[q] EXCEPT !.op = "slug"]]
  /\ UNCHANGED <<versions, booking>>

\* ... and gives a listing that was published without one its slug, by a second
\* write that may fail unnoticed.
WriteSlug(q) ==
  /\ request[q].op = "slug"
  /\ Write([row EXCEPT !.slug = TRUE]) \/ UNCHANGED row
  /\ request' = [request EXCEPT ![q] = Updated(request[q])]
  /\ UNCHANGED <<versions, booking>>

Numbers == DOMAIN versions

\* Mutant of Latest: the number counts the edits, recorded or not.
Latest_edits == row.stamp

Latest == CHOOSE n \in Numbers \cup {0} : \A m \in Numbers : m <= n

\* Mutant of NextNumber: the highest number instead of the one after it.
NextNumber_last == Latest

NextNumber == Latest + 1

\* The next number as it is now; without an answer, 1.
next_property_version(q) ==
  /\ request[q].op = "record"
  /\ \E n \in {NextNumber, 1} :
       request' = [request EXCEPT ![q] =
                     [op |-> "insert", number |-> n, after |-> request[q].after]]
  /\ UNCHANGED <<row, versions, booking>>

\* Mutant of Taken: an upsert, the later snapshot replaces the earlier.
Taken_never(n) == n \notin Nat

Taken(n) == n \in Numbers

\* UNIQUE (property_id, version_number): the second to insert a number is
\* refused, and its version is lost.
recordPropertyVersion(q) ==
  /\ request[q].op = "insert"
  /\ LET n == request[q].number
     IN versions' = IF Taken(n) THEN versions
                    ELSE [k \in Numbers \cup {n} |->
                            IF k = n THEN request[q].after ELSE versions[k]]
  /\ Finish(q)
  /\ UNCHANGED <<row, booking>>

-----------------------------------------------------------------------------
\* createBooking: the listing must be live, then the price is confirmed, then
\* the terms are captured, then their revision; one read of the database each.

Proceed(g, b) ==
  /\ booking' = [booking EXCEPT ![g] = b]
  /\ UNCHANGED <<row, versions, request>>

createBooking(g) ==
  /\ booking[g] = NoBooking
  /\ row.active
  /\ Proceed(g, [step |-> "open"])

assertQuotedTotal(g) ==
  /\ booking[g].step = "open"
  /\ Proceed(g, [step |-> "priced", charged |-> row.terms])

captureListingTermsSnapshot(g) ==
  /\ booking[g].step = "priced"
  /\ Proceed(g, [step |-> "agreed", charged |-> booking[g].charged, terms |-> row.terms])

\* The revision, 0 without an answer; the reservation that stores it with the
\* terms reads nothing of the listing any more.
StoreTerms(g) ==
  /\ booking[g].step = "agreed"
  /\ \E n \in {Latest, 0} :
       Proceed(g, [step |-> "booked", charged |-> booking[g].charged,
                   terms |-> booking[g].terms, revision |-> n])

\* A creation that fails leaves no booking.
GiveUp(g) ==
  /\ booking[g].step \in {"open", "priced", "agreed"}
  /\ Proceed(g, NoBooking)

-----------------------------------------------------------------------------
Init ==
  /\ row \in [terms : Terms \ Complete, active : {FALSE}, slug : {FALSE}, stamp : {0}]
  /\ versions = [n \in {} |-> n]
  /\ request = [q \in Requests |-> Idle]
  /\ booking = [g \in Guests |-> NoBooking]

Host(q) ==
  \/ getDraftProperty(q) \/ updateDraftProperty(q)
  \/ publishDraft(q) \/ GoLive(q)
  \/ \E to \in Terms : EditListing(q, to)
  \/ \E n \in Numbers : rollbackToVersion(q, n)
  \/ ReadBefore(q) \/ updateProperty(q) \/ WriteSlug(q)
  \/ next_property_version(q) \/ recordPropertyVersion(q)
  \/ Fail(q)

Guest(g) ==
  \/ createBooking(g) \/ assertQuotedTotal(g)
  \/ captureListingTermsSnapshot(g) \/ StoreTerms(g)
  \/ GiveUp(g)

Next == (\E q \in Requests : Host(q)) \/ (\E g \in Guests : Guest(g))

Spec == Init /\ [][Next]_vars

-----------------------------------------------------------------------------
Revisions == 0 .. MaxWrites

RequestType ==
  {Idle, [op |-> "publish"]}
    \cup [op : {"save"}, to : Terms, checked : BOOLEAN, seen : Terms, stamp : Revisions]
    \cup [op : {"edit"}, to : Terms]
    \cup [op : {"write", "slug"}, to : Terms, before : SUBSET Terms]
    \cup [op : {"record"}, after : Terms]
    \cup [op : {"insert"}, number : Nat \ {0}, after : Terms]

BookingType ==
  {NoBooking, [step |-> "open"]}
    \cup [step : {"priced"}, charged : Terms]
    \cup [step : {"agreed"}, charged : Terms, terms : Terms]
    \cup [step : {"booked"}, charged : Terms, terms : Terms, revision : Nat]

\* Rows and requests are well formed.
TypeOK ==
  /\ row \in [terms : Terms, active : BOOLEAN, slug : BOOLEAN, stamp : Revisions]
  /\ versions \in [Numbers -> Terms] /\ Numbers \subseteq Nat
  /\ request \in [Requests -> RequestType]
  /\ booking \in [Guests -> BookingType]

\* The versions of a listing are numbered 1, 2, ... without a gap, whatever
\* edits record theirs together and whatever calls go unanswered, and every
\* revision a booking names is the number of a version, or 0.
VersionsNumbered ==
  /\ \A n \in Numbers : n > 0 /\ 1 .. n \subseteq Numbers
  /\ \A g \in Guests : booking[g].step = "booked"
       => booking[g].revision \in Numbers \cup {0}

\* History is only added to: no version is changed or removed, by edits that
\* take the same number at the same time or by a rollback.
VersionsKept ==
  [][\A n \in Numbers : n \in Numbers' /\ versions'[n] = versions[n]]_vars

\* An editor that sends the updated_at it loaded never overwrites terms it has
\* not seen: what its save replaces is what it loaded, though other tabs save,
\* publish and edit in between.
SavesWhatItSaw ==
  [][\A q \in Requests :
       /\ request[q].op = "save" /\ request[q].checked
       /\ request'[q] # request[q]
       /\ row' # row
       => row.terms = request[q].seen]_vars
=============================================================================
