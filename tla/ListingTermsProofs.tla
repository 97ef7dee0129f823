------------------------- MODULE ListingTermsProofs -------------------------
(***************************************************************************)
(* Versions and draft saves of ListingTerms, for any terms and any number  *)
(* of the host's requests, guests and writes.                              *)
(***************************************************************************)
EXTENDS ListingTerms, TLAPS

\* The numbers in use are 1 .. n, a number waiting to be inserted is at most
\* the next one, and a booking's revision is one of them.
CountTo(n) ==
  /\ Numbers = 1 .. n
  /\ \A q \in Requests : request[q].op = "insert" => request[q].number \in 1 .. n + 1
  /\ \A g \in Guests : booking[g].step = "booked" => booking[g].revision \in 0 .. n

Counted == \E n \in Nat : CountTo(n)

\* Every write moves the stamp, so a stamp that still stands vouches for the terms.
SaveVouched(q) ==
  request[q].op = "save"
  => /\ request[q].stamp <= row.stamp
     /\ request[q].stamp = row.stamp => request[q].seen = row.terms

Vouched == \A q \in Requests : SaveVouched(q)

Inv == TypeOK /\ Counted /\ Vouched

Row == [terms : Terms, active : BOOLEAN, slug : BOOLEAN, stamp : Revisions]
Saving == [op : {"save"}, to : Terms, checked : BOOLEAN, seen : Terms, stamp : Revisions]
Editing == [op : {"edit"}, to : Terms]
Writing == [op : {"write", "slug"}, to : Terms, before : SUBSET Terms]
Recording == [op : {"record"}, after : Terms]
Inserting == [op : {"insert"}, number : Nat \ {0}, after : Terms]

\* What a checked save replaces is what its editor loaded.
SavedSeen ==
  \A q \in Requests :
    /\ request[q].op = "save" /\ request[q].checked
    /\ request'[q] # request[q]
    /\ row' # row
    => row.terms = request[q].seen

Kept == \A n \in Numbers : n \in Numbers' /\ versions'[n] = versions[n]

-----------------------------------------------------------------------------
LEMMA Shapes ==
  ASSUME TypeOK, NEW q \in Requests
  PROVE  /\ request[q] \in RequestType
         /\ request[q].op = "save" => request[q] \in Saving
         /\ request[q].op = "edit" => request[q] \in Editing
         /\ request[q].op \in {"write", "slug"} => request[q] \in Writing
         /\ request[q].op = "record" => request[q] \in Recording
         /\ request[q].op = "insert" => request[q] \in Inserting
<1>1. request[q] \in RequestType
  BY DEF TypeOK
<1>2. request[q].op = "save" => request[q] \in Saving
  BY <1>1 DEF RequestType, Idle, Saving
<1>3. request[q].op = "edit" => request[q] \in Editing
  BY <1>1 DEF RequestType, Idle, Editing
<1>4. request[q].op \in {"write", "slug"} => request[q] \in Writing
  BY <1>1 DEF RequestType, Idle, Writing
<1>5. request[q].op = "record" => request[q] \in Recording
  BY <1>1 DEF RequestType, Idle, Recording
<1>6. request[q].op = "insert" => request[q] \in Inserting
  BY <1>1 DEF RequestType, Idle, Inserting
<1> QED BY <1>1, <1>2, <1>3, <1>4, <1>5, <1>6

LEMMA Members ==
  /\ Idle \in RequestType /\ [op |-> "publish"] \in RequestType
  /\ Saving \subseteq RequestType /\ Editing \subseteq RequestType
  /\ Writing \subseteq RequestType /\ Recording \subseteq RequestType
  /\ Inserting \subseteq RequestType
BY DEF RequestType, Saving, Editing, Writing, Recording, Inserting

LEMMA LatestIsTheCount ==
  ASSUME NEW n \in Nat, Numbers = 1 .. n
  PROVE  Latest = n
<1>1. n \in Numbers \cup {0} /\ \A m \in Numbers : m <= n
  OBVIOUS
<1>2. Latest \in Numbers \cup {0} /\ \A m \in Numbers : m <= Latest
  BY <1>1 DEF Latest
<1> QED BY <1>2

\* The new state of a request that counts nothing and vouches for nothing.
LEMMA RequestReplaced ==
  ASSUME Inv, NEW q \in Requests, NEW t \in RequestType, t.op \notin {"insert", "save"},
         request' = [request EXCEPT ![q] = t],
         UNCHANGED <<versions, booking>>, row' = row
  PROVE  Inv'
<1>1. request \in [Requests -> RequestType]
  BY DEF Inv, TypeOK
<1>2. TypeOK'
  BY <1>1 DEF Inv, TypeOK, Numbers
<1>3. Counted'
  BY <1>1 DEF Inv, Counted, CountTo, Numbers
<1>4. Vouched'
  BY <1>1 DEF Inv, Vouched, SaveVouched
<1> QED BY <1>2, <1>3, <1>4 DEF Inv

LEMMA RowTyped ==
  ASSUME Inv
  PROVE  /\ \A terms \in Terms : [row EXCEPT !.terms = terms] \in Row
         /\ [row EXCEPT !.active = TRUE] \in Row /\ [row EXCEPT !.slug = TRUE] \in Row
BY DEF Inv, TypeOK, Row

\* The row is written, and the writer has nothing more to vouch for.
LEMMA RowWritten ==
  ASSUME Inv, NEW q \in Requests, NEW t \in RequestType, t.op \notin {"insert", "save"},
         request' = [request EXCEPT ![q] = t],
         NEW to \in Row, Write(to),
         UNCHANGED <<versions, booking>>
  PROVE  Inv'
<1>1. request \in [Requests -> RequestType] /\ row \in Row
  BY DEF Inv, TypeOK, Row
<1>2. row.stamp \in 0 .. MaxWrites
  BY <1>1 DEF Row, Revisions
<1>3. row' \in Row /\ row'.stamp = row.stamp + 1
  BY <1>2, BoundAssumption DEF Write, Row, Revisions
<1>4. TypeOK'
  BY <1>1, <1>3 DEF Inv, TypeOK, Numbers, Row
<1>5. Counted'
  BY <1>1 DEF Inv, Counted, CountTo, Numbers
<1>6. ASSUME NEW p \in Requests, request'[p].op = "save"
      PROVE  request'[p].stamp < row'.stamp
  <2>1. p # q /\ request'[p] = request[p]
    BY <1>1, <1>6
  <2>2. request[p] \in Saving
    BY <1>6, <2>1, Shapes DEF Inv
  <2>3. request[p].stamp \in 0 .. MaxWrites
    BY <2>2 DEF Saving, Revisions
  <2>4. request[p].stamp <= row.stamp
    BY <1>6, <2>1 DEF Inv, Vouched, SaveVouched
  <2> QED BY <1>2, <1>3, <2>1, <2>3, <2>4, BoundAssumption
<1>7. Vouched'
  <2> SUFFICES ASSUME NEW p \in Requests, request'[p].op = "save"
               PROVE  /\ request'[p].stamp <= row'.stamp
                      /\ request'[p].stamp # row'.stamp
    BY DEF Vouched, SaveVouched
  <2>1. request'[p].stamp < row'.stamp
    BY <1>6
  <2>2. request'[p] = request[p]
    BY <1>1
  <2>3. request'[p].stamp \in Nat
    BY <2>2, Shapes DEF Inv, Saving, Revisions
  <2> QED BY <1>2, <1>3, <2>1, <2>3, BoundAssumption
<1> QED BY <1>4, <1>5, <1>7 DEF Inv

LEMMA IdleTyped == Idle \in RequestType /\ Idle.op \notin {"insert", "save"}
BY Members DEF Idle

-----------------------------------------------------------------------------
\* One lemma per step of the host.

LEMMA LoadStep ==
  ASSUME Inv, NEW q \in Requests, getDraftProperty(q)
  PROVE  Inv' /\ SavedSeen /\ Kept
<1>1. PICK checked \in BOOLEAN, to \in Terms :
        Begin(q, [op |-> "save", to |-> to, checked |-> checked,
                  seen |-> row.terms, stamp |-> row.stamp])
  BY DEF getDraftProperty
<1> DEFINE t == [op |-> "save", to |-> to, checked |-> checked,
                 seen |-> row.terms, stamp |-> row.stamp]
<1>2. request \in [Requests -> RequestType] /\ row \in Row
  BY DEF Inv, TypeOK, Row
<1>3. row.terms \in Terms /\ row.stamp \in Revisions
  BY <1>2 DEF Row
<1>4. t \in Saving /\ t.op = "save" /\ t.seen = row.terms /\ t.stamp = row.stamp
  BY <1>3 DEF Saving
<1>5. request' = [request EXCEPT ![q] = t] /\ UNCHANGED <<row, versions, booking>>
  BY <1>1 DEF Begin
<1> HIDE DEF t
<1>6. TypeOK'
  BY <1>2, <1>4, <1>5, Members DEF Inv, TypeOK, Numbers
<1>7. Counted'
  BY <1>2, <1>4, <1>5 DEF Inv, Counted, CountTo, Numbers
<1>8. ASSUME NEW p \in Requests
      PROVE  SaveVouched(p)'
  <2>1. CASE p = q
    <3>1. request'[p] = t
      BY <1>2, <1>5, <2>1
    <3>2. row.stamp <= row.stamp
      BY <1>3, BoundAssumption DEF Revisions
    <3> QED BY <1>4, <1>5, <3>1, <3>2 DEF SaveVouched
  <2>2. CASE p # q
    BY <1>2, <1>5, <2>2 DEF Inv, Vouched, SaveVouched
  <2> QED BY <2>1, <2>2
<1> QED BY <1>5, <1>6, <1>7, <1>8 DEF Inv, Vouched, SavedSeen, Kept, Numbers

LEMMA SaveStep ==
  ASSUME Inv, NEW q \in Requests, updateDraftProperty(q)
  PROVE  Inv' /\ SavedSeen /\ Kept
<1>1. request[q].op = "save" /\ request[q] \in Saving
  BY Shapes DEF updateDraftProperty, Inv
<1>2. request[q].to \in Terms /\ request[q].checked \in BOOLEAN
  BY <1>1 DEF Saving
<1>3. request' = [request EXCEPT ![q] = Idle] /\ UNCHANGED <<versions, booking>>
  BY DEF updateDraftProperty, Finish
<1>4. CASE ~row.active /\ Unchanged(request[q])
  <2>1. Write([row EXCEPT !.terms = request[q].to])
    BY <1>4 DEF updateDraftProperty
  <2>2. Inv'
    BY <1>2, <1>3, <2>1, IdleTyped, RowTyped, RowWritten
  <2>3. request[q].checked => row.terms = request[q].seen
    BY <1>1, <1>4 DEF Unchanged, Inv, Vouched, SaveVouched
  <2>4. \A p \in Requests : request'[p] # request[p] => p = q
    BY <1>3 DEF Inv, TypeOK
  <2> QED BY <1>3, <2>2, <2>3, <2>4 DEF SavedSeen, Kept, Numbers
<1>5. CASE ~(~row.active /\ Unchanged(request[q]))
  <2>1. row' = row
    BY <1>5 DEF updateDraftProperty
  <2>2. Inv'
    BY <1>3, <2>1, IdleTyped, RequestReplaced
  <2> QED BY <1>3, <2>1, <2>2 DEF SavedSeen, Kept, Numbers
<1> QED BY <1>4, <1>5

LEMMA BeginStep ==
  ASSUME Inv, NEW q \in Requests, NEW t \in RequestType, t.op \notin {"insert", "save"},
         Begin(q, t)
  PROVE  Inv' /\ SavedSeen /\ Kept
<1>1. Inv'
  BY RequestReplaced DEF Begin
<1> QED BY <1>1 DEF Begin, SavedSeen, Kept, Numbers

LEMMA PublishStep ==
  ASSUME Inv, NEW q \in Requests, publishDraft(q) \/ GoLive(q)
  PROVE  Inv' /\ SavedSeen /\ Kept
<1>1. CASE publishDraft(q)
  <2> DEFINE t == [op |-> "publish"]
  <2>1. t \in RequestType /\ t.op \notin {"insert", "save"} /\ Begin(q, t)
    BY <1>1, Members DEF publishDraft
  <2> HIDE DEF t
  <2> QED BY <2>1, BeginStep
<1>2. CASE GoLive(q)
  <2>1. request' = [request EXCEPT ![q] = Idle] /\ UNCHANGED <<versions, booking>>
    BY <1>2 DEF GoLive, Finish
  <2>2. row' = row \/ Write([row EXCEPT !.active = TRUE])
    BY <1>2 DEF GoLive
  <2>3. Inv'
    BY <2>1, <2>2, IdleTyped, RowTyped, RequestReplaced, RowWritten
  <2>4. \A p \in Requests : request'[p] # request[p] => p = q
    BY <2>1 DEF Inv, TypeOK
  <2> QED BY <1>2, <2>1, <2>3, <2>4 DEF GoLive, SavedSeen, Kept, Numbers
<1> QED BY <1>1, <1>2

LEMMA EditStep ==
  ASSUME Inv, NEW q \in Requests,
         \/ \E to \in Terms : EditListing(q, to)
         \/ \E n \in Numbers : rollbackToVersion(q, n)
  PROVE  Inv' /\ SavedSeen /\ Kept
<1>1. PICK to \in Terms : Begin(q, [op |-> "edit", to |-> to])
  <2>1. \A n \in Numbers : versions[n] \in Terms
    BY DEF Inv, TypeOK
  <2> QED BY <2>1 DEF EditListing, rollbackToVersion
<1> DEFINE t == [op |-> "edit", to |-> to]
<1>2. t \in RequestType /\ t.op \notin {"insert", "save"}
  BY Members DEF Editing
<1>3. Begin(q, t)
  BY <1>1
<1> HIDE DEF t
<1> QED BY <1>2, <1>3, BeginStep

LEMMA ReadStep ==
  ASSUME Inv, NEW q \in Requests, ReadBefore(q)
  PROVE  Inv' /\ SavedSeen /\ Kept
<1>1. PICK before \in {{row.terms}, {}} :
        request' = [request EXCEPT ![q] =
                      [op |-> "write", to |-> request[q].to, before |-> before]]
  BY DEF ReadBefore
<1> DEFINE t == [op |-> "write", to |-> request[q].to, before |-> before]
<1>2. request[q] \in Editing /\ row \in Row
  BY Shapes DEF ReadBefore, Inv, TypeOK, Row
<1>3. request[q].to \in Terms /\ before \in SUBSET Terms
  BY <1>2 DEF Editing, Row
<1>4. t \in RequestType /\ t.op \notin {"insert", "save"}
  BY <1>3, Members DEF Writing
<1>5. request' = [request EXCEPT ![q] = t] /\ UNCHANGED <<row, versions, booking>>
  BY <1>1 DEF ReadBefore
<1> HIDE DEF t
<1>6. Inv'
  BY <1>4, <1>5, RequestReplaced
<1> QED BY <1>5, <1>6 DEF SavedSeen, Kept, Numbers

LEMMA UpdatedTyped ==
  ASSUME NEW t \in Writing
  PROVE  Updated(t) \in RequestType /\ Updated(t).op \notin {"insert", "save"}
<1>1. t.to \in Terms
  BY DEF Writing
<1>2. [op |-> "record", after |-> t.to] \in RequestType
  BY <1>1, Members DEF Recording
<1> QED BY <1>2, IdleTyped DEF Updated

LEMMA UpdateStep ==
  ASSUME Inv, NEW q \in Requests, updateProperty(q)
  PROVE  Inv' /\ SavedSeen /\ Kept
<1> DEFINE t == IF row.slug THEN Updated(request[q]) ELSE [request[q] EXCEPT !.op = "slug"]
<1>1. request[q].op = "write" /\ request[q] \in Writing
  BY Shapes DEF updateProperty, Inv
<1>2. request[q].to \in Terms /\ [request[q] EXCEPT !.op = "slug"] \in Writing
  BY <1>1 DEF Writing
<1>3. t \in RequestType /\ t.op \notin {"insert", "save"}
  BY <1>1, <1>2, Members, UpdatedTyped DEF Writing
<1>4. request' = [request EXCEPT ![q] = t] /\ UNCHANGED <<versions, booking>>
  BY DEF updateProperty
<1> HIDE DEF t
<1>5. Inv'
  BY <1>2, <1>3, <1>4, RowTyped, RowWritten DEF updateProperty
<1>6. \A p \in Requests : request'[p] # request[p] => p = q
  BY <1>4 DEF Inv, TypeOK
<1> QED BY <1>1, <1>4, <1>5, <1>6 DEF SavedSeen, Kept, Numbers

LEMMA SlugStep ==
  ASSUME Inv, NEW q \in Requests, WriteSlug(q)
  PROVE  Inv' /\ SavedSeen /\ Kept
<1> DEFINE t == Updated(request[q])
<1>1. request[q].op = "slug" /\ request[q] \in Writing
  BY Shapes DEF WriteSlug, Inv
<1>2. t \in RequestType /\ t.op \notin {"insert", "save"}
  BY <1>1, UpdatedTyped
<1>3. request' = [request EXCEPT ![q] = t] /\ UNCHANGED <<versions, booking>>
  BY DEF WriteSlug
<1>4. Write([row EXCEPT !.slug = TRUE]) \/ row' = row
  BY DEF WriteSlug
<1> HIDE DEF t
<1>5. Inv'
  BY <1>2, <1>3, <1>4, RowTyped, RowWritten, RequestReplaced
<1>6. \A p \in Requests : request'[p] # request[p] => p = q
  BY <1>3 DEF Inv, TypeOK
<1> QED BY <1>1, <1>3, <1>5, <1>6 DEF SavedSeen, Kept, Numbers

LEMMA NumberStep ==
  ASSUME Inv, NEW q \in Requests, next_property_version(q)
  PROVE  Inv' /\ SavedSeen /\ Kept
<1>1. PICK n \in Nat : CountTo(n)
  BY DEF Inv, Counted
<1>2. Latest = n
  BY <1>1, LatestIsTheCount DEF CountTo
<1>3. PICK k \in {n + 1, 1} :
        request' = [request EXCEPT ![q] = [op |-> "insert", number |-> k,
                                           after |-> request[q].after]]
  BY <1>2 DEF next_property_version, NextNumber
<1> DEFINE t == [op |-> "insert", number |-> k, after |-> request[q].after]
<1>4. request[q].after \in Terms
  BY Shapes DEF next_property_version, Inv, Recording
<1>5. k \in 1 .. n + 1
  OBVIOUS
<1>6. t \in RequestType /\ t.op = "insert" /\ t.number = k
  BY <1>4, <1>5, Members DEF Inserting
<1>7. request' = [request EXCEPT ![q] = t] /\ UNCHANGED <<row, versions, booking>>
  BY <1>3 DEF next_property_version
<1> HIDE DEF t
<1>8. request \in [Requests -> RequestType]
  BY DEF Inv, TypeOK
<1>9. TypeOK'
  BY <1>6, <1>7, <1>8 DEF Inv, TypeOK, Numbers
<1>10. CountTo(n)'
  BY <1>1, <1>5, <1>6, <1>7, <1>8 DEF CountTo, Numbers
<1>11. Vouched'
  BY <1>6, <1>7, <1>8 DEF Inv, Vouched, SaveVouched
<1> QED BY <1>7, <1>9, <1>10, <1>11 DEF Inv, Counted, SavedSeen, Kept, Numbers

LEMMA RecordStep ==
  ASSUME Inv, NEW q \in Requests, recordPropertyVersion(q)
  PROVE  Inv' /\ SavedSeen /\ Kept
<1> DEFINE k == request[q].number
<1>1. PICK n \in Nat : CountTo(n)
  BY DEF Inv, Counted
<1>2. /\ request' = [request EXCEPT ![q] = Idle]
      /\ request[q].op = "insert" /\ UNCHANGED <<row, booking>>
  BY DEF recordPropertyVersion, Finish
<1>3. k \in 1 .. n + 1 /\ request[q].after \in Terms
  BY <1>1, <1>2, Shapes DEF CountTo, Inv, Inserting
<1>4. CASE Taken(k)
  <2>1. UNCHANGED versions
    BY <1>4 DEF recordPropertyVersion
  <2>2. Inv'
    BY <1>2, <2>1, IdleTyped, RequestReplaced
  <2> QED BY <1>2, <2>1, <2>2 DEF SavedSeen, Kept, Numbers
<1>5. CASE ~Taken(k)
  <2>1. versions' = [j \in Numbers \cup {k} |->
                       IF j = k THEN request[q].after ELSE versions[j]]
    BY <1>5 DEF recordPropertyVersion
  <2>2. Numbers = 1 .. n /\ k = n + 1
    BY <1>1, <1>3, <1>5 DEF CountTo, Taken
  <2>3. Numbers' = 1 .. n + 1
    BY <2>1, <2>2 DEF Numbers
  <2>4. versions' \in [Numbers' -> Terms] /\ Numbers' \subseteq Nat
    BY <1>3, <2>1, <2>2, <2>3 DEF Inv, TypeOK, Numbers
  <2>5. request \in [Requests -> RequestType]
    BY DEF Inv, TypeOK
  <2>6. request' \in [Requests -> RequestType]
    BY <1>2, <2>5, IdleTyped
  <2>7. TypeOK'
    BY <1>2, <2>4, <2>6 DEF Inv, TypeOK
  <2>8. ASSUME NEW p \in Requests, request'[p].op = "insert"
        PROVE  request'[p].number \in 1 .. (n + 1) + 1
    <3>1. request'[p] = request[p]
      BY <1>2, <2>5, <2>8, IdleTyped
    <3>2. request[p].number \in 1 .. n + 1
      BY <1>1, <2>8, <3>1 DEF CountTo
    <3> QED BY <3>1, <3>2
  <2>9. ASSUME NEW g \in Guests, booking'[g].step = "booked"
        PROVE  booking'[g].revision \in 0 .. n + 1
    <3>1. booking[g].revision \in 0 .. n
      BY <1>1, <1>2, <2>9 DEF CountTo
    <3> QED BY <1>2, <3>1
  <2>10. n + 1 \in Nat /\ CountTo(n + 1)'
    BY <2>3, <2>8, <2>9 DEF CountTo
  <2>11. Vouched'
    BY <1>2, <2>5, IdleTyped DEF Inv, Vouched, SaveVouched
  <2>12. Counted'
    BY <2>10 DEF Counted
  <2>13. Kept
    BY <2>1, <2>2, <2>3 DEF Kept
  <2> QED BY <1>2, <2>7, <2>11, <2>12, <2>13 DEF Inv, SavedSeen
<1> QED BY <1>4, <1>5

LEMMA FailStep ==
  ASSUME Inv, NEW q \in Requests, Fail(q)
  PROVE  Inv' /\ SavedSeen /\ Kept
<1>1. Inv'
  BY IdleTyped, RequestReplaced DEF Fail, Finish
<1> QED BY <1>1 DEF Fail, SavedSeen, Kept, Numbers

-----------------------------------------------------------------------------
\* A creation goes on: only its revision, once it has one, is at stake.

LEMMA CreationGoesOn ==
  ASSUME Inv, NEW g \in Guests, NEW b \in BookingType, Proceed(g, b),
         b.step = "booked" => b.revision \in Numbers \cup {0}
  PROVE  Inv' /\ SavedSeen /\ Kept
<1>1. PICK n \in Nat : CountTo(n)
  BY DEF Inv, Counted
<1>2. booking \in [Guests -> BookingType]
  BY DEF Inv, TypeOK
<1>3. booking' = [booking EXCEPT ![g] = b] /\ UNCHANGED <<row, versions, request>>
  BY DEF Proceed
<1>4. TypeOK'
  BY <1>2, <1>3 DEF Inv, TypeOK, Numbers
<1>5. b.step = "booked" => b.revision \in 0 .. n
  BY <1>1 DEF CountTo
<1>6. CountTo(n)'
  BY <1>1, <1>2, <1>3, <1>5 DEF CountTo, Numbers
<1>7. Counted' /\ Vouched'
  BY <1>3, <1>6 DEF Inv, Counted, Vouched, SaveVouched
<1> QED BY <1>3, <1>4, <1>7 DEF Inv, SavedSeen, Kept, Numbers

LEMMA GuestStep ==
  ASSUME Inv, NEW g \in Guests, Guest(g)
  PROVE  Inv' /\ SavedSeen /\ Kept
<1>1. row.terms \in Terms /\ booking[g] \in BookingType
  BY DEF Inv, TypeOK
<1>2. CASE createBooking(g)
  <2> DEFINE b == [step |-> "open"]
  <2>1. b \in BookingType /\ b.step # "booked" /\ Proceed(g, b)
    BY <1>2 DEF createBooking, BookingType
  <2> HIDE DEF b
  <2> QED BY <2>1, CreationGoesOn
<1>3. CASE assertQuotedTotal(g)
  <2> DEFINE b == [step |-> "priced", charged |-> row.terms]
  <2>1. b \in BookingType /\ b.step # "booked" /\ Proceed(g, b)
    BY <1>1, <1>3 DEF assertQuotedTotal, BookingType
  <2> HIDE DEF b
  <2> QED BY <2>1, CreationGoesOn
<1>4. CASE captureListingTermsSnapshot(g)
  <2> DEFINE b == [step |-> "agreed", charged |-> booking[g].charged, terms |-> row.terms]
  <2>1. booking[g].charged \in Terms
    BY <1>1, <1>4 DEF captureListingTermsSnapshot, BookingType, NoBooking
  <2>2. b \in BookingType /\ b.step # "booked" /\ Proceed(g, b)
    BY <1>1, <1>4, <2>1 DEF captureListingTermsSnapshot, BookingType
  <2> HIDE DEF b
  <2> QED BY <2>2, CreationGoesOn
<1>5. CASE StoreTerms(g)
  <2>1. PICK m \in {Latest, 0} :
          Proceed(g, [step |-> "booked", charged |-> booking[g].charged,
                      terms |-> booking[g].terms, revision |-> m])
    BY <1>5 DEF StoreTerms
  <2> DEFINE b == [step |-> "booked", charged |-> booking[g].charged,
                   terms |-> booking[g].terms, revision |-> m]
  <2>2. booking[g].charged \in Terms /\ booking[g].terms \in Terms
    BY <1>1, <1>5 DEF StoreTerms, BookingType, NoBooking
  <2>3. PICK n \in Nat : CountTo(n)
    BY DEF Inv, Counted
  <2>4. m \in Nat /\ m \in Numbers \cup {0}
    BY <2>3, LatestIsTheCount DEF CountTo
  <2>5. b \in BookingType /\ b.revision = m /\ Proceed(g, b)
    BY <2>1, <2>2, <2>4 DEF BookingType
  <2> HIDE DEF b
  <2> QED BY <2>4, <2>5, CreationGoesOn
<1>6. CASE GiveUp(g)
  <2>1. NoBooking \in BookingType /\ NoBooking.step # "booked"
    BY DEF BookingType, NoBooking
  <2> QED BY <1>6, <2>1, CreationGoesOn DEF GiveUp
<1> QED BY <1>2, <1>3, <1>4, <1>5, <1>6 DEF Guest

-----------------------------------------------------------------------------
LEMMA Initially == Init => Inv
<1> SUFFICES ASSUME Init PROVE Inv
  OBVIOUS
<1>1. Numbers = {}
  BY DEF Init, Numbers
<1>2. row \in Row
  <2>1. 0 \in Revisions
    BY BoundAssumption DEF Revisions
  <2> QED BY <2>1 DEF Init, Row
<1>3. request \in [Requests -> RequestType] /\ \A q \in Requests : request[q] = Idle
  BY IdleTyped DEF Init
<1>4. NoBooking \in BookingType /\ NoBooking.step # "booked"
  BY DEF NoBooking, BookingType
<1>5. booking \in [Guests -> BookingType] /\ \A g \in Guests : booking[g] = NoBooking
  BY <1>4 DEF Init
<1>6. versions \in [Numbers -> Terms]
  BY <1>1 DEF Init, Numbers
<1>7. TypeOK
  BY <1>1, <1>2, <1>3, <1>5, <1>6 DEF TypeOK, Row
<1>8. CountTo(0)
  BY <1>1, <1>3, <1>4, <1>5, IdleTyped DEF CountTo
<1>9. Vouched
  BY <1>3, IdleTyped DEF Vouched, SaveVouched
<1> QED BY <1>7, <1>8, <1>9 DEF Inv, Counted

LEMMA Stepwise == Inv /\ [Next]_vars => Inv' /\ [SavedSeen /\ Kept]_vars
<1> SUFFICES ASSUME Inv, [Next]_vars PROVE Inv' /\ [SavedSeen /\ Kept]_vars
  OBVIOUS
<1>1. CASE UNCHANGED vars
  <2>1. TypeOK' /\ Counted' /\ Vouched'
    BY <1>1 DEF vars, Inv, TypeOK, Counted, CountTo, Vouched, SaveVouched, Numbers
  <2> QED BY <1>1, <2>1 DEF Inv
<1>2. CASE Next
  <2>1. ASSUME NEW q \in Requests, Host(q)
        PROVE  Inv' /\ SavedSeen /\ Kept
    BY <2>1, LoadStep, SaveStep, PublishStep, EditStep, ReadStep, UpdateStep, SlugStep, NumberStep,
       RecordStep, FailStep DEF Host
  <2> QED BY <1>2, <2>1, GuestStep DEF Next
<1> QED BY <1>1, <1>2

THEOREM InvariantHolds == Spec => []Inv
<1>1. Inv /\ [Next]_vars => Inv'
  BY Stepwise
<1> QED BY <1>1, Initially, PTL DEF Spec

\* Rows, versions, requests and bookings stay well formed.
THEOREM TypesCorrect == Spec => []TypeOK
<1>1. Inv => TypeOK
  BY DEF Inv
<1> QED BY <1>1, InvariantHolds, PTL

\* Versions are numbered without a gap, and bookings name revisions that exist.
THEOREM HistoryIsNumbered == Spec => []VersionsNumbered
<1>1. Inv => VersionsNumbered
  BY DEF Inv, Counted, CountTo, VersionsNumbered
<1> QED BY <1>1, InvariantHolds, PTL

\* No version is ever changed or removed.
THEOREM HistoryIsKept == Spec => VersionsKept
<1>1. Inv /\ [Next]_vars => [Kept]_vars
  BY Stepwise
<1>2. Spec => [][Kept]_vars
  BY <1>1, InvariantHolds, PTL DEF Spec
<1> QED BY <1>2 DEF VersionsKept, Kept

\* A save that carries the updated_at it loaded replaces what its editor saw.
THEOREM SavesSeeWhatTheyReplace == Spec => SavesWhatItSaw
<1>1. Inv /\ [Next]_vars => [SavedSeen]_vars
  BY Stepwise
<1>2. Spec => [][SavedSeen]_vars
  BY <1>1, InvariantHolds, PTL DEF Spec
<1> QED BY <1>2 DEF SavesWhatItSaw, SavedSeen
=============================================================================
