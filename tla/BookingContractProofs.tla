----------------------- MODULE BookingContractProofs -----------------------
(***************************************************************************)
(* What the two contracts guarantee for every set of accounts, tokens,     *)
(* dates and prices.  The proof is one inductive invariant, in parts: the  *)
(* types, the escrow's agreement with the status, the completeness of the  *)
(* per-property index, and the absence of overlaps, which needs the index. *)
(***************************************************************************)
EXTENDS BookingContract, FiniteSetTheorems, SequenceTheorems, TLAPS

\* The index create_booking consults misses no booking of the property.
IndexComplete ==
    \A b \in DOMAIN bookings : b \in propertyBookings[bookings[b].property_id]

\* Every call but create_booking changes one booking's status and escrow
\* fields, or none.
Update(id, status, escrow_status, escrow_id) ==
    bookings' = [bookings EXCEPT ![id] =
                   [bookings[id] EXCEPT !.status = status,
                                        !.escrow_status = escrow_status,
                                        !.escrow_id = escrow_id]]

-----------------------------------------------------------------------------
(* Lemmas about the storage and the token ledger.                          *)

\* Writing a booking back keeps the storage well formed, and every other
\* booking and every fixed field as they were.
LEMMA UpdateLemma ==
    ASSUME bookings \in Seq(Booking), NEW id \in DOMAIN bookings,
           NEW s \in BookingStatus, NEW e \in EscrowStatus,
           NEW x \in EscrowIds \cup {None}, Update(id, s, e, x)
    PROVE  /\ bookings' \in Seq(Booking)
           /\ Len(bookings') = Len(bookings)
           /\ DOMAIN bookings' = DOMAIN bookings
           /\ bookings'[id].status = s
           /\ bookings'[id].escrow_status = e
           /\ bookings'[id].escrow_id = x
           /\ \A b \in DOMAIN bookings : b # id => bookings'[b] = bookings[b]
           /\ \A b \in DOMAIN bookings :
                 /\ bookings'[b].property_id = bookings[b].property_id
                 /\ bookings'[b].property_owner = bookings[b].property_owner
                 /\ bookings'[b].tenant = bookings[b].tenant
                 /\ bookings'[b].total_price = bookings[b].total_price
                 /\ bookings'[b].check_in = bookings[b].check_in
                 /\ bookings'[b].check_out = bookings[b].check_out
  <1> DEFINE new == [bookings[id] EXCEPT !.status = s, !.escrow_status = e,
                                         !.escrow_id = x]
  <1>1. bookings[id] \in Booking
    OBVIOUS
  <1>2. /\ new \in Booking
        /\ new.status = s /\ new.escrow_status = e /\ new.escrow_id = x
        /\ new.property_id = bookings[id].property_id
        /\ new.property_owner = bookings[id].property_owner
        /\ new.tenant = bookings[id].tenant
        /\ new.total_price = bookings[id].total_price
        /\ new.check_in = bookings[id].check_in
        /\ new.check_out = bookings[id].check_out
    BY <1>1 DEF Booking
  <1>3. bookings' = [bookings EXCEPT ![id] = new]
    BY DEF Update
  <1> HIDE DEF new
  <1>4. /\ bookings' \in Seq(Booking)
        /\ Len(bookings') = Len(bookings)
        /\ DOMAIN bookings' = DOMAIN bookings
        /\ bookings'[id] = new
        /\ \A b \in DOMAIN bookings : b # id => bookings'[b] = bookings[b]
    BY <1>2, <1>3
  <1> QED
    BY <1>2, <1>4

\* A transfer between two holders keeps every balance a natural number.
LEMMA TransferLemma ==
    ASSUME balances \in [Tokens -> [Holders -> Nat]],
           NEW from \in Holders, NEW to \in Holders, NEW amount \in Nat,
           transfer(from, to, amount)
    PROVE  balances' \in [Tokens -> [Holders -> Nat]]
  <1> DEFINE row == [h \in Holders |-> balances[token_addr][h]
                        - (IF h = from THEN amount ELSE 0)
                        + (IF h = to THEN amount ELSE 0)]
  <1>1. balances' = [balances EXCEPT ![token_addr] = row] /\ token_addr \in Tokens
    BY DEF transfer
  <1>2. row \in [Holders -> Nat]
    BY DEF transfer
  <1> HIDE DEF row
  <1> QED
    BY <1>1, <1>2

\* How one call may change a booking's status and escrow status.
Allowed(s, e, s2, e2) ==
    \/ s2 = s /\ e2 = e
    \/ s = "Pending" /\ e = "NotFunded" /\ s2 = "Pending" /\ e2 = "Funded"
    \/ /\ s \in {"Pending", "Confirmed"} /\ s2 = "Cancelled"
       /\ e2 = IF e = "Funded" THEN "Refunded" ELSE e
    \/ /\ s = "Pending" /\ s2 = "Confirmed"
       /\ e2 = IF e = "Funded" THEN "Released" ELSE e
    \/ s = "Confirmed" /\ s2 = "Completed" /\ e2 = e
    \/ s \in {"Pending", "Confirmed"} /\ e = "Funded" /\ s2 = "Disputed" /\ e2 = e
    \/ s = "Disputed" /\ s2 = "Completed" /\ e2 = "Released"
    \/ s = "Disputed" /\ s2 = "Cancelled" /\ e2 = "Refunded"

AllowedUpdate(id) ==
    \E s \in BookingStatus, e \in EscrowStatus, x \in EscrowIds \cup {None} :
        /\ Update(id, s, e, x)
        /\ Allowed(bookings[id].status, bookings[id].escrow_status, s, e)

\* What a stored booking is made of.
LEMMA FieldsLemma ==
    ASSUME bookings \in Seq(Booking), NEW id \in DOMAIN bookings
    PROVE  /\ bookings[id] \in Booking
           /\ bookings[id].status \in BookingStatus
           /\ bookings[id].escrow_status \in EscrowStatus
           /\ bookings[id].escrow_id \in EscrowIds \cup {None}
           /\ bookings[id].tenant \in Accounts
           /\ bookings[id].property_owner \in Accounts
           /\ bookings[id].property_id \in PropertyIds
           /\ bookings[id].total_price \in Prices
           /\ bookings[id].total_price \in Nat
           /\ bookings[id].check_in \in Int
           /\ bookings[id].check_out \in Int
  <1>1. bookings[id] \in Booking
    OBVIOUS
  <1>2. ASSUME NEW p \in Prices
        PROVE  p \in Nat
    <2>1. p \in PriceInputs /\ p > 0
      BY DEF Prices
    <2>2. p \in Int
      BY <2>1, PriceInputsAssumption
    <2> QED
      BY <2>1, <2>2
  <1>3. /\ bookings[id].property_id \in PropertyIds
        /\ bookings[id].total_price \in Prices
    BY <1>1 DEF Booking
  <1>4. /\ bookings[id].property_owner \in Accounts
        /\ bookings[id].tenant \in Accounts
        /\ bookings[id].status \in BookingStatus
        /\ bookings[id].escrow_status \in EscrowStatus
        /\ bookings[id].escrow_id \in EscrowIds \cup {None}
    BY <1>1 DEF Booking
  <1>5. bookings[id].check_in \in Int /\ bookings[id].check_out \in Int
    BY <1>1 DEF Booking
  <1> QED
    BY <1>1, <1>2, <1>3, <1>4, <1>5

\* The three ways the calls write a booking are updates of these fields.
LEMMA WriteLemma ==
    ASSUME bookings \in Seq(Booking), NEW id \in DOMAIN bookings
    PROVE  /\ \A s \in BookingStatus, e \in EscrowStatus :
                 SetBooking(id, s, e) => Update(id, s, e, bookings[id].escrow_id)
           /\ \A s \in BookingStatus :
                 bookings' = [bookings EXCEPT ![id].status = s] =>
                     Update(id, s, bookings[id].escrow_status, bookings[id].escrow_id)
           /\ \A x \in EscrowIds :
                 bookings' = [bookings EXCEPT ![id].escrow_id = x] =>
                     Update(id, bookings[id].status, bookings[id].escrow_status, x)
  <1>1. bookings[id] \in Booking
    OBVIOUS
  <1> QED
    BY <1>1 DEF SetBooking, Update, Booking

BookingCall(id) ==
    \E a \in Accounts :
        \/ fund_escrow(a, id)
        \/ cancel_booking(a, id)
        \/ update_status(a, id)
        \/ dispute_booking(a, id)
        \/ \E r \in BOOLEAN : resolve_dispute(a, id, r)
        \/ \E e \in EscrowIds : set_escrow_id(a, id, e)

LEMMA SettleLemma ==
    ASSUME bookings \in Seq(Booking), balances \in [Tokens -> [Holders -> Nat]],
           NEW id \in DOMAIN bookings, NEW to \in Accounts,
           NEW s \in BookingStatus, NEW e \in EscrowStatus,
           SettleIfFunded(id, to, s, e)
    PROVE  /\ balances' \in [Tokens -> [Holders -> Nat]]
           /\ Update(id, s, IF bookings[id].escrow_status = "Funded" THEN e
                            ELSE bookings[id].escrow_status, bookings[id].escrow_id)
  <1>0. /\ bookings[id].total_price \in Nat
        /\ bookings[id].escrow_status \in EscrowStatus
    BY FieldsLemma
  <1>1. CASE bookings[id].escrow_status = "Funded"
    <2>1. transfer(Vault, to, bookings[id].total_price) /\ SetBooking(id, s, e)
      BY <1>1 DEF SettleIfFunded
    <2> QED
      BY <2>1, <1>0, <1>1, WriteLemma, TransferLemma DEF Holders
  <1>2. CASE bookings[id].escrow_status # "Funded"
    <2>1. bookings' = [bookings EXCEPT ![id].status = s] /\ UNCHANGED balances
      BY <1>2 DEF SettleIfFunded
    <2> QED
      BY <2>1, <1>2, WriteLemma
  <1> QED
    BY <1>1, <1>2

\* Every call on an existing booking is an allowed update of that booking, and
\* leaves the ledger of tokens well formed.
LEMMA CallLemma ==
    ASSUME TypeOK, NEW id \in DOMAIN bookings, BookingCall(id)
    PROVE  /\ AllowedUpdate(id)
           /\ balances' \in [Tokens -> [Holders -> Nat]]
           /\ UNCHANGED << listings, admin, token_addr, propertyBookings >>
  <1> USE DEF TypeOK
  <1>0. /\ bookings[id].status \in BookingStatus
        /\ bookings[id].escrow_status \in EscrowStatus
        /\ bookings[id].escrow_id \in EscrowIds \cup {None}
        /\ bookings[id].total_price \in Nat
        /\ bookings[id].tenant \in Accounts
        /\ bookings[id].property_owner \in Accounts
        /\ bookings \in Seq(Booking)
        /\ balances \in [Tokens -> [Holders -> Nat]]
    BY FieldsLemma
  <1> SUFFICES ASSUME NEW a \in Accounts,
                      \/ fund_escrow(a, id)
                      \/ cancel_booking(a, id)
                      \/ update_status(a, id)
                      \/ dispute_booking(a, id)
                      \/ \E r \in BOOLEAN : resolve_dispute(a, id, r)
                      \/ \E e \in EscrowIds : set_escrow_id(a, id, e)
               PROVE  /\ AllowedUpdate(id)
                      /\ balances' \in [Tokens -> [Holders -> Nat]]
                      /\ UNCHANGED << listings, admin, token_addr, propertyBookings >>
    BY DEF BookingCall
  <1> DEFINE e0 == bookings[id].escrow_status
             x0 == bookings[id].escrow_id
  <1>1. CASE fund_escrow(a, id)
    <2>1. Update(id, "Pending", "Funded", x0)
      BY <1>0, <1>1, WriteLemma DEF fund_escrow, BookingStatus, EscrowStatus
    <2>2. balances' \in [Tokens -> [Holders -> Nat]]
      BY <1>0, <1>1, TransferLemma DEF fund_escrow, Holders
    <2> QED
      BY <2>1, <2>2, <1>0, <1>1
         DEF fund_escrow, AllowedUpdate, Allowed, BookingStatus, EscrowStatus
  <1>2. CASE cancel_booking(a, id)
    <2>1. /\ balances' \in [Tokens -> [Holders -> Nat]]
          /\ Update(id, "Cancelled", IF e0 = "Funded" THEN "Refunded" ELSE e0, x0)
      BY <1>0, <1>2, SettleLemma DEF cancel_booking, BookingStatus, EscrowStatus
    <2> QED
      BY <2>1, <1>0, <1>2
         DEF cancel_booking, AllowedUpdate, Allowed, BookingStatus, EscrowStatus
  <1>3. CASE confirm(a, id)
    <2>1. /\ balances' \in [Tokens -> [Holders -> Nat]]
          /\ Update(id, "Confirmed", IF e0 = "Funded" THEN "Released" ELSE e0, x0)
      BY <1>0, <1>3, SettleLemma DEF confirm, BookingStatus, EscrowStatus
    <2> QED
      BY <2>1, <1>0, <1>3
         DEF confirm, AllowedUpdate, Allowed, BookingStatus, EscrowStatus
  <1>4. CASE complete(a, id)
    <2>1. Update(id, "Completed", e0, x0)
      BY <1>0, <1>4, WriteLemma DEF complete, BookingStatus
    <2> QED
      BY <2>1, <1>0, <1>4
         DEF complete, AllowedUpdate, Allowed, BookingStatus, EscrowStatus
  <1>5. CASE cancel(a, id)
    <2>1. /\ balances' \in [Tokens -> [Holders -> Nat]]
          /\ Update(id, "Cancelled", IF e0 = "Funded" THEN "Refunded" ELSE e0, x0)
      BY <1>0, <1>5, SettleLemma DEF cancel, BookingStatus, EscrowStatus
    <2> QED
      BY <2>1, <1>0, <1>5
         DEF cancel, AllowedUpdate, Allowed, BookingStatus, EscrowStatus
  <1>6. CASE dispute_booking(a, id)
    <2>1. Update(id, "Disputed", e0, x0)
      BY <1>0, <1>6, WriteLemma DEF dispute_booking, BookingStatus
    <2> QED
      BY <2>1, <1>0, <1>6
         DEF dispute_booking, AllowedUpdate, Allowed, BookingStatus, EscrowStatus
  <1>7. ASSUME NEW r \in BOOLEAN, resolve_dispute(a, id, r)
        PROVE  /\ AllowedUpdate(id)
               /\ balances' \in [Tokens -> [Holders -> Nat]]
               /\ UNCHANGED << listings, admin, token_addr, propertyBookings >>
    <2>1. CASE r
      <3>1. /\ Update(id, "Completed", "Released", x0)
            /\ balances' \in [Tokens -> [Holders -> Nat]]
        BY <1>0, <1>7, <2>1, WriteLemma, TransferLemma
           DEF resolve_dispute, BookingStatus, EscrowStatus, Holders
      <3> QED
        BY <3>1, <1>0, <1>7
           DEF resolve_dispute, AllowedUpdate, Allowed, BookingStatus, EscrowStatus
    <2>2. CASE ~ r
      <3>1. /\ Update(id, "Cancelled", "Refunded", x0)
            /\ balances' \in [Tokens -> [Holders -> Nat]]
        BY <1>0, <1>7, <2>2, WriteLemma, TransferLemma
           DEF resolve_dispute, BookingStatus, EscrowStatus, Holders
      <3> QED
        BY <3>1, <1>0, <1>7
           DEF resolve_dispute, AllowedUpdate, Allowed, BookingStatus, EscrowStatus
    <2> QED
      BY <2>1, <2>2
  <1>8. ASSUME NEW e \in EscrowIds, set_escrow_id(a, id, e)
        PROVE  /\ AllowedUpdate(id)
               /\ balances' \in [Tokens -> [Holders -> Nat]]
               /\ UNCHANGED << listings, admin, token_addr, propertyBookings >>
    <2>1. Update(id, bookings[id].status, e0, e)
      BY <1>0, <1>8, WriteLemma DEF set_escrow_id, BookingStatus, EscrowStatus
    <2> QED
      BY <2>1, <1>0, <1>8 DEF set_escrow_id, AllowedUpdate, Allowed
  <1> QED
    BY <1>1, <1>2, <1>3, <1>4, <1>5, <1>6, <1>7, <1>8 DEF update_status

-----------------------------------------------------------------------------
(* Listings.                                                               *)

\* The listing contract keeps its storage well formed, whoever calls it.
LEMMA ListingLemma ==
    ASSUME ListingTypeOK, ListingNext
    PROVE  ListingTypeOK'
  <1> USE DEF ListingTypeOK, listing_count
  <1>1. ASSUME NEW id \in DOMAIN listings, NEW st \in ListingStatus,
               listings' = [listings EXCEPT ![id].status = st]
        PROVE  ListingTypeOK'
    <2> DEFINE new == [listings[id] EXCEPT !.status = st]
    <2>0. listings[id] \in Listing
      OBVIOUS
    <2>1. new \in Listing
      BY <2>0 DEF Listing
    <2>2. listings' = [listings EXCEPT ![id] = new]
      BY <1>1
    <2>3. listings \in Seq(Listing) /\ Len(listings) <= MaxListings
      OBVIOUS
    <2> HIDE DEF new, ListingTypeOK
    <2>4. listings' \in Seq(Listing) /\ Len(listings') = Len(listings)
      BY <2>1, <2>2, <2>3
    <2> QED
      BY <2>3, <2>4 DEF ListingTypeOK
  <1>2. ASSUME NEW a \in Accounts, NEW p \in PriceInputs, create_listing(a, p)
        PROVE  ListingTypeOK'
    <2> DEFINE new == [owner |-> a, price_per_night |-> p, status |-> "Active"]
    <2>1. new \in Listing
      BY <1>2 DEF create_listing, Listing, ListingStatus, Prices
    <2>2. listings' = Append(listings, new) /\ Len(listings) < MaxListings
      BY <1>2 DEF create_listing
    <2> HIDE DEF new
    <2> QED
      BY <2>1, <2>2, MaxListingsAssumption
  <1>3. ASSUME NEW a \in Accounts, NEW id \in DOMAIN listings, NEW p \in PriceInputs,
               update_listing(a, id, p)
        PROVE  ListingTypeOK'
    <2> DEFINE new == [listings[id] EXCEPT !.price_per_night = p]
    <2>0. listings[id] \in Listing
      OBVIOUS
    <2>1. new \in Listing
      BY <2>0, <1>3 DEF update_listing, Listing, Prices
    <2>2. listings' = [listings EXCEPT ![id] = new]
      BY <1>3 DEF update_listing
    <2>3. listings \in Seq(Listing) /\ Len(listings) <= MaxListings
      OBVIOUS
    <2> HIDE DEF new, ListingTypeOK
    <2>4. listings' \in Seq(Listing) /\ Len(listings') = Len(listings)
      BY <2>1, <2>2, <2>3
    <2> QED
      BY <2>3, <2>4 DEF ListingTypeOK
  <1>4. ASSUME NEW a \in Accounts, NEW id \in DOMAIN listings,
               NEW st \in ListingStatus, update_listing_status(a, id, st)
        PROVE  ListingTypeOK'
    BY <1>1, <1>4 DEF update_listing_status
  <1>5. ASSUME NEW id \in DOMAIN listings, set_rented(id)
        PROVE  ListingTypeOK'
    BY <1>1, <1>5 DEF set_rented, ListingStatus
  <1> QED
    BY <1>2, <1>3, <1>4, <1>5 DEF ListingNext

-----------------------------------------------------------------------------
(* The inductive invariant.                                                *)

IInv ==
    /\ TypeOK
    /\ EscrowFollowsStatus
    /\ IndexComplete
    /\ NoDoubleBooking

LEMMA InitLemma == Init => IInv
  <1> SUFFICES ASSUME Init PROVE IInv
    OBVIOUS
  <1> USE DEF Init, ListingInit
  <1>1. bookings \in Seq(Booking) /\ DOMAIN bookings = {} /\ Len(bookings) = 0
    OBVIOUS
  <1>2. listings \in Seq(Listing) /\ Len(listings) = 0
    OBVIOUS
  <1>3. balances \in [Tokens -> [Holders -> Nat]]
    BY InitialBalanceAssumption
  <1>4. TypeOK
    BY <1>1, <1>2, <1>3, MaxListingsAssumption, MaxBookingsAssumption
       DEF TypeOK, ListingTypeOK, listing_count, booking_count
  <1> QED
    BY <1>1, <1>4 DEF IInv, EscrowFollowsStatus, IndexComplete, NoDoubleBooking

\* A new booking joins the index and overlaps no live booking in it.
LEMMA CreateLemma ==
    ASSUME IInv, NEW a \in Accounts, NEW p \in DOMAIN listings,
           NEW d1 \in Days, NEW d2 \in Days, NEW amt \in PriceInputs,
           create_booking(a, p, d1, d2, amt)
    PROVE  IInv'
  <1> DEFINE n == Len(bookings) + 1
             new == [property_id |-> p, property_owner |-> listings[p].owner,
                     tenant |-> a, check_in |-> d1, check_out |-> d2,
                     total_price |-> amt, status |-> "Pending",
                     escrow_id |-> None, escrow_status |-> "NotFunded"]
  <1> USE DEF IInv, TypeOK
  <1>1. new \in Booking
    <2>1. p \in PropertyIds
      BY MaxListingsAssumption DEF ListingTypeOK, listing_count, PropertyIds
    <2>3. listings[p] \in Listing
      BY DEF ListingTypeOK
    <2>4. listings[p].owner \in Accounts
      BY <2>3 DEF Listing
    <2>2. d1 \in Int /\ d2 \in Int /\ amt \in Prices
      BY DaysAssumption DEF create_booking, Prices
    <2> QED
      BY <2>1, <2>2, <2>4 DEF Booking, BookingStatus, EscrowStatus
  <1>2. /\ bookings' = Append(bookings, new)
        /\ Len(bookings) < MaxBookings
        /\ propertyBookings' = [propertyBookings EXCEPT ![p] = @ \cup {n}]
        /\ check_availability(p, d1, d2)
        /\ set_rented(p)
        /\ d1 < d2
        /\ UNCHANGED << admin, token_addr, balances >>
    BY DEF create_booking, booking_count
  <1>3. /\ new.property_id = p /\ new.status = "Pending"
        /\ new.escrow_status = "NotFunded"
        /\ new.check_in = d1 /\ new.check_out = d2
    OBVIOUS
  <1> HIDE DEF new
  <1>4. /\ bookings' \in Seq(Booking)
        /\ Len(bookings') = n /\ n \in Nat
        /\ DOMAIN bookings' = DOMAIN bookings \cup {n}
        /\ bookings'[n] = new
        /\ \A b \in DOMAIN bookings : bookings'[b] = bookings[b] /\ b # n
    BY <1>1, <1>2
  <1>5. p \in PropertyIds
    BY MaxListingsAssumption DEF ListingTypeOK, listing_count, PropertyIds
  <1>6. propertyBookings' \in [PropertyIds -> SUBSET (DOMAIN bookings')]
    BY <1>2, <1>4, <1>5
  <1>7. ListingTypeOK'
    BY <1>2, ListingLemma DEF ListingNext
  <1>8. TypeOK'
    BY <1>2, <1>4, <1>6, <1>7, MaxBookingsAssumption DEF booking_count
  <1>9. EscrowFollowsStatus'
    BY <1>3, <1>4 DEF EscrowFollowsStatus
  <1>10. IndexComplete'
    <2> SUFFICES ASSUME NEW b \in DOMAIN bookings'
                 PROVE  b \in propertyBookings'[bookings'[b].property_id]
      BY DEF IndexComplete
    <2>1. CASE b = n
      BY <2>1, <1>2, <1>3, <1>4, <1>5
    <2>2. CASE b \in DOMAIN bookings
      <3>1. bookings[b].property_id \in PropertyIds
        BY <2>2, FieldsLemma
      <3> QED
        BY <2>2, <3>1, <1>2, <1>4, <1>5 DEF IndexComplete
    <2> QED
      BY <2>1, <2>2, <1>4
  <1>11. NoDoubleBooking'
    <2>1. ASSUME NEW b \in DOMAIN bookings, bookings[b].property_id = p,
                 bookings[b].status # "Cancelled"
          PROVE  ~ Overlaps(d1, d2, bookings[b].check_in, bookings[b].check_out)
      BY <2>1, <1>2 DEF IndexComplete, check_availability
    <2>2. ASSUME NEW b \in DOMAIN bookings, bookings[b].property_id = p,
                 bookings[b].status # "Cancelled"
          PROVE  ~ Overlaps(bookings[b].check_in, bookings[b].check_out, d1, d2)
      <3>1. /\ bookings[b].check_in \in Int /\ bookings[b].check_out \in Int
            /\ d1 \in Int /\ d2 \in Int
        BY FieldsLemma, DaysAssumption
      <3> QED
        BY <2>1, <2>2, <3>1 DEF Overlaps
    <2> SUFFICES ASSUME NEW b1 \in DOMAIN bookings', NEW b2 \in DOMAIN bookings',
                        b1 # b2,
                        bookings'[b1].property_id = bookings'[b2].property_id,
                        bookings'[b1].status # "Cancelled",
                        bookings'[b2].status # "Cancelled"
                 PROVE  ~ Overlaps(bookings'[b1].check_in, bookings'[b1].check_out,
                                   bookings'[b2].check_in, bookings'[b2].check_out)
      BY DEF NoDoubleBooking, Live
    <2>3. CASE b1 \in DOMAIN bookings /\ b2 \in DOMAIN bookings
      BY <2>3, <1>4 DEF NoDoubleBooking, Live
    <2>4. CASE b1 = n /\ b2 \in DOMAIN bookings
      BY <2>4, <2>1, <1>3, <1>4
    <2>5. CASE b1 \in DOMAIN bookings /\ b2 = n
      BY <2>5, <2>2, <1>3, <1>4
    <2> QED
      BY <2>3, <2>4, <2>5, <1>4
  <1> QED
    BY <1>8, <1>9, <1>10, <1>11

\* A call on an existing booking keeps all four parts: no update revives a
\* cancelled booking or moves its dates.
LEMMA UpdateInvLemma ==
    ASSUME IInv, NEW id \in DOMAIN bookings, BookingCall(id)
    PROVE  IInv'
  <1> USE DEF IInv, TypeOK
  <1>1. PICK s \in BookingStatus, e \in EscrowStatus, x \in EscrowIds \cup {None} :
            /\ Update(id, s, e, x)
            /\ Allowed(bookings[id].status, bookings[id].escrow_status, s, e)
    BY CallLemma DEF AllowedUpdate
  <1>2. /\ balances' \in [Tokens -> [Holders -> Nat]]
        /\ UNCHANGED << listings, admin, token_addr, propertyBookings >>
    BY CallLemma
  <1>3. /\ bookings' \in Seq(Booking)
        /\ Len(bookings') = Len(bookings)
        /\ DOMAIN bookings' = DOMAIN bookings
        /\ bookings'[id].status = s
        /\ bookings'[id].escrow_status = e
        /\ \A b \in DOMAIN bookings : b # id => bookings'[b] = bookings[b]
        /\ \A b \in DOMAIN bookings :
              /\ bookings'[b].property_id = bookings[b].property_id
              /\ bookings'[b].check_in = bookings[b].check_in
              /\ bookings'[b].check_out = bookings[b].check_out
    BY <1>1, UpdateLemma
  <1>4. TypeOK'
    BY <1>2, <1>3 DEF ListingTypeOK, listing_count, booking_count
  <1>5. EscrowFollowsStatus'
    <2>1. /\ bookings[id].escrow_status = "Funded"
                 => bookings[id].status \in {"Pending", "Disputed"}
          /\ bookings[id].status = "Disputed" => bookings[id].escrow_status = "Funded"
          /\ bookings[id].escrow_status = "Refunded"
                 => bookings[id].status = "Cancelled"
          /\ bookings[id].escrow_status = "Released"
                 => bookings[id].status \in {"Confirmed", "Completed", "Cancelled"}
      BY DEF EscrowFollowsStatus
    <2>2. /\ e = "Funded" => s \in {"Pending", "Disputed"}
          /\ s = "Disputed" => e = "Funded"
          /\ e = "Refunded" => s = "Cancelled"
          /\ e = "Released" => s \in {"Confirmed", "Completed", "Cancelled"}
      BY <2>1, <1>1 DEF Allowed
    <2> QED
      BY <2>2, <1>3 DEF EscrowFollowsStatus
  <1>6. IndexComplete'
    BY <1>2, <1>3 DEF IndexComplete
  <1>7. \A b \in DOMAIN bookings :
            bookings[b].status = "Cancelled" => bookings'[b].status = "Cancelled"
    BY <1>1, <1>3 DEF Allowed
  <1>8. NoDoubleBooking'
    BY <1>3, <1>7 DEF NoDoubleBooking, Live
  <1> QED
    BY <1>4, <1>5, <1>6, <1>8

LEMMA StepLemma == IInv /\ [Next]_vars => IInv'
  <1> SUFFICES ASSUME IInv, [Next]_vars PROVE IInv'
    OBVIOUS
  <1> USE DEF IInv
  <1>1. CASE ListingNext /\ UNCHANGED bookingVars
    BY <1>1, ListingLemma
       DEF bookingVars, TypeOK, booking_count, EscrowFollowsStatus, IndexComplete,
           NoDoubleBooking, Live
  <1>2. ASSUME NEW a \in Accounts, initialize(a) PROVE IInv'
    BY <1>2 DEF initialize, TypeOK, ListingTypeOK, listing_count, booking_count,
                EscrowFollowsStatus, IndexComplete, NoDoubleBooking, Live
  <1>3. ASSUME NEW a \in Accounts, NEW t \in Tokens, set_token_address(a, t)
        PROVE  IInv'
    BY <1>3 DEF set_token_address, TypeOK, ListingTypeOK, listing_count,
                booking_count, EscrowFollowsStatus, IndexComplete,
                NoDoubleBooking, Live
  <1>4. ASSUME NEW a \in Accounts, NEW p \in DOMAIN listings, NEW d1 \in Days,
               NEW d2 \in Days, NEW amt \in PriceInputs,
               create_booking(a, p, d1, d2, amt)
        PROVE  IInv'
    BY <1>4, CreateLemma
  <1>5. ASSUME NEW id \in DOMAIN bookings, BookingCall(id) PROVE IInv'
    BY <1>5, UpdateInvLemma
  <1>6. CASE UNCHANGED vars
    BY <1>6 DEF vars, bookingVars, TypeOK, ListingTypeOK, listing_count,
                booking_count, EscrowFollowsStatus, IndexComplete,
                NoDoubleBooking, Live
  <1> QED
    BY <1>1, <1>2, <1>3, <1>4, <1>5, <1>6 DEF Next, BookingCall

THEOREM InvariantHolds == Spec => []IInv
  BY InitLemma, StepLemma, PTL DEF Spec

\* Storage and balances are always well formed: in particular no call drives
\* the vault or an account below zero (transfer and every call that uses it).
THEOREM TypesCorrect == Spec => []TypeOK
  <1>1. IInv => TypeOK
    BY DEF IInv
  <1> QED
    BY <1>1, InvariantHolds, PTL

\* Whatever the dates, the owners' reopenings and the cancellations, no two
\* live bookings of a property overlap (create_booking, check_availability).
THEOREM NoOverlap == Spec => []NoDoubleBooking
  <1>1. IInv => NoDoubleBooking
    BY DEF IInv
  <1> QED
    BY <1>1, InvariantHolds, PTL

\* Booking status and escrow status agree after any sequence of calls.
THEOREM EscrowAgrees == Spec => []EscrowFollowsStatus
  <1>1. IInv => EscrowFollowsStatus
    BY DEF IInv
  <1> QED
    BY <1>1, InvariantHolds, PTL

\* No call moves a cancelled or completed booking, or an escrow that paid out
\* (cancel_booking, update_status, resolve_dispute, dispute_booking).
THEOREM OutcomesFinal == Spec => OutcomeIsFinal
  <1> DEFINE Kept ==
        \A b \in DOMAIN bookings :
          /\ bookings[b].status \in {"Cancelled", "Completed"}
                 => bookings'[b].status = bookings[b].status
          /\ bookings[b].escrow_status \in {"Released", "Refunded"}
                 => bookings'[b].escrow_status = bookings[b].escrow_status
  <1>1. IInv /\ [Next]_vars => [Kept]_vars
    <2> SUFFICES ASSUME IInv, Next PROVE Kept
      OBVIOUS
    <2>1. ASSUME NEW id \in DOMAIN bookings, BookingCall(id) PROVE Kept
      <3>1. PICK s \in BookingStatus, e \in EscrowStatus, x \in EscrowIds \cup {None} :
                /\ Update(id, s, e, x)
                /\ Allowed(bookings[id].status, bookings[id].escrow_status, s, e)
        BY <2>1, CallLemma DEF AllowedUpdate, IInv
      <3>2. /\ bookings'[id].status = s
            /\ bookings'[id].escrow_status = e
            /\ \A b \in DOMAIN bookings : b # id => bookings'[b] = bookings[b]
        BY <3>1, UpdateLemma DEF IInv, TypeOK
      <3>3. /\ bookings[id].status = "Disputed"
                   => bookings[id].escrow_status = "Funded"
            /\ bookings[id].escrow_status = "Released"
                   => bookings[id].status \in {"Confirmed", "Completed", "Cancelled"}
        BY DEF IInv, EscrowFollowsStatus
      <3>4. bookings[id].escrow_status = "Refunded"
                   => bookings[id].status = "Cancelled"
        BY DEF IInv, EscrowFollowsStatus
      <3> QED
        BY <3>1, <3>2, <3>3, <3>4 DEF Allowed
    <2>2. ASSUME NEW a \in Accounts, NEW p \in DOMAIN listings, NEW d1 \in Days,
                 NEW d2 \in Days, NEW amt \in PriceInputs,
                 create_booking(a, p, d1, d2, amt)
          PROVE  Kept
      <3>1. \A b \in DOMAIN bookings : bookings'[b] = bookings[b]
        <4>1. \E r : bookings' = Append(bookings, r)
          BY <2>2 DEF create_booking
        <4> QED
          BY <4>1 DEF IInv, TypeOK
      <3> QED
        BY <3>1
    <2>3. CASE UNCHANGED bookings
      BY <2>3
    <2> QED
      BY <2>1, <2>2, <2>3
         DEF Next, BookingCall, bookingVars, initialize, set_token_address
  <1>2. OutcomeIsFinal <=> [][Kept]_vars
    BY DEF OutcomeIsFinal
  <1> QED
    BY <1>1, <1>2, InvariantHolds, PTL DEF Spec

-----------------------------------------------------------------------------
(* The escrow's promise: every step maps to a step of EscrowAccounts.      *)

Account == [payer : Accounts, payee : Accounts, amount : Prices, state : EscrowStatus]

Mapped == [b \in DOMAIN bookings |-> EscrowOf(bookings[b])]

\* Seen through the mapping, a call rewrites one account's state and no more.
LEMMA MappedUpdate ==
    ASSUME bookings \in Seq(Booking), NEW id \in DOMAIN bookings,
           NEW s \in BookingStatus, NEW e \in EscrowStatus,
           NEW x \in EscrowIds \cup {None}, Update(id, s, e, x)
    PROVE  /\ Mapped' = [Mapped EXCEPT ![id].state = e]
           /\ e = bookings[id].escrow_status => UNCHANGED Mapped
  <1>1. DOMAIN bookings' = DOMAIN bookings
    BY UpdateLemma
  <1>2. EscrowOf(bookings[id])' = [EscrowOf(bookings[id]) EXCEPT !.state = e]
    BY UpdateLemma DEF EscrowOf
  <1>3. \A b \in DOMAIN bookings : b # id =>
            EscrowOf(bookings[b])' = EscrowOf(bookings[b])
    BY UpdateLemma DEF EscrowOf
  <1>4. Mapped' = [b \in DOMAIN bookings |-> EscrowOf(bookings[b])']
    BY <1>1 DEF Mapped
  <1>5. Mapped' = [Mapped EXCEPT ![id].state = e]
    <2> DEFINE old == EscrowOf(bookings[id])
    <2>1. Mapped[id] = old /\ DOMAIN Mapped = DOMAIN bookings
      BY DEF Mapped
    <2>2. [Mapped EXCEPT ![id].state = e] = [Mapped EXCEPT ![id] = [old EXCEPT !.state = e]]
      BY <2>1
    <2> HIDE DEF old
    <2>3. [Mapped EXCEPT ![id] = [old EXCEPT !.state = e]]
            = [b \in DOMAIN bookings |-> IF b = id THEN [old EXCEPT !.state = e]
                                         ELSE Mapped[b]]
      BY <2>1
    <2>4. \A b \in DOMAIN bookings : b # id => EscrowOf(bookings[b])' = Mapped[b]
      BY <1>3 DEF Mapped
    <2>5. EscrowOf(bookings[id])' = [old EXCEPT !.state = e]
      BY <1>2 DEF old
    <2> QED
      BY <2>2, <2>3, <2>4, <2>5, <1>4
  <1>6. ASSUME e = bookings[id].escrow_status PROVE UNCHANGED Mapped
    <2>1. EscrowOf(bookings[id])' = EscrowOf(bookings[id])
      BY <1>6, UpdateLemma DEF EscrowOf
    <2> QED
      BY <2>1, <1>3, <1>4 DEF Mapped
  <1> QED
    BY <1>5, <1>6

\* A transfer is a move of the abstract ledger in some currency.
LEMMA TransferMoves ==
    ASSUME NEW from, NEW to, NEW amount, transfer(from, to, amount),
           balances \in [Tokens -> [Holders -> Nat]]
    PROVE  \E c \in Tokens : Escrow!Move(c, from, to, amount)
  BY DEF transfer, Escrow!Move, Holders

\* Funding, settling and resolving are the three steps of an escrow account.
LEMMA EscrowStep ==
    ASSUME IInv, NEW id \in DOMAIN bookings, BookingCall(id)
    PROVE  [Escrow!Next]_(Escrow!vars)
  <1> USE DEF IInv, TypeOK
  <1> DEFINE b0 == bookings[id]
             Goal == [Escrow!Next]_(Escrow!vars)
  <1> SUFFICES Goal
    OBVIOUS
  <1> HIDE DEF Goal
  <1>0. /\ bookings \in Seq(Booking)
        /\ b0.escrow_id \in EscrowIds \cup {None}
        /\ b0.status \in BookingStatus /\ b0.escrow_status \in EscrowStatus
        /\ balances \in [Tokens -> [Holders -> Nat]]
    BY FieldsLemma
  <1>1. /\ Mapped[id] = EscrowOf(b0)
        /\ DOMAIN Mapped = DOMAIN bookings
        /\ Mapped[id].payer = b0.tenant /\ Mapped[id].payee = b0.property_owner
        /\ Mapped[id].amount = b0.total_price /\ Mapped[id].state = b0.escrow_status
    BY DEF Mapped, EscrowOf
  <1>2. ASSUME NEW s \in BookingStatus, NEW x \in EscrowIds \cup {None},
               Update(id, s, b0.escrow_status, x), UNCHANGED balances
        PROVE  Goal
    <2>1. UNCHANGED Mapped
      BY <1>0, <1>2, MappedUpdate
    <2> QED
      BY <2>1, <1>2 DEF Goal, Escrow!vars, Mapped
  <1>3. ASSUME NEW s \in BookingStatus, NEW e \in EscrowStatus, SetBooking(id, s, e),
               NEW from, NEW to, transfer(from, to, b0.total_price),
               \/ /\ from = b0.tenant /\ to = Vault
                  /\ b0.escrow_status = "NotFunded" /\ e = "Funded"
               \/ /\ from = Vault /\ to = b0.property_owner
                  /\ b0.escrow_status = "Funded" /\ e = "Released"
               \/ /\ from = Vault /\ to = b0.tenant
                  /\ b0.escrow_status = "Funded" /\ e = "Refunded"
        PROVE  Goal
    <2>1. Update(id, s, e, b0.escrow_id)
      BY <1>0, <1>3, WriteLemma
    <2>2. Mapped' = [Mapped EXCEPT ![id].state = e]
      BY <2>1, <1>0, <1>3, MappedUpdate
    <2>3. \E c \in Tokens : Escrow!Move(c, from, to, Mapped[id].amount)
      BY <1>0, <1>1, <1>3, TransferMoves
    <2>4. Escrow!Deposit(id) \/ Escrow!Release(id) \/ Escrow!Refund(id)
      BY <2>2, <2>3, <1>1, <1>3
         DEF Escrow!Deposit, Escrow!Release, Escrow!Refund, Escrow!Step, Mapped
    <2> QED
      BY <2>4, <1>1 DEF Goal, Escrow!Next, Mapped
  <1>4. ASSUME NEW s \in BookingStatus, NEW e \in EscrowStatus, NEW to \in Accounts,
               SettleIfFunded(id, to, s, e),
               \/ to = b0.property_owner /\ e = "Released"
               \/ to = b0.tenant /\ e = "Refunded"
        PROVE  Goal
    <2>1. CASE b0.escrow_status = "Funded"
      BY <2>1, <1>3, <1>4 DEF SettleIfFunded
    <2>2. CASE b0.escrow_status # "Funded"
      <3>1. bookings' = [bookings EXCEPT ![id].status = s] /\ UNCHANGED balances
        BY <2>2, <1>4 DEF SettleIfFunded
      <3>2. Update(id, s, b0.escrow_status, b0.escrow_id)
        BY <3>1, <1>0, WriteLemma
      <3> QED
        BY <3>1, <3>2, <1>0, <1>2
    <2> QED
      BY <2>1, <2>2
  <1>5. PICK a \in Accounts :
            \/ fund_escrow(a, id)
            \/ cancel_booking(a, id)
            \/ update_status(a, id)
            \/ dispute_booking(a, id)
            \/ \E r \in BOOLEAN : resolve_dispute(a, id, r)
            \/ \E e \in EscrowIds : set_escrow_id(a, id, e)
    BY DEF BookingCall
  <1>6. b0.tenant \in Accounts /\ b0.property_owner \in Accounts
    BY FieldsLemma
  <1>7. CASE fund_escrow(a, id)
    <2>1. /\ transfer(b0.tenant, Vault, b0.total_price)
          /\ SetBooking(id, "Pending", "Funded")
          /\ b0.escrow_status = "NotFunded"
      BY <1>7 DEF fund_escrow
    <2> QED
      BY <2>1, <1>3 DEF BookingStatus, EscrowStatus
  <1>8. CASE cancel_booking(a, id) \/ cancel(a, id)
    <2>1. SettleIfFunded(id, b0.tenant, "Cancelled", "Refunded")
      BY <1>8 DEF cancel_booking, cancel
    <2> QED
      BY <2>1, <1>4, <1>6 DEF BookingStatus, EscrowStatus
  <1>9. CASE confirm(a, id)
    <2>1. SettleIfFunded(id, b0.property_owner, "Confirmed", "Released")
      BY <1>9 DEF confirm
    <2> QED
      BY <2>1, <1>4, <1>6 DEF BookingStatus, EscrowStatus
  <1>10. CASE complete(a, id) \/ dispute_booking(a, id)
    <2>1. PICK s \in BookingStatus :
              bookings' = [bookings EXCEPT ![id].status = s] /\ UNCHANGED balances
      BY <1>10 DEF complete, dispute_booking, BookingStatus
    <2>2. Update(id, s, b0.escrow_status, b0.escrow_id)
      BY <2>1, <1>0, WriteLemma
    <2> QED
      BY <2>1, <2>2, <1>0, <1>2
  <1>11. ASSUME NEW r \in BOOLEAN, resolve_dispute(a, id, r) PROVE Goal
    <2>1. b0.escrow_status = "Funded"
      BY <1>11 DEF resolve_dispute, EscrowFollowsStatus
    <2>2. CASE r
      <3>1. /\ transfer(Vault, b0.property_owner, b0.total_price)
            /\ SetBooking(id, "Completed", "Released")
        BY <1>11, <2>2 DEF resolve_dispute
      <3> QED
        BY <3>1, <2>1, <1>3 DEF BookingStatus, EscrowStatus
    <2>3. CASE ~ r
      <3>1. /\ transfer(Vault, b0.tenant, b0.total_price)
            /\ SetBooking(id, "Cancelled", "Refunded")
        BY <1>11, <2>3 DEF resolve_dispute
      <3> QED
        BY <3>1, <2>1, <1>3 DEF BookingStatus, EscrowStatus
    <2> QED
      BY <2>2, <2>3
  <1>12. ASSUME NEW e \in EscrowIds, set_escrow_id(a, id, e) PROVE Goal
    <2>1. bookings' = [bookings EXCEPT ![id].escrow_id = e] /\ UNCHANGED balances
      BY <1>12 DEF set_escrow_id
    <2>2. Update(id, b0.status, b0.escrow_status, e)
      BY <2>1, <1>0, WriteLemma
    <2> QED
      BY <2>1, <2>2, <1>0, <1>2
  <1> QED
    BY <1>5, <1>7, <1>8, <1>9, <1>10, <1>11, <1>12 DEF update_status

\* A new booking opens an account.
LEMMA OpenStep ==
    ASSUME IInv, NEW a \in Accounts, NEW p \in DOMAIN listings,
           NEW d1 \in Days, NEW d2 \in Days, NEW amt \in PriceInputs,
           create_booking(a, p, d1, d2, amt)
    PROVE  Escrow!Open
  <1> DEFINE new == [property_id |-> p, property_owner |-> listings[p].owner,
                     tenant |-> a, check_in |-> d1, check_out |-> d2,
                     total_price |-> amt, status |-> "Pending",
                     escrow_id |-> None, escrow_status |-> "NotFunded"]
             acc == [payer |-> a, payee |-> listings[p].owner,
                     amount |-> amt, state |-> "NotFunded"]
  <1>1. /\ bookings' = Append(bookings, new)
        /\ UNCHANGED balances
        /\ amt \in Prices
    BY DEF create_booking, Prices
  <1>2. listings[p].owner \in Accounts
    <2>1. listings[p] \in Listing
      BY DEF IInv, TypeOK, ListingTypeOK
    <2> QED
      BY <2>1 DEF Listing
  <1>3. EscrowOf(new) = acc
    BY DEF EscrowOf
  <1>4. bookings \in Seq(Booking)
    BY DEF IInv, TypeOK
  <1> HIDE DEF new, acc
  <1>5. Mapped' = Append(Mapped, acc)
    <2>1. /\ Len(bookings) \in Nat
          /\ DOMAIN bookings = 1 .. Len(bookings)
          /\ DOMAIN bookings' = 1 .. (Len(bookings) + 1)
          /\ bookings'[Len(bookings) + 1] = new
          /\ \A b \in DOMAIN bookings : bookings'[b] = bookings[b]
      BY <1>1, <1>4
    <2>2. Mapped = [b \in 1 .. Len(bookings) |-> EscrowOf(bookings[b])]
      BY <2>1 DEF Mapped
    <2>3. Mapped' = [b \in 1 .. (Len(bookings) + 1) |-> EscrowOf(bookings'[b])]
      BY <2>1 DEF Mapped, EscrowOf
    <2>4. \A b \in 1 .. (Len(bookings) + 1) :
              EscrowOf(bookings'[b])
                 = IF b = Len(bookings) + 1 THEN acc ELSE EscrowOf(bookings[b])
      BY <2>1, <1>3
    <2>5. Len(Mapped) = Len(bookings)
      BY <2>1, <2>2
    <2> QED
      BY <2>1, <2>2, <2>3, <2>4, <2>5
  <1>6. Escrow!Open
    BY <1>1, <1>2, <1>5 DEF Escrow!Open, Mapped, acc
  <1> QED
    BY <1>6

\* Every call is a step of the escrow accounts, or leaves them as they are.
LEMMA RefinesStep == IInv /\ [Next]_vars => [Escrow!Next]_(Escrow!vars)
  <1> SUFFICES ASSUME IInv, [Next]_vars PROVE [Escrow!Next]_(Escrow!vars)
    OBVIOUS
  <1>1. ASSUME UNCHANGED bookings, UNCHANGED balances PROVE UNCHANGED Escrow!vars
    BY <1>1 DEF Escrow!vars
  <1>2. ASSUME NEW id \in DOMAIN bookings, BookingCall(id)
        PROVE  [Escrow!Next]_(Escrow!vars)
    BY <1>2, EscrowStep
  <1>3. ASSUME NEW a \in Accounts, NEW p \in DOMAIN listings, NEW d1 \in Days,
               NEW d2 \in Days, NEW amt \in PriceInputs,
               create_booking(a, p, d1, d2, amt)
        PROVE  Escrow!Next
    BY <1>3, OpenStep DEF Escrow!Next
  <1> QED
    BY <1>1, <1>2, <1>3
       DEF Next, BookingCall, vars, bookingVars, initialize, set_token_address

\* The contracts implement the escrow (all the calls that move money): each
\* price goes into the vault at most once, and out of it at most once, to the
\* owner or back to the tenant, and nothing else moves a balance.
THEOREM EscrowImplemented == Spec => EscrowPromise
  <1>1. Init => Escrow!Init
    <2> SUFFICES ASSUME Init PROVE Escrow!Init
      OBVIOUS
    <2>1. Mapped = << >>
      BY DEF Init, Mapped
    <2>2. \A c \in Tokens : balances[c][Vault] = 0
      BY DEF Init, Holders
    <2> QED
      BY <2>1, <2>2 DEF Escrow!Init, Mapped
  <1> QED
    BY <1>1, RefinesStep, InvariantHolds, PTL DEF Spec, EscrowPromise, Escrow!Spec

-----------------------------------------------------------------------------
(* Sums over finite sets.  The library folds a set by choosing one element  *)
(* after the other; these lemmas show that the order does not matter.  Each *)
(* is proved on a minimal counterexample, which exists because the strict   *)
(* subsets of a finite set are well founded.                                *)

\* One step of the fold that SumFunctionOnSet is.
FoldStep(f, g, T) ==
    IF T = {} THEN 0
    ELSE LET x == CHOOSE x \in T : TRUE IN f[x] + g[T \ {x}]

\* Partial sums of f over the subsets of S.
IsPartialSum(f, g, S) == g = [T \in SUBSET S |-> FoldStep(f, g, T)]

PartialSum(f, S) == CHOOSE g : IsPartialSum(f, g, S)

LEMMA SumIsPartialSum ==
    ASSUME NEW f, NEW S
    PROVE  SumFunctionOnSet(f, S) = PartialSum(f, S)[S]
  BY DEF SumFunctionOnSet, FoldFunctionOnSet, MapThenFoldSet, PartialSum, IsPartialSum, FoldStep

\* A family of subsets of a finite set has a member that no other is inside of.
LEMMA MinimalMember ==
    ASSUME NEW S, IsFiniteSet(S), NEW F \in SUBSET (SUBSET S), F # {}
    PROVE  \E T \in F : \A U \in F : U \subseteq T => U = T
  <1>1. F \subseteq FiniteSubsetsOf(S)
    BY FS_FiniteSubsetsOfFinite
  <1>2. IsWellFoundedOn(StrictSubsetOrdering(S), FiniteSubsetsOf(S))
    BY FS_StrictSubsetOrderingWellFounded
  <1>3. PICK T \in F : \A U \in F : ~ (<< U, T >> \in StrictSubsetOrdering(S))
    BY <1>1, <1>2, WFMin
  <1>4. \A U \in F : U \subseteq T => U = T
    BY <1>3 DEF StrictSubsetOrdering
  <1> QED
    BY <1>4

LEMMA SmallestMember ==
    ASSUME NEW N \in Nat, NEW B \in SUBSET (0 .. N), B # {}
    PROVE  \E m \in B : \A k \in B : m <= k
  <1> DEFINE F == {0 .. n : n \in B}
  <1>1. IsFiniteSet(0 .. N)
    BY FS_Interval
  <1>2. F \in SUBSET (SUBSET (0 .. N)) /\ F # {}
    <2>1. \A n \in B : 0 .. n \subseteq 0 .. N
      OBVIOUS
    <2>2. \A U \in F : U \in SUBSET (0 .. N)
      BY <2>1
    <2>3. \E n \in B : 0 .. n \in F
      OBVIOUS
    <2> HIDE DEF F
    <2> QED
      BY <2>2, <2>3
  <1> HIDE DEF F
  <1>3. PICK T \in F : \A U \in F : U \subseteq T => U = T
    <2> DEFINE I == 0 .. N
    <2>1. IsFiniteSet(I) /\ F \in SUBSET (SUBSET I) /\ F # {}
      BY <1>1, <1>2
    <2> HIDE DEF I
    <2> QED
      BY <2>1, MinimalMember
  <1>4. PICK m \in B : T = 0 .. m
    BY DEF F
  <1>5. ASSUME NEW k \in B, k < m PROVE FALSE
    <2>1. 0 .. k \in F /\ 0 .. k \subseteq T
      BY <1>4, <1>5 DEF F
    <2>2. 0 .. k = 0 .. m
      BY <2>1, <1>3, <1>4
    <2>3. m \in 0 .. m /\ m \notin 0 .. k
      BY <1>5
    <2> QED
      BY <2>2, <2>3
  <1>6. \A k \in B : m <= k
    BY <1>5
  <1> QED
    BY <1>6

\* The recursion of the fold has a solution on every finite set.
LEMMA PartialSumExists ==
    ASSUME NEW f, NEW S, IsFiniteSet(S)
    PROVE  IsPartialSum(f, PartialSum(f, S), S)
  <1> DEFINE N == Cardinality(S)
             Upto(n) == {T \in SUBSET S : Cardinality(T) <= n}
             Solves(g, n) == \A T \in Upto(n) : g[T] = FoldStep(f, g, T)
             B == {n \in 0 .. N : ~ \E g : Solves(g, n)}
  <1>1. /\ N \in Nat
        /\ \A T \in SUBSET S : IsFiniteSet(T) /\ Cardinality(T) \in 0 .. N
    BY FS_CardinalityType, FS_Subset
  <1>2. \A T \in SUBSET S : \A x \in T : Cardinality(T \ {x}) = Cardinality(T) - 1
    BY <1>1, FS_RemoveElement
  <1>3. \A T \in SUBSET S : T # {} => (CHOOSE x \in T : TRUE) \in T
    OBVIOUS
  <1>4. ASSUME NEW n \in 0 .. N, NEW g, n = 0 \/ Solves(g, n - 1)
        PROVE  \E h : Solves(h, n)
    <2> DEFINE h == [T \in SUBSET S |-> IF Cardinality(T) < n THEN g[T]
                                        ELSE FoldStep(f, g, T)]
    <2>1. ASSUME NEW T \in Upto(n) PROVE h[T] = FoldStep(f, g, T)
      <3>1. CASE Cardinality(T) < n
        <4>1. n # 0 /\ T \in Upto(n - 1)
          BY <3>1, <1>1
        <4> QED
          BY <4>1, <3>1, <1>4
      <3>2. CASE ~ (Cardinality(T) < n)
        BY <3>2
      <3> QED
        BY <3>1, <3>2
    <2>2. ASSUME NEW T \in Upto(n) PROVE FoldStep(f, g, T) = FoldStep(f, h, T)
      <3>1. CASE T = {}
        BY <3>1 DEF FoldStep
      <3>2. CASE T # {}
        <4> DEFINE x == CHOOSE x \in T : TRUE
        <4>1. x \in T /\ T \ {x} \in SUBSET S
          BY <3>2, <1>3
        <4>2. Cardinality(T \ {x}) < n
          <5>1. Cardinality(T \ {x}) = Cardinality(T) - 1
            BY <4>1, <1>2
          <5>2. Cardinality(T) \in 0 .. N /\ Cardinality(T) <= n
            BY <1>1
          <5> QED
            BY <5>1, <5>2, <1>1
        <4>3. h[T \ {x}] = g[T \ {x}]
          BY <4>1, <4>2
        <4> QED
          BY <4>3, <3>2 DEF FoldStep
      <3> QED
        BY <3>1, <3>2
    <2> HIDE DEF h
    <2>3. Solves(h, n)
      BY <2>1, <2>2
    <2> QED
      BY <2>3
  <1>5. B = {}
    <2> SUFFICES ASSUME B # {} PROVE FALSE
      OBVIOUS
    <2>1. PICK m \in B : \A k \in B : m <= k
      <3> HIDE DEF Solves, N
      <3> QED
        BY <1>1, SmallestMember
    <2>2. CASE m = 0
      <3> HIDE DEF Solves
      <3> QED
        BY <2>1, <2>2, <1>4
    <2>3. CASE m # 0
      <3> HIDE DEF Solves
      <3>1. m - 1 \in 0 .. N /\ m - 1 \notin B
        BY <2>1, <2>3, <1>1
      <3>2. \E g : Solves(g, m - 1)
        BY <3>1
      <3> QED
        BY <2>1, <3>2, <1>4
    <2> QED
      BY <2>2, <2>3
  <1>6. PICK g : Solves(g, N)
    <2> HIDE DEF Solves
    <2> QED
      BY <1>1, <1>5
  <1> DEFINE h == [T \in SUBSET S |-> g[T]]
  <1>7. ASSUME NEW T \in SUBSET S PROVE h[T] = FoldStep(f, h, T)
    <2>1. g[T] = FoldStep(f, g, T)
      BY <1>1, <1>6
    <2>2. FoldStep(f, g, T) = FoldStep(f, h, T)
      <3>1. T # {} => T \ {CHOOSE x \in T : TRUE} \in SUBSET S
        OBVIOUS
      <3> QED
        BY <3>1 DEF FoldStep
    <2> QED
      BY <2>1, <2>2
  <1>8. IsPartialSum(f, h, S)
    <2> SUFFICES h = [T \in SUBSET S |-> FoldStep(f, h, T)]
      BY DEF IsPartialSum
    <2>1. \A T \in SUBSET S : h[T] = g[T]
      OBVIOUS
    <2>2. h = [T \in SUBSET S |-> h[T]]
      BY <2>1
    <2> HIDE DEF h
    <2> QED
      BY <2>2, <1>7
  <1> QED
    BY <1>8 DEF PartialSum

\* The sum over nothing.
LEMMA SumEmpty == \A f : SumFunctionOnSet(f, {}) = 0
  <1> TAKE f
  <1>1. IsPartialSum(f, PartialSum(f, {}), {})
    BY PartialSumExists, FS_EmptySet
  <1>2. PartialSum(f, {})[{}] = FoldStep(f, PartialSum(f, {}), {})
    BY <1>1 DEF IsPartialSum
  <1> QED
    BY <1>2, SumIsPartialSum DEF FoldStep

\* The partial sums of a set and of one of its subsets agree.
LEMMA PartialSumOfSubset ==
    ASSUME NEW f, NEW S, IsFiniteSet(S), NEW T \in SUBSET S
    PROVE  PartialSum(f, S)[T] = SumFunctionOnSet(f, T)
  <1> DEFINE g == PartialSum(f, S)
             h == PartialSum(f, T)
             F == {U \in SUBSET T : g[U] # h[U]}
  <1>1. IsFiniteSet(T)
    BY FS_Subset
  <1>2. \A U \in SUBSET T : g[U] = FoldStep(f, g, U) /\ h[U] = FoldStep(f, h, U)
    <2>1. IsPartialSum(f, g, S) /\ IsPartialSum(f, h, T)
      BY <1>1, PartialSumExists
    <2> HIDE DEF g, h
    <2> QED
      BY <2>1 DEF IsPartialSum
  <1> HIDE DEF g, h
  <1>3. F = {}
    <2> SUFFICES ASSUME F # {} PROVE FALSE
      OBVIOUS
    <2>1. PICK U \in F : \A V \in F : V \subseteq U => V = U
      <3>1. F \in SUBSET (SUBSET T)
        OBVIOUS
      <3> HIDE DEF F
      <3> QED
        BY <1>1, <3>1, MinimalMember
    <2>2. CASE U = {}
      BY <2>1, <2>2, <1>2 DEF FoldStep
    <2>3. CASE U # {}
      <3> DEFINE x == CHOOSE x \in U : TRUE
      <3>1. x \in U /\ U \ {x} \in SUBSET T /\ U \ {x} # U /\ U \ {x} \subseteq U
        BY <2>3
      <3>2. g[U \ {x}] = h[U \ {x}]
        BY <3>1, <2>1
      <3>3. FoldStep(f, g, U) = FoldStep(f, h, U)
        BY <3>2, <2>3 DEF FoldStep
      <3> QED
        BY <3>3, <2>1, <1>2
    <2> QED
      BY <2>2, <2>3
  <1>4. g[T] = h[T]
    BY <1>3
  <1> QED
    BY <1>4, SumIsPartialSum DEF g, h

\* The fold takes off the chosen element first.
LEMMA SumChosen ==
    ASSUME NEW f, NEW S, IsFiniteSet(S), S # {}
    PROVE  LET x == CHOOSE x \in S : TRUE
           IN  SumFunctionOnSet(f, S) = f[x] + SumFunctionOnSet(f, S \ {x})
  <1> DEFINE x == CHOOSE x \in S : TRUE
             g == PartialSum(f, S)
  <1>1. g[S] = FoldStep(f, g, S)
    <2>1. IsPartialSum(f, g, S)
      BY PartialSumExists
    <2> HIDE DEF g
    <2> QED
      BY <2>1 DEF IsPartialSum
  <1>2. g[S] = SumFunctionOnSet(f, S) /\ g[S \ {x}] = SumFunctionOnSet(f, S \ {x})
    BY PartialSumOfSubset
  <1> HIDE DEF g
  <1> QED
    BY <1>1, <1>2 DEF FoldStep

\* A sum of integers is an integer.
LEMMA SumType ==
    ASSUME NEW S, IsFiniteSet(S), NEW f, \A x \in S : f[x] \in Int
    PROVE  SumFunctionOnSet(f, S) \in Int
  <1> DEFINE F == {T \in SUBSET S : SumFunctionOnSet(f, T) \notin Int}
  <1>1. F = {}
    <2> SUFFICES ASSUME F # {} PROVE FALSE
      OBVIOUS
    <2>1. PICK T \in F : \A U \in F : U \subseteq T => U = T
      <3>1. F \in SUBSET (SUBSET S)
        OBVIOUS
      <3> HIDE DEF F
      <3> QED
        BY <3>1, MinimalMember
    <2>2. T # {}
      BY SumEmpty
    <2> DEFINE x == CHOOSE x \in T : TRUE
    <2>3. x \in T /\ T \ {x} \in SUBSET S /\ T \ {x} # T
      BY <2>2
    <2>4. IsFiniteSet(T)
      BY FS_Subset
    <2>5. SumFunctionOnSet(f, T) = f[x] + SumFunctionOnSet(f, T \ {x})
      BY <2>2, <2>4, SumChosen
    <2>6. SumFunctionOnSet(f, T \ {x}) \in Int
      BY <2>1, <2>3
    <2> QED
      BY <2>3, <2>5, <2>6
  <1> QED
    BY <1>1

\* Any element may be taken off first.
LEMMA SumRemove ==
    ASSUME NEW S, IsFiniteSet(S), NEW f, \A x \in S : f[x] \in Int, NEW a \in S
    PROVE  SumFunctionOnSet(f, S) = f[a] + SumFunctionOnSet(f, S \ {a})
  <1> DEFINE Sum(T) == SumFunctionOnSet(f, T)
             F == {T \in SUBSET S : \E b \in T : Sum(T) # f[b] + Sum(T \ {b})}
  <1>0. \A T \in SUBSET S : IsFiniteSet(T) /\ Sum(T) \in Int
    BY FS_Subset, SumType
  <1>1. F = {}
    <2> SUFFICES ASSUME F # {} PROVE FALSE
      OBVIOUS
    <2>1. PICK T \in F : \A U \in F : U \subseteq T => U = T
      <3>1. F \in SUBSET (SUBSET S)
        OBVIOUS
      <3> HIDE DEF F
      <3> QED
        BY <3>1, MinimalMember
    <2>2. PICK b \in T : Sum(T) # f[b] + Sum(T \ {b})
      BY <2>1
    <2> DEFINE x == CHOOSE x \in T : TRUE
    <2>3. x \in T
      BY <2>2
    <2>4. Sum(T) = f[x] + Sum(T \ {x})
      BY <1>0, <2>3, SumChosen
    <2> HIDE DEF x
    <2>10. \A U : U \in SUBSET S /\ U \notin F
                    => \A c \in U : Sum(U) = f[c] + Sum(U \ {c})
      OBVIOUS
    <2> HIDE DEF Sum
    <2>5. x # b
      BY <2>2, <2>4
    <2>6. T \ {x} \notin F /\ T \ {b} \notin F
      BY <2>1, <2>2, <2>3
    <2>7. /\ Sum(T \ {x}) = f[b] + Sum((T \ {x}) \ {b})
          /\ Sum(T \ {b}) = f[x] + Sum((T \ {b}) \ {x})
      BY <2>2, <2>3, <2>5, <2>6, <2>10
    <2>8. (T \ {x}) \ {b} = (T \ {b}) \ {x}
      OBVIOUS
    <2>9. Sum((T \ {b}) \ {x}) \in Int /\ f[b] \in Int /\ f[x] \in Int
      BY <1>0, <2>2, <2>3
    <2>11. PICK r \in Int : r = Sum((T \ {b}) \ {x})
      BY <2>9
    <2>12. Sum(T) = f[x] + (f[b] + r) /\ Sum(T \ {b}) = f[x] + r
      BY <2>4, <2>7, <2>8, <2>11
    <2>13. f[x] + (f[b] + r) = f[b] + (f[x] + r)
      BY <2>9, <2>11
    <2> QED
      BY <2>2, <2>12, <2>13
  <1> HIDE DEF Sum
  <1>2. Sum(S) = f[a] + Sum(S \ {a})
    BY <1>1
  <1> QED
    BY <1>2 DEF Sum

\* The sum depends on the values on the set alone.
LEMMA SumAgree ==
    ASSUME NEW S, IsFiniteSet(S), NEW f, NEW g, \A x \in S : f[x] = g[x]
    PROVE  SumFunctionOnSet(f, S) = SumFunctionOnSet(g, S)
  <1> DEFINE F == {T \in SUBSET S : SumFunctionOnSet(f, T) # SumFunctionOnSet(g, T)}
  <1>1. F = {}
    <2> SUFFICES ASSUME F # {} PROVE FALSE
      OBVIOUS
    <2>1. PICK T \in F : \A U \in F : U \subseteq T => U = T
      <3>1. F \in SUBSET (SUBSET S)
        OBVIOUS
      <3> HIDE DEF F
      <3> QED
        BY <3>1, MinimalMember
    <2>2. T # {}
      BY SumEmpty
    <2> DEFINE x == CHOOSE x \in T : TRUE
    <2>3. x \in T /\ T \ {x} \in SUBSET S /\ T \ {x} # T
      BY <2>2
    <2>4. IsFiniteSet(T)
      BY FS_Subset
    <2>5. /\ SumFunctionOnSet(f, T) = f[x] + SumFunctionOnSet(f, T \ {x})
          /\ SumFunctionOnSet(g, T) = g[x] + SumFunctionOnSet(g, T \ {x})
      BY <2>2, <2>4, SumChosen
    <2>6. SumFunctionOnSet(f, T \ {x}) = SumFunctionOnSet(g, T \ {x})
      BY <2>1, <2>3
    <2> QED
      BY <2>1, <2>3, <2>5, <2>6
  <1> QED
    BY <1>1

\* Zeros sum to zero.
LEMMA SumZero ==
    ASSUME NEW S, IsFiniteSet(S), NEW f, \A x \in S : f[x] = 0
    PROVE  SumFunctionOnSet(f, S) = 0
  <1> DEFINE F == {T \in SUBSET S : SumFunctionOnSet(f, T) # 0}
  <1>1. F = {}
    <2> SUFFICES ASSUME F # {} PROVE FALSE
      OBVIOUS
    <2>1. PICK T \in F : \A U \in F : U \subseteq T => U = T
      <3>1. F \in SUBSET (SUBSET S)
        OBVIOUS
      <3> HIDE DEF F
      <3> QED
        BY <3>1, MinimalMember
    <2>2. T # {}
      BY SumEmpty
    <2> DEFINE x == CHOOSE x \in T : TRUE
    <2>3. x \in T /\ T \ {x} \in SUBSET S /\ T \ {x} # T
      BY <2>2
    <2>4. IsFiniteSet(T)
      BY FS_Subset
    <2>5. SumFunctionOnSet(f, T) = f[x] + SumFunctionOnSet(f, T \ {x})
      BY <2>2, <2>4, SumChosen
    <2>6. SumFunctionOnSet(f, T \ {x}) = 0
      BY <2>1, <2>3
    <2> QED
      BY <2>1, <2>3, <2>5, <2>6
  <1> QED
    BY <1>1

\* A sum moves by what the one element that moves does.
LEMMA SumChange ==
    ASSUME NEW S, IsFiniteSet(S), NEW f, NEW g, NEW a \in S,
           \A x \in S : f[x] \in Int /\ g[x] \in Int,
           \A x \in S \ {a} : f[x] = g[x]
    PROVE  SumFunctionOnSet(g, S) = SumFunctionOnSet(f, S) - f[a] + g[a]
  <1>1. /\ SumFunctionOnSet(f, S) = f[a] + SumFunctionOnSet(f, S \ {a})
        /\ SumFunctionOnSet(g, S) = g[a] + SumFunctionOnSet(g, S \ {a})
    BY SumRemove
  <1>2. IsFiniteSet(S \ {a})
    BY FS_RemoveElement
  <1>3. SumFunctionOnSet(f, S \ {a}) = SumFunctionOnSet(g, S \ {a})
    BY <1>2, SumAgree
  <1>4. SumFunctionOnSet(f, S \ {a}) \in Int
    BY <1>2, SumType
  <1> QED
    BY <1>1, <1>3, <1>4

-----------------------------------------------------------------------------
(* Solvency: the vault holds the open escrows exactly.                     *)

\* What a move of the abstract ledger does to the vault, over all currencies.
LEMMA VaultMoves ==
    ASSUME TypeOK, NEW c \in Tokens, NEW from \in Holders, NEW to \in Holders,
           NEW amount \in Nat, Escrow!Move(c, from, to, amount)
    PROVE  SumFunctionOnSet(VaultBalances', Tokens)
             = SumFunctionOnSet(VaultBalances, Tokens)
                 - (IF from = Vault THEN amount ELSE 0)
                 + (IF to = Vault THEN amount ELSE 0)
  <1> DEFINE f == VaultBalances
             g == VaultBalances'
  <1>1. Vault \in Holders /\ balances \in [Tokens -> [Holders -> Nat]]
    BY DEF Holders, TypeOK
  <1>2. /\ balances'[c] = [h \in Holders |->
               balances[c][h] - (IF h = from THEN amount ELSE 0)
                              + (IF h = to THEN amount ELSE 0)]
        /\ \A t \in Tokens \ {c} : balances'[t] = balances[t]
    BY <1>1 DEF Escrow!Move, Holders
  <1>3. /\ \A t \in Tokens : f[t] = balances[t][Vault] /\ g[t] = balances'[t][Vault]
    BY DEF VaultBalances
  <1> HIDE DEF f, g
  <1>4. /\ \A t \in Tokens \ {c} : f[t] = g[t]
        /\ g[c] = f[c] - (IF from = Vault THEN amount ELSE 0)
                       + (IF to = Vault THEN amount ELSE 0)
        /\ \A t \in Tokens : f[t] \in Int
    BY <1>1, <1>2, <1>3
  <1>5. \A t \in Tokens : g[t] \in Int
    <2>1. g[c] \in Int
      BY <1>4
    <2> QED
      BY <2>1, <1>4
  <1>6. SumFunctionOnSet(g, Tokens) = SumFunctionOnSet(f, Tokens) - f[c] + g[c]
    BY <1>4, <1>5, TokensAssumption, SumChange
  <1>7. SumFunctionOnSet(f, Tokens) \in Int
    BY <1>4, TokensAssumption, SumType
  <1>8. f[c] \in Int
    BY <1>4
  <1>9. SumFunctionOnSet(g, Tokens) = SumFunctionOnSet(f, Tokens)
                 - (IF from = Vault THEN amount ELSE 0)
                 + (IF to = Vault THEN amount ELSE 0)
    BY <1>4, <1>6, <1>7, <1>8
  <1> QED
    BY <1>9 DEF f, g

\* The open escrows and their prices, as the abstract accounts show them.
LEMMA MappedFunded ==
    /\ FundedBookings = {b \in DOMAIN Mapped : Mapped[b].state = "Funded"}
    /\ DOMAIN Mapped = DOMAIN bookings
    /\ \A b \in DOMAIN Mapped : BookingPrices[b] = Mapped[b].amount
  BY DEF FundedBookings, Mapped, EscrowOf, BookingPrices

\* Bookings, hence open escrows, are finitely many.
LEMMA FundedFinite ==
    ASSUME bookings \in Seq(Booking)
    PROVE  IsFiniteSet(FundedBookings) /\ \A b \in FundedBookings : BookingPrices[b] \in Nat
  <1>1. DOMAIN bookings = 1 .. Len(bookings) /\ Len(bookings) \in Nat
    OBVIOUS
  <1>2. IsFiniteSet(DOMAIN bookings)
    BY <1>1, FS_Interval
  <1>3. IsFiniteSet(FundedBookings)
    BY <1>2, FS_Subset DEF FundedBookings
  <1>4. \A b \in DOMAIN bookings : BookingPrices[b] \in Nat
    BY FieldsLemma DEF BookingPrices
  <1> QED
    BY <1>3, <1>4 DEF FundedBookings

\* A step of the abstract accounts moves what the vault holds and what the
\* open escrows amount to alike.
LEMMA ExactStep ==
    ASSUME TypeOK, TypeOK', EscrowExact, [Escrow!Next]_(Escrow!vars)
    PROVE  EscrowExact'
  <1> DEFINE held == SumFunctionOnSet(VaultBalances, Tokens)
             owed == SumFunctionOnSet(BookingPrices, FundedBookings)
             F == FundedBookings
             P == BookingPrices
  <1>0. /\ bookings \in Seq(Booking) /\ bookings' \in Seq(Booking)
        /\ IsFiniteSet(F) /\ \A b \in F : P[b] \in Nat
        /\ IsFiniteSet(F') /\ \A b \in F' : P'[b] \in Nat
    <2>1. bookings \in Seq(Booking) /\ bookings' \in Seq(Booking)
      BY DEF TypeOK
    <2>2. IsFiniteSet(F') /\ \A b \in F' : P'[b] \in Nat
      <3>1. ASSUME (bookings \in Seq(Booking))'
            PROVE  (IsFiniteSet(FundedBookings) /\ \A b \in FundedBookings : BookingPrices[b] \in Nat)'
        BY <3>1, FundedFinite, PTL
      <3> QED
        BY <2>1, <3>1
    <2> QED
      BY <2>1, <2>2, FundedFinite
  <1>1. /\ F = {b \in DOMAIN Mapped : Mapped[b].state = "Funded"}
        /\ F' = {b \in DOMAIN Mapped' : Mapped'[b].state = "Funded"}
        /\ \A b \in DOMAIN Mapped : P[b] = Mapped[b].amount
        /\ \A b \in DOMAIN Mapped' : P'[b] = Mapped'[b].amount
    BY DEF FundedBookings, Mapped, EscrowOf, BookingPrices
  <1>2. /\ Mapped \in Seq(Account)
        /\ DOMAIN Mapped = DOMAIN bookings
    <2>1. \A b \in DOMAIN bookings : EscrowOf(bookings[b]) \in Account
      BY <1>0, FieldsLemma DEF EscrowOf, Account
    <2>2. DOMAIN bookings = 1 .. Len(bookings) /\ Len(bookings) \in Nat
      BY <1>0
    <2>3. Mapped \in [1 .. Len(bookings) -> Account]
      BY <2>1, <2>2 DEF Mapped
    <2> QED
      BY <2>2, <2>3, SeqDef DEF Mapped
  <1>3. held = owed /\ held \in Int
    <2>1. \A t \in Tokens : VaultBalances[t] \in Int
      BY DEF VaultBalances, TypeOK, Holders
    <2> QED
      BY <2>1, SumType, TokensAssumption DEF EscrowExact
  <1>4. (EscrowExact)' <=> held' = owed'
    BY DEF EscrowExact
  <1> HIDE DEF held, owed, F, P
  <1>5. ASSUME F' = F, \A b \in F : P'[b] = P[b]
        PROVE  owed' = owed
    BY <1>5, <1>0, SumAgree DEF owed, F, P
  <1>6. CASE UNCHANGED Escrow!vars
    <2>1. UNCHANGED Mapped /\ UNCHANGED balances
      BY <1>6 DEF Escrow!vars, Mapped
    <2>2. held' = held
      BY <2>1 DEF held, VaultBalances
    <2>3. owed' = owed
      BY <2>1, <1>1, <1>5
    <2> QED
      BY <2>2, <2>3, <1>3, <1>4
  <1>7. CASE Escrow!Open
    <2>1. PICK acc : /\ Mapped' = Append(Mapped, acc) /\ acc.state = "NotFunded"
                     /\ UNCHANGED balances
      <3>1. PICK a1 \in Accounts, a2 \in Accounts, amt \in Prices :
                Mapped' = Append(Mapped, [payer |-> a1, payee |-> a2, amount |-> amt,
                                          state |-> "NotFunded"])
        BY <1>7 DEF Escrow!Open, Mapped
      <3>2. UNCHANGED balances
        BY <1>7 DEF Escrow!Open
      <3> QED
        BY <3>1, <3>2
    <2>2. held' = held
      BY <2>1 DEF held, VaultBalances
    <2>3. /\ DOMAIN Mapped' = DOMAIN Mapped \cup {Len(Mapped) + 1}
          /\ Mapped'[Len(Mapped) + 1] = acc
          /\ \A b \in DOMAIN Mapped : Mapped'[b] = Mapped[b]
      BY <2>1, <1>2
    <2>4. F' = F /\ \A b \in F : P'[b] = P[b]
      BY <2>1, <2>3, <1>1
    <2> QED
      BY <2>2, <2>4, <1>3, <1>4, <1>5
  <1> DEFINE Rewritten(id) ==
               /\ DOMAIN Mapped' = DOMAIN Mapped
               /\ \A b \in DOMAIN Mapped : Mapped'[b].amount = Mapped[b].amount
               /\ \A b \in DOMAIN Mapped \ {id} : Mapped'[b] = Mapped[b]
  <1>8. ASSUME NEW id \in DOMAIN Mapped, NEW e \in EscrowStatus,
               Mapped' = [Mapped EXCEPT ![id].state = e]
        PROVE  Rewritten(id) /\ Mapped'[id].state = e
    BY <1>2, <1>8
  <1>9. ASSUME NEW id \in DOMAIN Mapped, Rewritten(id)
        PROVE  /\ P[id] \in Nat /\ P[id] = Mapped[id].amount
               /\ \A b \in DOMAIN Mapped : P'[b] = P[b]
    BY <1>0, <1>1, <1>2, <1>9, FieldsLemma DEF BookingPrices, P
  <1>10. ASSUME NEW id \in DOMAIN Mapped, Rewritten(id), NEW from \in Accounts,
                Mapped[id].state # "Funded", Mapped'[id].state = "Funded",
                NEW c \in Tokens, Escrow!Move(c, from, Vault, Mapped[id].amount)
         PROVE  EscrowExact'
    <2>1. P[id] \in Nat /\ held' = held + P[id]
      <3>1. P[id] \in Nat /\ P[id] = Mapped[id].amount
        BY <1>9, <1>10
      <3>2. from \in Holders /\ Vault \in Holders /\ from # Vault
        BY VaultAssumption DEF Holders
      <3> QED
        BY <3>1, <3>2, <1>3, <1>10, VaultMoves DEF held
    <2>2. F' \ {id} = F /\ id \in F' /\ F \subseteq DOMAIN Mapped
      BY <1>1, <1>10
    <2>3. SumFunctionOnSet(P', F') = P'[id] + SumFunctionOnSet(P', F' \ {id})
      <3>1. \A b \in F' : P'[b] \in Int
        BY <1>0 DEF F, P
      <3> QED
        BY <3>1, <2>2, <1>0, SumRemove DEF F
    <2>4. SumFunctionOnSet(P', F) = SumFunctionOnSet(P, F)
      <3>1. \A b \in F : P'[b] = P[b]
        BY <2>2, <1>9, <1>10
      <3> QED
        BY <3>1, <1>0, SumAgree DEF F
    <2>5. owed' = P[id] + owed
      BY <2>2, <2>3, <2>4, <1>9, <1>10 DEF owed, F, P
    <2> QED
      BY <2>1, <2>5, <1>3, <1>4
  <1>11. ASSUME NEW id \in DOMAIN Mapped, Rewritten(id), NEW to \in Accounts,
                Mapped[id].state = "Funded", Mapped'[id].state # "Funded",
                NEW c \in Tokens, Escrow!Move(c, Vault, to, Mapped[id].amount)
         PROVE  EscrowExact'
    <2>1. P[id] \in Nat /\ held' = held - P[id]
      <3>1. P[id] \in Nat /\ P[id] = Mapped[id].amount
        BY <1>9, <1>11
      <3>2. to \in Holders /\ Vault \in Holders /\ to # Vault
        BY VaultAssumption DEF Holders
      <3> QED
        BY <3>1, <3>2, <1>3, <1>11, VaultMoves DEF held
    <2>2. F \ {id} = F' /\ id \in F /\ F \subseteq DOMAIN Mapped
      BY <1>1, <1>11
    <2>3. SumFunctionOnSet(P, F) = P[id] + SumFunctionOnSet(P, F \ {id})
      <3>1. \A b \in F : P[b] \in Int
        BY <1>0 DEF F, P
      <3> QED
        BY <3>1, <2>2, <1>0, SumRemove DEF F
    <2>4. SumFunctionOnSet(P', F') = SumFunctionOnSet(P, F')
      <3>1. \A b \in F' : P'[b] = P[b]
        BY <2>2, <1>9, <1>11
      <3> QED
        BY <3>1, <1>0, SumAgree DEF F
    <2>5. owed = P[id] + owed' /\ owed' \in Int
      <3>1. \A b \in F' : P'[b] \in Int
        BY <1>0 DEF F, P
      <3>2. SumFunctionOnSet(P', F') \in Int
        BY <3>1, <1>0, SumType DEF F
      <3> QED
        BY <3>2, <2>2, <2>3, <2>4 DEF owed, F, P
    <2> QED
      BY <2>1, <2>5, <1>3, <1>4
  <1>12. ASSUME NEW id \in DOMAIN Mapped,
                Escrow!Deposit(id) \/ Escrow!Release(id) \/ Escrow!Refund(id)
         PROVE  EscrowExact'
    <2>1. Mapped[id].payer \in Accounts /\ Mapped[id].payee \in Accounts
      <3>1. Mapped[id] \in Account
        BY <1>2
      <3> QED
        BY <3>1 DEF Account
    <2>2. CASE Escrow!Deposit(id)
      <3>1. /\ Mapped[id].state = "NotFunded"
            /\ Mapped' = [Mapped EXCEPT ![id].state = "Funded"]
            /\ \E c \in Tokens : Escrow!Move(c, Mapped[id].payer, Vault, Mapped[id].amount)
        BY <2>2 DEF Escrow!Deposit, Escrow!Step, Mapped
      <3>2. Rewritten(id) /\ Mapped'[id].state = "Funded"
        BY <3>1, <1>8 DEF EscrowStatus
      <3> HIDE DEF Rewritten
      <3> QED
        BY <3>1, <3>2, <2>1, <1>10
    <2>3. CASE Escrow!Release(id)
      <3>1. /\ Mapped[id].state = "Funded"
            /\ Mapped' = [Mapped EXCEPT ![id].state = "Released"]
            /\ \E c \in Tokens : Escrow!Move(c, Vault, Mapped[id].payee, Mapped[id].amount)
        BY <2>3 DEF Escrow!Release, Escrow!Step, Mapped
      <3>2. Rewritten(id) /\ Mapped'[id].state = "Released"
        BY <3>1, <1>8 DEF EscrowStatus
      <3> HIDE DEF Rewritten
      <3> QED
        BY <3>1, <3>2, <2>1, <1>11
    <2>4. CASE Escrow!Refund(id)
      <3>1. /\ Mapped[id].state = "Funded"
            /\ Mapped' = [Mapped EXCEPT ![id].state = "Refunded"]
            /\ \E c \in Tokens : Escrow!Move(c, Vault, Mapped[id].payer, Mapped[id].amount)
        BY <2>4 DEF Escrow!Refund, Escrow!Step, Mapped
      <3>2. Rewritten(id) /\ Mapped'[id].state = "Refunded"
        BY <3>1, <1>8 DEF EscrowStatus
      <3> HIDE DEF Rewritten
      <3> QED
        BY <3>1, <3>2, <2>1, <1>11
    <2> QED
      BY <1>12, <2>2, <2>3, <2>4
  <1> QED
    BY <1>6, <1>7, <1>12 DEF Escrow!Next, Mapped

\* No account and no token starts with money in the vault, and no booking open.
LEMMA ExactInit == Init => EscrowExact
  <1> SUFFICES ASSUME Init PROVE EscrowExact
    OBVIOUS
  <1>1. FundedBookings = {}
    BY DEF Init, FundedBookings
  <1>2. \A t \in Tokens : VaultBalances[t] = 0
    BY DEF Init, VaultBalances, Holders
  <1>3. SumFunctionOnSet(VaultBalances, Tokens) = 0
    BY <1>2, TokensAssumption, SumZero
  <1> QED
    BY <1>1, <1>3, SumEmpty DEF EscrowExact

\* The vault is never short of a unit and never keeps one: over all tokens it
\* holds the prices of the open escrows exactly, whatever tokens the admin
\* points the contract at in between (set_token_address, and every call that
\* moves money).
THEOREM VaultIsExact == Spec => []EscrowExact
  <1>1. IInv /\ IInv' /\ EscrowExact /\ [Next]_vars => EscrowExact'
    BY RefinesStep, ExactStep DEF IInv
  <1> QED
    BY <1>1, ExactInit, InvariantHolds, PTL DEF Spec

\* What a sum of natural numbers contains is no more than the sum.
LEMMA SumIsNat ==
    ASSUME NEW S, IsFiniteSet(S), NEW f, \A x \in S : f[x] \in Nat
    PROVE  SumFunctionOnSet(f, S) \in Nat
  <1> DEFINE F == {T \in SUBSET S : SumFunctionOnSet(f, T) \notin Nat}
  <1>1. F = {}
    <2> SUFFICES ASSUME F # {} PROVE FALSE
      OBVIOUS
    <2>1. PICK T \in F : \A U \in F : U \subseteq T => U = T
      <3>1. F \in SUBSET (SUBSET S)
        OBVIOUS
      <3> HIDE DEF F
      <3> QED
        BY <3>1, MinimalMember
    <2>2. T # {}
      BY SumEmpty
    <2>3. PICK a \in T : TRUE
      BY <2>2
    <2>4. IsFiniteSet(T) /\ f[a] \in Nat /\ \A x \in T : f[x] \in Int
      BY FS_Subset
    <2>5. SumFunctionOnSet(f, T) = f[a] + SumFunctionOnSet(f, T \ {a})
      BY <2>4, SumRemove
    <2>6. T \ {a} \notin F
      BY <2>1, <2>3
    <2>7. SumFunctionOnSet(f, T \ {a}) \in Nat
      BY <2>6
    <2> QED
      BY <2>4, <2>5, <2>7
  <1> QED
    BY <1>1

LEMMA SumCovers ==
    ASSUME NEW S, IsFiniteSet(S), NEW f, \A x \in S : f[x] \in Nat, NEW a \in S
    PROVE  f[a] <= SumFunctionOnSet(f, S)
  <1>1. \A x \in S : f[x] \in Int
    OBVIOUS
  <1>2. SumFunctionOnSet(f, S) = f[a] + SumFunctionOnSet(f, S \ {a})
    BY <1>1, SumRemove
  <1>3. IsFiniteSet(S \ {a})
    BY FS_RemoveElement
  <1>4. SumFunctionOnSet(f, S \ {a}) \in Nat /\ f[a] \in Nat
    BY <1>3, SumIsNat
  <1> QED
    BY <1>2, <1>4

\* With one token only, the vault covers every open escrow.
EscrowsCovered ==
    \A t \in Tokens : Tokens = {t} =>
        \A b \in FundedBookings : bookings[b].total_price <= balances[t][Vault]

\* As long as the admin knows a single token, no cancellation, confirmation or
\* ruling is ever refused for want of money (SettleIfFunded, resolve_dispute).
\* With two it may be: the prices still add up, but in tokens of both kinds.
THEOREM OneTokenSuffices == Spec => []EscrowsCovered
  <1>1. TypeOK /\ EscrowExact => EscrowsCovered
    <2> SUFFICES ASSUME TypeOK, EscrowExact, NEW t \in Tokens, Tokens = {t}, NEW b \in FundedBookings
                 PROVE  bookings[b].total_price <= balances[t][Vault]
      BY DEF EscrowsCovered
    <2>1. b \in DOMAIN bookings /\ BookingPrices[b] = bookings[b].total_price
      BY DEF FundedBookings, BookingPrices
    <2>2. IsFiniteSet(FundedBookings) /\ \A c \in FundedBookings : BookingPrices[c] \in Nat
      BY FundedFinite DEF TypeOK
    <2>3. BookingPrices[b] <= SumFunctionOnSet(BookingPrices, FundedBookings)
      BY <2>2, SumCovers
    <2>4. VaultBalances[t] = balances[t][Vault] /\ VaultBalances[t] \in Nat
      BY DEF VaultBalances, TypeOK, Holders
    <2>5. SumFunctionOnSet(VaultBalances, Tokens) = VaultBalances[t]
      <3>1. \A x \in Tokens : VaultBalances[x] \in Int
        BY <2>4
      <3>2. SumFunctionOnSet(VaultBalances, Tokens)
              = VaultBalances[t] + SumFunctionOnSet(VaultBalances, Tokens \ {t})
        BY <3>1, TokensAssumption, SumRemove
      <3>3. Tokens \ {t} = {}
        OBVIOUS
      <3>4. SumFunctionOnSet(VaultBalances, Tokens \ {t}) = 0
        BY <3>3, SumEmpty
      <3> QED
        BY <2>4, <3>2, <3>4
    <2> QED
      BY <2>1, <2>3, <2>4, <2>5 DEF EscrowExact
  <1> QED
    BY <1>1, TypesCorrect, VaultIsExact, PTL
=============================================================================
