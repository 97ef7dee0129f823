--------------------------- MODULE BookingContract ---------------------------
(***************************************************************************)
(* The booking contract together with the property-listing contract it     *)
(* calls and the token contract it moves money with.  A contract call is a *)
(* transaction: it happens as a whole, cross-contract calls included, or   *)
(* panics and leaves no trace.  The interleaving is that of the ledger:    *)
(* any signer may have any call accepted next.                             *)
(*                                                                         *)
(* The off-chain escrow reference (set_escrow_id) is a field nothing       *)
(* on-chain reads; storage time-to-live is left out.                       *)
(***************************************************************************)
EXTENDS PropertyListing, FiniteSets, Functions

CONSTANTS
    Vault,          \* the address of the booking contract itself
    Tokens,         \* token contracts the admin may point the contract at
    None,           \* an unset storage entry
    Days,           \* the dates a caller may pass
    EscrowIds,      \* off-chain escrow references
    MaxBookings,    \* bound: bookings ever created
    InitialBalance  \* what every account holds of every token at the start

ASSUME VaultAssumption == Vault \notin Accounts
ASSUME TokensAssumption == IsFiniteSet(Tokens)
ASSUME NoneAssumption == None \notin Accounts \cup Tokens \cup EscrowIds
ASSUME DaysAssumption == Days \subseteq Int
ASSUME MaxBookingsAssumption == MaxBookings \in Nat
ASSUME InitialBalanceAssumption == InitialBalance \in Nat

VARIABLES
    admin,              \* instance storage Admin; None before initialize
    token_addr,         \* instance storage TokenAddress
    bookings,           \* Booking(id): bookings[id], id counting from 1
    propertyBookings,   \* PropertyBookings(property): ids booked on it
    balances            \* the token contracts' own ledgers

bookingVars == << admin, token_addr, bookings, propertyBookings, balances >>
vars == << listings, bookingVars >>

BookingStatus == {"Pending", "Confirmed", "Cancelled", "Completed", "Disputed"}
EscrowStatus == {"NotFunded", "Funded", "Released", "Refunded"}

Booking == [property_id : PropertyIds, property_owner : Accounts,
            tenant : Accounts, check_in : Int, check_out : Int,
            total_price : Prices, status : BookingStatus,
            escrow_id : EscrowIds \cup {None}, escrow_status : EscrowStatus]

Holders == Accounts \cup {Vault}

booking_count == Len(bookings)

Init ==
    /\ ListingInit
    /\ admin = None
    /\ token_addr = None
    /\ bookings = << >>
    /\ propertyBookings = [p \in PropertyIds |-> {}]
    /\ balances = [t \in Tokens |->
                     [h \in Holders |-> IF h = Vault THEN 0 ELSE InitialBalance]]

----------------------------------------------------------------------------
(* Set-up.                                                                 *)

initialize(caller) ==
    /\ admin = None
    /\ admin' = caller
    /\ UNCHANGED << listings, token_addr, bookings, propertyBookings, balances >>

\* Nothing keeps the admin from changing the token while escrows are funded.
set_token_address(caller, token) ==
    /\ caller = admin
    /\ token_addr' = token
    /\ UNCHANGED << listings, admin, bookings, propertyBookings, balances >>

----------------------------------------------------------------------------
(* Creating a booking.                                                     *)

\* Half-open ranges: one stay may start on the day another ends.
Overlaps(in1, out1, in2, out2) == ~ (out1 <= in2 \/ in1 >= out2)

\* Mutant: completed stays free their dates again.
check_availability_completed_free(property_id, check_in, check_out) ==
    \A b \in propertyBookings[property_id] :
        \/ bookings[b].status \in {"Cancelled", "Completed"}
        \/ ~ Overlaps(check_in, check_out,
                      bookings[b].check_in, bookings[b].check_out)

check_availability(property_id, check_in, check_out) ==
    \A b \in propertyBookings[property_id] :
        \/ bookings[b].status = "Cancelled"
        \/ ~ Overlaps(check_in, check_out,
                      bookings[b].check_in, bookings[b].check_out)

create_booking(tenant, property_id, check_in, check_out, total_price) ==
    /\ booking_count < MaxBookings
    /\ admin # None
    /\ check_in < check_out
    /\ total_price > 0
    /\ check_availability(property_id, check_in, check_out)
    /\ bookings' = Append(bookings,
           [property_id |-> property_id,
            property_owner |-> listings[property_id].owner,
            tenant |-> tenant, check_in |-> check_in, check_out |-> check_out,
            total_price |-> total_price, status |-> "Pending",
            escrow_id |-> None, escrow_status |-> "NotFunded"])
    /\ propertyBookings' = [propertyBookings EXCEPT
                              ![property_id] = @ \cup {booking_count + 1}]
    /\ set_rented(property_id)      \* panics unless the listing is Active
    /\ UNCHANGED << admin, token_addr, balances >>

----------------------------------------------------------------------------
(* Escrow.                                                                 *)

\* The token contract's transfer: it panics on an insufficient balance.
\* Mutant: the balance is not checked.
transfer_unchecked(from, to, amount) ==
    /\ token_addr \in Tokens
    /\ balances' = [balances EXCEPT ![token_addr] =
          [h \in Holders |-> @[h] - (IF h = from THEN amount ELSE 0)
                                  + (IF h = to THEN amount ELSE 0)]]

transfer(from, to, amount) ==
    /\ token_addr \in Tokens
    /\ balances[token_addr][from] >= amount
    /\ balances' = [balances EXCEPT ![token_addr] =
          [h \in Holders |-> @[h] - (IF h = from THEN amount ELSE 0)
                                  + (IF h = to THEN amount ELSE 0)]]

SetBooking(id, status, escrow_status) ==
    bookings' = [bookings EXCEPT ![id].status = status,
                                 ![id].escrow_status = escrow_status]

fund_escrow(caller, id) ==
    /\ bookings[id].tenant = caller
    /\ bookings[id].status = "Pending"
    /\ bookings[id].escrow_status = "NotFunded"
    /\ transfer(caller, Vault, bookings[id].total_price)
    /\ SetBooking(id, "Pending", "Funded")
    /\ UNCHANGED << listings, admin, token_addr, propertyBookings >>

\* A funded escrow pays "to" out; any other is left as it is.
SettleIfFunded(id, to, status, escrow_status) ==
    \/ /\ bookings[id].escrow_status = "Funded"
       /\ transfer(Vault, to, bookings[id].total_price)
       /\ SetBooking(id, status, escrow_status)
    \/ /\ bookings[id].escrow_status # "Funded"
       /\ bookings' = [bookings EXCEPT ![id].status = status]
       /\ UNCHANGED balances

\* Mutant: a completed booking may be cancelled.
cancel_booking_completed(caller, id) ==
    /\ admin # None
    /\ bookings[id].tenant = caller \/ caller = admin
    /\ bookings[id].status \notin {"Cancelled", "Disputed"}
    /\ SettleIfFunded(id, bookings[id].tenant, "Cancelled", "Refunded")
    /\ UNCHANGED << listings, admin, token_addr, propertyBookings >>

cancel_booking(caller, id) ==
    /\ admin # None
    /\ bookings[id].tenant = caller \/ caller = admin
    /\ bookings[id].status \notin {"Cancelled", "Completed", "Disputed"}
    /\ SettleIfFunded(id, bookings[id].tenant, "Cancelled", "Refunded")
    /\ UNCHANGED << listings, admin, token_addr, propertyBookings >>

----------------------------------------------------------------------------
(* The admin's update_status, one action per target status.                *)

confirm(caller, id) ==
    /\ caller = admin
    /\ bookings[id].status = "Pending"
    /\ SettleIfFunded(id, bookings[id].property_owner, "Confirmed", "Released")
    /\ UNCHANGED << listings, admin, token_addr, propertyBookings >>

complete(caller, id) ==
    /\ caller = admin
    /\ bookings[id].status = "Confirmed"
    /\ bookings' = [bookings EXCEPT ![id].status = "Completed"]
    /\ UNCHANGED << listings, admin, token_addr, propertyBookings, balances >>

cancel(caller, id) ==
    /\ caller = admin
    /\ bookings[id].status \in {"Pending", "Confirmed"}
    /\ SettleIfFunded(id, bookings[id].tenant, "Cancelled", "Refunded")
    /\ UNCHANGED << listings, admin, token_addr, propertyBookings >>

update_status(caller, id) ==
    confirm(caller, id) \/ complete(caller, id) \/ cancel(caller, id)

----------------------------------------------------------------------------
(* Disputes.                                                               *)

\* Mutant: a booking may be disputed before its escrow is funded.
dispute_booking_unfunded(caller, id) ==
    /\ bookings[id].tenant = caller
    /\ bookings[id].status \in {"Pending", "Confirmed"}
    /\ bookings' = [bookings EXCEPT ![id].status = "Disputed"]
    /\ UNCHANGED << listings, admin, token_addr, propertyBookings, balances >>

dispute_booking(caller, id) ==
    /\ bookings[id].tenant = caller
    /\ bookings[id].escrow_status = "Funded"
    /\ bookings[id].status \in {"Pending", "Confirmed"}
    /\ bookings' = [bookings EXCEPT ![id].status = "Disputed"]
    /\ UNCHANGED << listings, admin, token_addr, propertyBookings, balances >>

\* Mutant: the decision is recorded but the escrow stays marked Funded.
resolve_dispute_unmarked(caller, id, release_to_owner) ==
    /\ caller = admin
    /\ bookings[id].status = "Disputed"
    /\ \/ /\ release_to_owner
          /\ transfer(Vault, bookings[id].property_owner, bookings[id].total_price)
          /\ SetBooking(id, "Completed", "Funded")
       \/ /\ ~ release_to_owner
          /\ transfer(Vault, bookings[id].tenant, bookings[id].total_price)
          /\ SetBooking(id, "Cancelled", "Funded")
    /\ UNCHANGED << listings, admin, token_addr, propertyBookings >>

\* Mutant: the two payees are swapped.
resolve_dispute_swapped(caller, id, release_to_owner) ==
    /\ caller = admin
    /\ bookings[id].status = "Disputed"
    /\ \/ /\ release_to_owner
          /\ transfer(Vault, bookings[id].tenant, bookings[id].total_price)
          /\ SetBooking(id, "Completed", "Released")
       \/ /\ ~ release_to_owner
          /\ transfer(Vault, bookings[id].property_owner, bookings[id].total_price)
          /\ SetBooking(id, "Cancelled", "Refunded")
    /\ UNCHANGED << listings, admin, token_addr, propertyBookings >>

resolve_dispute(caller, id, release_to_owner) ==
    /\ caller = admin
    /\ bookings[id].status = "Disputed"
    /\ \/ /\ release_to_owner
          /\ transfer(Vault, bookings[id].property_owner, bookings[id].total_price)
          /\ SetBooking(id, "Completed", "Released")
       \/ /\ ~ release_to_owner
          /\ transfer(Vault, bookings[id].tenant, bookings[id].total_price)
          /\ SetBooking(id, "Cancelled", "Refunded")
    /\ UNCHANGED << listings, admin, token_addr, propertyBookings >>

set_escrow_id(caller, id, escrow_id) ==
    /\ caller = admin
    /\ bookings' = [bookings EXCEPT ![id].escrow_id = escrow_id]
    /\ UNCHANGED << listings, admin, token_addr, propertyBookings, balances >>

----------------------------------------------------------------------------
Next ==
    \/ ListingNext /\ UNCHANGED bookingVars
    \/ \E a \in Accounts : initialize(a)
    \/ \E a \in Accounts, t \in Tokens : set_token_address(a, t)
    \/ \E a \in Accounts, p \in DOMAIN listings, d1, d2 \in Days, amt \in PriceInputs :
           create_booking(a, p, d1, d2, amt)
    \/ \E a \in Accounts, id \in DOMAIN bookings :
           \/ fund_escrow(a, id)
           \/ cancel_booking(a, id)
           \/ update_status(a, id)
           \/ dispute_booking(a, id)
           \/ \E r \in BOOLEAN : resolve_dispute(a, id, r)
           \/ \E e \in EscrowIds : set_escrow_id(a, id, e)

Spec == Init /\ [][Next]_vars

----------------------------------------------------------------------------
(* Properties.                                                             *)

\* Every storage entry is well formed, and every balance non-negative.
TypeOK ==
    /\ ListingTypeOK
    /\ admin \in Accounts \cup {None}
    /\ token_addr \in Tokens \cup {None}
    /\ bookings \in Seq(Booking)
    /\ booking_count <= MaxBookings
    /\ propertyBookings \in [PropertyIds -> SUBSET (DOMAIN bookings)]
    /\ balances \in [Tokens -> [Holders -> Nat]]

Live(b) == bookings[b].status # "Cancelled"

\* No two bookings of a property that are not cancelled cover a common night,
\* however often the owner reopens the listing in between (create_booking).
NoDoubleBooking ==
    \A b1, b2 \in DOMAIN bookings :
        (/\ b1 # b2
         /\ bookings[b1].property_id = bookings[b2].property_id
         /\ Live(b1) /\ Live(b2))
        => ~ Overlaps(bookings[b1].check_in, bookings[b1].check_out,
                      bookings[b2].check_in, bookings[b2].check_out)

\* The escrow and the booking never contradict each other: money is held only
\* while the booking is open, a dispute always has money to decide about, and
\* a completed booking never gave it back (all the calls that settle).
EscrowFollowsStatus ==
    \A b \in DOMAIN bookings :
        LET s == bookings[b].status  e == bookings[b].escrow_status IN
        /\ e = "Funded" => s \in {"Pending", "Disputed"}
        /\ s = "Disputed" => e = "Funded"
        /\ e = "Refunded" => s = "Cancelled"
        /\ e = "Released" => s \in {"Confirmed", "Completed", "Cancelled"}

FundedBookings == {b \in DOMAIN bookings : bookings[b].escrow_status = "Funded"}

VaultBalances == [t \in Tokens |-> balances[t][Vault]]

BookingPrices == [b \in DOMAIN bookings |-> bookings[b].total_price]

\* Over all tokens the contract holds the open escrows and not a unit more:
\* repointing it may exchange tokens between escrows, but loses none.
EscrowExact ==
    SumFunctionOnSet(VaultBalances, Tokens)
        = SumFunctionOnSet(BookingPrices, FundedBookings)

\* A booking that was cancelled or completed stays so, and an escrow that paid
\* out never changes again: no call settles a booking twice.
OutcomeIsFinal ==
    [][\A b \in DOMAIN bookings :
         /\ bookings[b].status \in {"Cancelled", "Completed"}
                => bookings'[b].status = bookings[b].status
         /\ bookings[b].escrow_status \in {"Released", "Refunded"}
                => bookings'[b].escrow_status = bookings[b].escrow_status]_vars

\* The escrow accounts the bookings amount to.
EscrowOf(b) == [payer |-> b.tenant, payee |-> b.property_owner,
                amount |-> b.total_price, state |-> b.escrow_status]

Escrow == INSTANCE EscrowAccounts WITH
    Parties <- Accounts, Currencies <- Tokens, Amounts <- Prices, ledger <- balances,
    accounts <- [b \in DOMAIN bookings |-> EscrowOf(bookings[b])]

\* The two contracts implement the escrow's promise: every unit that enters or
\* leaves the vault is one booking's price, once in and once out, to its owner
\* or its tenant, whatever the order of the calls.
EscrowPromise == Escrow!Spec
=============================================================================
