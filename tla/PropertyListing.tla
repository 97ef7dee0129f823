--------------------------- MODULE PropertyListing ---------------------------
(***************************************************************************)
(* The property-listing contract: listings created, edited and opened or   *)
(* closed by their owner, and flipped to Rented by whoever books them.     *)
(* One action is one contract call; a call whose assertion fails panics    *)
(* and rolls back, so it is no step at all.                                *)
(*                                                                         *)
(* Titles and descriptions are left out (no call reads them back), and so  *)
(* is the time-to-live of the storage entries.                             *)
(***************************************************************************)
EXTENDS Integers, Sequences

CONSTANTS
    Accounts,       \* the addresses that sign transactions
    PriceInputs,    \* the amounts a caller may pass, rejected ones included
    MaxListings     \* bound: listings ever created

ASSUME PriceInputsAssumption == PriceInputs \subseteq Int
ASSUME MaxListingsAssumption == MaxListings \in Nat

VARIABLE listings       \* Listing(id): listings[id], id counting from 1

Prices == {p \in PriceInputs : p > 0}

ListingStatus == {"Active", "Inactive", "Rented"}

Listing == [owner : Accounts, price_per_night : Prices, status : ListingStatus]

PropertyIds == 1 .. MaxListings

listing_count == Len(listings)

ListingInit == listings = << >>

create_listing(owner, price_per_night) ==
    /\ listing_count < MaxListings
    /\ price_per_night > 0
    /\ listings' = Append(listings, [owner |-> owner,
                                     price_per_night |-> price_per_night,
                                     status |-> "Active"])

update_listing(caller, id, price_per_night) ==
    /\ listings[id].owner = caller
    /\ price_per_night > 0
    /\ listings' = [listings EXCEPT ![id].price_per_night = price_per_night]

\* The owner may set any status, whatever bookings the listing has.
update_listing_status(caller, id, status) ==
    /\ listings[id].owner = caller
    /\ listings' = [listings EXCEPT ![id].status = status]

\* No signature is asked for: the booking contract calls it, and anybody may.
set_rented(id) ==
    /\ listings[id].status = "Active"
    /\ listings' = [listings EXCEPT ![id].status = "Rented"]

ListingNext ==
    \/ \E a \in Accounts, p \in PriceInputs : create_listing(a, p)
    \/ \E a \in Accounts, id \in DOMAIN listings, p \in PriceInputs :
           update_listing(a, id, p)
    \/ \E a \in Accounts, id \in DOMAIN listings, s \in ListingStatus :
           update_listing_status(a, id, s)
    \/ \E id \in DOMAIN listings : set_rented(id)

\* Every listing is well formed.
ListingTypeOK ==
    /\ listings \in Seq(Listing)
    /\ listing_count <= MaxListings
=============================================================================
