--------------------------- MODULE MCBookingDates ---------------------------
EXTENDS BookingDates, TLC

\* Two nights, taken one by one or together.
TwoNights == {{1}, {2}, {1, 2}}
OneNight == {{1}}

\* The calendar run stops where a proposal lapses: nobody takes it up any more, a
\* request that has taken it up does not look at the deadline again, and the sweep,
\* which has a run of its own, touches no nights.
NothingLapsed == \A p \in Proposals : proposal[p] # NoProposal => ~proposal[p].lapsed

Symmetry == Permutations(Requests) \cup Permutations(Bookings) \cup Permutations(Proposals)
=============================================================================
