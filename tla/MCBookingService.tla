-------------------------- MODULE MCBookingService --------------------------
EXTENDS BookingService, TLC

Symmetry == Permutations(Requests)

\* No step reads the history, so states that differ only in it have the same
\* future; runs whose properties do not mention it leave it out of the state.
WithoutHistory ==
  <<row, refund, earnings, window, provider, creation, req, crashes>>
=============================================================================
