------------------------ MODULE MCListingModeration ------------------------
EXTENDS ListingModeration, TLC

Symmetry == Permutations(Reports) \cup Permutations(Requests) \cup Permutations(Visitors)
=============================================================================
