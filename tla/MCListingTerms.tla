--------------------------- MODULE MCListingTerms ---------------------------
EXTENDS ListingTerms, TLC

Symmetry == Permutations(Requests) \cup Permutations(Complete)
=============================================================================
