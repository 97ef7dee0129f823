------------------------- MODULE MCAccountDeletion -------------------------
EXTENDS AccountDeletion
=============================================================================
