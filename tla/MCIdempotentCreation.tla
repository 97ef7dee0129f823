------------------------ MODULE MCIdempotentCreation ------------------------
EXTENDS IdempotentCreation
=============================================================================
