--------------------------- MODULE MCStoreRewrite ---------------------------
EXTENDS StoreRewrite

CONSTANTS a, b, c

MCFirstStore == <<[id |-> a, gen |-> 0], [id |-> b, gen |-> 0]>>
=============================================================================
