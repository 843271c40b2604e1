------------------------- MODULE MC_ClientRegistry -------------------------
EXTENDS ClientRegistry
=============================================================================
