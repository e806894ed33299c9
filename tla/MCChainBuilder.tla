--------------------------- MODULE MCChainBuilder ---------------------------
EXTENDS ChainBuilder

CONSTANTS web, websecure

MCEntryPoints == {web, websecure}

=============================================================================
