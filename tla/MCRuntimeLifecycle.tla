------------------------- MODULE MCRuntimeLifecycle -------------------------
EXTENDS RuntimeLifecycle
=============================================================================
