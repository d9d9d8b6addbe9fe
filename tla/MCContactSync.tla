--------------------------- MODULE MCContactSync ---------------------------
EXTENDS ContactSync
=============================================================================
