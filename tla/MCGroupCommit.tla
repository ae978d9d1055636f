--------------------------- MODULE MCGroupCommit ---------------------------
EXTENDS GroupCommit
=============================================================================
