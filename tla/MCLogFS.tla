------------------------------ MODULE MCLogFS ------------------------------
EXTENDS LogFS
=============================================================================
