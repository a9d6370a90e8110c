----------------------------- MODULE MCObjects ------------------------------
EXTENDS Objects
=============================================================================
