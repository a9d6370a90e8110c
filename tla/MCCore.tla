------------------------------- MODULE MCCore -------------------------------
\* Core with handlers that call back into it.
EXTENDS Core

AllCalls == {"connect", "disconnect", "sync", "send"}
=============================================================================
