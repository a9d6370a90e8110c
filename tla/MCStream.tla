------------------------------ MODULE MCStream ------------------------------
EXTENDS Stream

\* Handlers also iterate the main context (a core.sync(), a nested main loop).
Iterating == {"start", "stop", "iterate"}
=============================================================================
