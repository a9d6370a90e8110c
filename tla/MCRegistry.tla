----------------------------- MODULE MCRegistry -----------------------------
EXTENDS Registry

\* Handlers that end sessions, but never begin one.
Quiet == {"stop", "disconnect"}

\* With sync() they also begin one: it starts and connects as needed.
Syncing == Quiet \cup {"sync"}
All == Syncing \cup {"connect", "start"}
=============================================================================
