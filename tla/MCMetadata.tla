----------------------------- MODULE MCMetadata -----------------------------
EXTENDS Metadata
=============================================================================
