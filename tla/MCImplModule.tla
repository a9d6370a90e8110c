---------------------------- MODULE MCImplModule ----------------------------
EXTENDS ImplModule
=============================================================================
