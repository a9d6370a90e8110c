------------------------------ MODULE Nullable ------------------------------
(***************************************************************************)
(* What the modules of pure values share: sequences, and the NULL that a   *)
(* function of the library returns for "none".                             *)
(***************************************************************************)
EXTENDS Integers, Sequences, FiniteSets, SequencesExt, FiniteSetsExt

CONSTANT NULL
=============================================================================
