------------------------------- MODULE MCHuman -------------------------------
(* Instances of Human for TLC.                                             *)
EXTENDS Human
=============================================================================
