---------------------------- MODULE MCHumanThread ----------------------------
(* Instances of HumanThread for TLC.                                       *)
EXTENDS HumanThread
=============================================================================
