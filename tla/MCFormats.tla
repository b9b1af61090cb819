------------------------------ MODULE MCFormats ------------------------------
(* Instances of Formats for TLC.                                           *)
EXTENDS Formats
=============================================================================
