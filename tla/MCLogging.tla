------------------------------ MODULE MCLogging ------------------------------
(* Instances of Logging for TLC.                                           *)
EXTENDS Logging

CONSTANTS s1, s2, screen, console

(* The appender given to init has a terminal of its own, and the two sinks *)
(* share another.                                                          *)
MCOutput == [a \in Appenders |-> IF a \in Sinks THEN screen ELSE console]
=============================================================================
