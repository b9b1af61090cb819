----------------------- MODULE MCRollingFileAppender -----------------------
(* Instances of RollingFileAppender for TLC.                               *)
EXTENDS RollingFileAppender, TLC

WriterSymmetry == Permutations(Writers)
=============================================================================
