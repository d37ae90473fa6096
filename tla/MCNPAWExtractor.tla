--------------------------- MODULE MCNPAWExtractor ---------------------------
(* Small instances of NPAWExtractor for TLC.                               *)
EXTENDS NPAWExtractor, TLC

=============================================================================
