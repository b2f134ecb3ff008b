--------------------------- MODULE MCSolarCollect ---------------------------
(* The instance of SolarCollect for TLC: its constants are numbers.        *)
EXTENDS SolarCollect
=============================================================================
