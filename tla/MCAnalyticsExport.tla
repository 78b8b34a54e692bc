------------------------- MODULE MCAnalyticsExport -------------------------
(* Instances of AnalyticsExport for TLC. *)
EXTENDS AnalyticsExport, TLC
=============================================================================
