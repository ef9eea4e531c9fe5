------------------------ MODULE MCPerfMetrics ------------------------
(* Three threads in each of three tests: between the first and the last  *)
(* to be joined there is one more, and a slot is used again twice.       *)
EXTENDS PerfMetrics
======================================================================
