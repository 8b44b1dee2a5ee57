--------------------------- MODULE MCAnalysisJobs ---------------------------
(* Instance of AnalysisJobs for TLC: two jobs, enough for an original and its *)
(* retry, every crash and every request at any moment.                        *)
EXTENDS AnalysisJobs
=============================================================================
