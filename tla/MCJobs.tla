------------------------------- MODULE MCJobs -------------------------------
(* One job, two workers and one scheduler loop.  What this leaves out, more *)
(* jobs and overlapping loops, is in the scope of JobRuntimeProofs.         *)
EXTENDS JobRuntimeRefinement
=============================================================================
