------------------------------ MODULE MCJobsMA ------------------------------
(* Small instances of JobsMA for TLC; the configurations give the constants. *)
EXTENDS JobsMA
=============================================================================
