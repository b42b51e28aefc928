----------------------------- MODULE MCJobsHTTP -----------------------------
(* The instance of JobsHTTP for model checking. *)
EXTENDS JobsHTTP
=============================================================================
