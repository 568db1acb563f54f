------------------------------ MODULE MCJobLogs ------------------------------
(* An instance of JobLogs for TLC: every wait alone, over every item of    *)
(* two conditions or two replicas, and the two jobs with a pod of two      *)
(* containers.                                                             *)
EXTENDS JobLogs
=============================================================================
