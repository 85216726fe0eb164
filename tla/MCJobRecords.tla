---------------------------- MODULE MCJobRecords ----------------------------
(***************************************************************************)
(* Chains of two and of three jobs.                                        *)
(***************************************************************************)
EXTENDS JobRecords

CONSTANTS j1, j2, j3

\* Two jobs, and all that users and crashes can do to them
Pair == <<j1, j2>>

\* Three jobs that are left alone
Triple == <<j1, j2, j3>>
=============================================================================
