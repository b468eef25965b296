---------------------------- MODULE MCRebuildJobs ----------------------------
(***************************************************************************)
(* Instances of RebuildJobs for TLC.                                       *)
(***************************************************************************)
EXTENDS RebuildJobs
=============================================================================
