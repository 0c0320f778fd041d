------------------------------ MODULE MCFetchJob -----------------------------
(* FetchJob for TLC.  The workers of Qiita are model values of the .cfg files. *)
EXTENDS FetchJob
=============================================================================
