---------------------------- MODULE MCMigration -----------------------------
(* Migration for TLC: the sets of model values are in the cfgs. *)
EXTENDS Migration

CONSTANTS api_key, sub_token, sub1, sub2, sub3, sample1, sample2
=============================================================================
