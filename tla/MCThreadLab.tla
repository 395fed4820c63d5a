----------------------------- MODULE MCThreadLab -----------------------------
(***************************************************************************)
(* Instances of ThreadLab for TLC.  The sizes are small stand-ins for the  *)
(* #defines of thread.h and keep what these satisfy: the blocks cover the  *)
(* data, histo_4's unrolling divides a block, and DATA_MAX is not a        *)
(* multiple of BUCKET_SIZE, so that two values share a bucket.             *)
(***************************************************************************)
EXTENDS ThreadLab
=============================================================================
