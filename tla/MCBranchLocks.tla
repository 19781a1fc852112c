---------------------------- MODULE MCBranchLocks ----------------------------
(* BranchLocks for TLC: two requests and one background thread.            *)
EXTENDS BranchLocks
CONSTANTS r1, r2, w1
=============================================================================
