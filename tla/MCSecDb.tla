------------------------------- MODULE MCSecDb -------------------------------
(* Two clients contend for one reader's slot and the writer mutex; three   *)
(* connections are one more than clients can hold, so that one is pooled.  *)
EXTENDS SecDb

CONSTANTS c1, c2, k1, k2, k3
=============================================================================
