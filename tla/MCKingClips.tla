--------------------------- MODULE MCKingClips ---------------------------
(* Instances of KingClips: two players, one challenge at a time. *)
EXTENDS KingClips, TLC

CONSTANTS w1, u1, u2
==========================================================================
