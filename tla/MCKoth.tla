----------------------------- MODULE MCKoth -----------------------------
(* An instance of Koth: two challenges at a time, around the end of a month. *)
EXTENDS Koth, TLC

CONSTANTS w1, w2, u1, clip
=========================================================================
