----------------------------- MODULE MCStore -----------------------------
(* Instances of Store: an edit for one point and a free distraction for two, bought by a *)
(* user who may earn two: he can afford either, or the edit twice, not both.             *)
EXTENDS Store, TLC

CONSTANTS w1, w2, u1, edit, dist, k1

MCPointsPrice == [p \in Products |-> IF p = edit THEN 1 ELSE 2]
MCAmount == [k \in Keys |-> 2]
==========================================================================
