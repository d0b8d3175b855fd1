-------------------------- MODULE MCMatchmaking --------------------------
(* Instances of Matchmaking: user 1 has two connections, users 2 and 3 one each. *)
(* Users 1 and 2 are out of distance of each other, user 3 is in distance of both *)
(* and as close to one as to the other, so that the time he waited decides.       *)
EXTENDS Matchmaking, TLC

CONSTANTS c1, e1, c2, c3

Owner == c1 :> 1 @@ e1 :> 1 @@ c2 :> 2 @@ c3 :> 3
MCUserOf == [c \in Conns |-> Owner[c]]
MCLevelOf == [u \in Users |-> <<4, 6, 5>>[u]]
==========================================================================
