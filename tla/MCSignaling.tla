--------------------------- MODULE MCSignaling ---------------------------
(* Instances of Signaling: user a has two connections, users b and d one each. *)
EXTENDS Signaling, TLC

CONSTANTS a1, a2, b1, d1, a, b, d

Owner == a1 :> a @@ a2 :> a @@ b1 :> b @@ d1 :> d
MCUserOf == [c \in Conns |-> Owner[c]]
Interchangeable == Permutations({a1, a2})
==========================================================================
