------------------------------ MODULE Hill ------------------------------
(***************************************************************************)
(* What king of the hill promises, with no request, transaction, lock or   *)
(* clock of a database: each hill has a king or none, a king falls only to *)
(* somebody who lasted at least as long as he did, and whoever is king     *)
(* when the period ends, and only he, is the champion of it.               *)
(***************************************************************************)
EXTENDS Integers

CONSTANTS Hills, Reigns, Users, MaxMs, None

VARIABLES king,       \* of each hill: [id, user, blink], or None
          champions   \* those who were king at the end of a period

hvars == <<king, champions>>

Init ==
  /\ king = [h \in Hills |-> None]
  /\ champions = {}

\* The first king of a period is seated by hand.
Seed(h, k) ==
  /\ king[h] = None
  /\ king' = [king EXCEPT ![h] = k]
  /\ UNCHANGED champions

Crown(h, k) ==
  /\ king[h] # None
  /\ k.id # king[h].id
  /\ k.blink >= king[h].blink
  /\ king' = [king EXCEPT ![h] = k]
  /\ UNCHANGED champions

EndPeriod(h) ==
  /\ king[h] # None
  /\ champions' = champions \cup {king[h]}
  /\ king' = [king EXCEPT ![h] = None]

Next ==
  \E h \in Hills :
    \/ \E k \in [id : Reigns, user : Users, blink : 0..MaxMs] : Seed(h, k) \/ Crown(h, k)
    \/ EndPeriod(h)

Spec == Init /\ [][Next]_hvars
=========================================================================
