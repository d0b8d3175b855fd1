----------------------------- MODULE Lobby -----------------------------
(***************************************************************************)
(* What matchmaking promises of the tickets players wait with: a ticket    *)
(* waits, is withdrawn or is matched with the ticket of another player who *)
(* waits at that very moment, and a matched ticket never waits again.      *)
(***************************************************************************)
CONSTANTS Players, Numbers

Tickets == Players \X Numbers

VARIABLES waiting,   \* the tickets in the lobby
          matched    \* the pairs of tickets made so far, as two-element sets

lvars == <<waiting, matched>>

Init == waiting = {} /\ matched = {}

\* A player enters with a new ticket, which may replace one he waits with.
Enter(t) ==
  /\ t \notin waiting \cup UNION matched
  /\ \E old \in SUBSET {w \in waiting : w[1] = t[1]} :
       waiting' = (waiting \ old) \cup {t}
  /\ UNCHANGED matched

\* Tickets are withdrawn: a player left, or the lobby was forgotten.
Withdraw(gone) ==
  /\ waiting' = waiting \ gone
  /\ UNCHANGED matched

Match(s, t) ==
  /\ s[1] # t[1]
  /\ {s, t} \subseteq waiting
  /\ waiting' = waiting \ {s, t}
  /\ matched' = matched \cup {{s, t}}

Next ==
  \/ \E t \in Tickets : Enter(t)
  \/ \E gone \in SUBSET waiting : Withdraw(gone)
  \/ \E s, t \in waiting : Match(s, t)

Spec == Init /\ [][Next]_lvars
==========================================================================
