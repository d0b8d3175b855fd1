-------------------------------- MODULE Elo --------------------------------
(***************************************************************************)
(* What the ratings service promises: matches are applied one after        *)
(* another, each to the ratings both players have at that moment.          *)
(***************************************************************************)
EXTENDS Integers, Sequences

CONSTANTS
  Users,
  Default,      \* the rating [elo, level, games] of a player with no history
  Gain(_, _),   \* what the winner's elo changes by, from both ratings before
  Loss(_, _),   \* the same for the loser
  LevelOf(_)    \* the level an elo is in

VARIABLES rating,   \* of each user
          matches   \* the matches applied so far, in order

evars == <<rating, matches>>

Moved(before, delta) ==
  [elo |-> before.elo + delta, level |-> LevelOf(before.elo + delta), games |-> before.games + 1]

Init ==
  /\ rating = [u \in Users |-> Default]
  /\ matches = <<>>

Apply(winner, loser) ==
  LET up == Gain(rating[winner], rating[loser])
      down == Loss(rating[winner], rating[loser])
  IN /\ winner # loser
     /\ rating' = [rating EXCEPT ![winner] = Moved(@, up), ![loser] = Moved(@, down)]
     /\ matches' = Append(matches,
          [winner |-> winner, loser |-> loser, up |-> up, down |-> down,
           rose |-> Moved(rating[winner], up).level > rating[winner].level])

Next == \E winner, loser \in Users : Apply(winner, loser)

Spec == Init /\ [][Next]_evars
============================================================================
