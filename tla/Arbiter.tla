---------------------------- MODULE Arbiter ----------------------------
(***************************************************************************)
(* What the signaling service promises about the battles of its rooms,     *)
(* with no hub, connection, timer or Redis: a battle opens in a vacant     *)
(* room, gets at most one verdict while it is open, and ends, possibly by  *)
(* a forfeit that is its verdict.  A verdict is never taken back.          *)
(***************************************************************************)
EXTENDS Naturals

CONSTANTS Rooms, Results   \* Results: what a verdict says (who won, who lost, how)

VARIABLES state,   \* of each room
          number,  \* of the battle now or last in each room
          decided  \* <<room, number, result>> of every verdict so far

avars == <<state, number, decided>>

Init ==
  /\ state = [r \in Rooms |-> "vacant"]
  /\ number = [r \in Rooms |-> 0]
  /\ decided = {}

Open(r) ==
  /\ state[r] = "vacant"
  /\ state' = [state EXCEPT ![r] = "open"]
  /\ number' = [number EXCEPT ![r] = @ + 1]
  /\ UNCHANGED decided

\* A verdict on the battle now in room r joins those of before.
Verdict(r) ==
  \E d \in decided' \ decided :
    /\ decided' = decided \cup {d}
    /\ d \in {r} \X {number[r]} \X Results

\* Reports or the confirmation buffer decide: the members stay in the room.
Decide(r) ==
  /\ state[r] = "open"
  /\ state' = [state EXCEPT ![r] = "decided"]
  /\ Verdict(r)
  /\ UNCHANGED number

\* A member leaves an undecided battle to his opponent.
Forfeit(r) ==
  /\ state[r] = "open"
  /\ state' = [state EXCEPT ![r] = "vacant"]
  /\ Verdict(r)
  /\ UNCHANGED number

\* The room ends: after a verdict, or before anybody else came.
Close(r) ==
  /\ state[r] # "vacant"
  /\ state' = [state EXCEPT ![r] = "vacant"]
  /\ UNCHANGED <<number, decided>>

Next ==
  \E r \in Rooms :
    Open(r) \/ Decide(r) \/ Forfeit(r) \/ Close(r)

Spec == Init /\ [][Next]_avars
==========================================================================
