------------------------------ MODULE Ratings ------------------------------
(***************************************************************************)
(* The ratings service: the transaction that applies a match result (both  *)
(* rows materialized, then locked, in ascending order of the user ids) and *)
(* the credits of points it asks of the store once that is committed.      *)
(*                                                                         *)
(* One SQL statement that may wait is one action. The updates, the insert  *)
(* of the result and the commit are one: both rows are locked and nobody   *)
(* sees them before the commit. Abstracted: the mode and the duration of a *)
(* match, and the ids of results that rolled back.                         *)
(***************************************************************************)
EXTENDS Requests, Integers, Sequences

CONSTANTS
  Users,              \* user ids, which are ordered
  DefaultELO,
  CalibrationGames,   \* below this many games the K-factor is doubled
  MaxDiff,            \* differences of elo beyond it are expected to end as it does
  ExpectedScore,      \* of the stronger player, in thousandths, by the difference
  Bands,              \* the highest elo of each level but the last, ascending
  MaxMatches          \* bound on results

Scores == 0..1000   \* of a match, in thousandths

ASSUME RatingsAssumption ==
  /\ Users \subseteq Nat \ {0}
  /\ None \notin Users \cup [elo : Int, level : Nat, games : Nat]
  /\ DefaultELO \in Int
  /\ CalibrationGames \in Nat
  /\ MaxDiff \in Nat
  /\ ExpectedScore \in [0..MaxDiff -> Scores]
  /\ Bands \in Seq(Int)
  /\ MaxMatches \in Nat

VARIABLES
  ratings,    \* the committed row of a user, or None
  results,    \* the committed match results, by id
  rowLock,    \* the transaction that holds the row of a user, or will have inserted it
  rphase,     \* where each request is
  applying,   \* the match it applies, and what it read and wrote
  won         \* the credits the store was asked for: [user, reason, match]

ratingsVars == <<ratings, results, rowLock, rphase, applying, won>>

Rating == [elo : Int, level : 1..(Len(Bands) + 1), games : Nat]
Result == [winner : Users, loser : Users, up : Int, down : Int, rose : BOOLEAN]
Match == [winner : Users \cup {None}, loser : Users \cup {None},
          read : [Users -> Rating \cup {None}], id : Nat]
InTx == {"upsertFirst", "upsertSecond", "lockFirst", "lockSecond", "update"}
RatingsPhases == InTx \cup {"idle", "creditWin", "creditLevel"}

NothingRead == [u \in Users |-> None]
NoMatch == [winner |-> None, loser |-> None, read |-> NothingRead, id |-> 0]

RatingsTypeOK ==
  /\ ratings \in [Users -> Rating \cup {None}]
  /\ results \in Seq(Result)
  /\ rowLock \in [Users -> Workers \cup {None}]
  /\ rphase \in [Workers -> RatingsPhases]
  /\ applying \in [Workers -> Match]
  /\ won \in SUBSET [user : Users, reason : {"match_win", "level_up"}, match : Nat]

----------------------------------------------------------------------------
(* The arithmetic of elo *)

KFactor(games) == IF games < CalibrationGames THEN 64 ELSE 32

Capped(d) == IF d > MaxDiff THEN MaxDiff ELSE d

\* The score expected of a player with this many points more than the other.
Expected(d) ==
  IF d >= 0 THEN ExpectedScore[Capped(d)] ELSE 1000 - ExpectedScore[Capped(-d)]

\* n divided by m, to the nearest integer, halves away from zero (math.Round).
Rounded(n, m) == IF n >= 0 THEN (2 * n + m) \div (2 * m) ELSE -((m - 2 * n) \div (2 * m))

WinnerDelta(w, l) == Rounded(KFactor(w.games) * (1000 - Expected(w.elo - l.elo)), 1000)

\* The loser is spared a fifth of what it should cost.
LoserDelta(w, l) == Rounded(-4 * KFactor(l.games) * (1000 - Expected(w.elo - l.elo)), 5000)

LevelForELO_FromZero(elo) == Cardinality({i \in DOMAIN Bands : elo > Bands[i]})   \* mutation: from 0
LevelForELO(elo) == 1 + Cardinality({i \in DOMAIN Bands : elo > Bands[i]})

DefaultRating == [elo |-> DefaultELO, level |-> LevelForELO(DefaultELO), games |-> 0]

\* GetRating: a player without a row has the defaults.
GetRating(u) == IF ratings[u] = None THEN DefaultRating ELSE ratings[u]

After(before, delta) ==
  [elo |-> before.elo + delta, level |-> LevelForELO(before.elo + delta), games |-> before.games + 1]

----------------------------------------------------------------------------
RatingsInit ==
  /\ ratings = [u \in Users |-> None]
  /\ results = <<>>
  /\ rowLock = [u \in Users |-> None]
  /\ rphase = [w \in Workers |-> "idle"]
  /\ applying = [w \in Workers |-> NoMatch]
  /\ won = {}

\* The order of the locks, so that the same two players cannot be locked crosswise.
FirstID_Winner(w) == applying[w].winner   \* mutation: in the order the caller names them
FirstID(w) == IF applying[w].winner < applying[w].loser THEN applying[w].winner ELSE applying[w].loser
SecondID(w) == IF FirstID(w) = applying[w].winner THEN applying[w].loser ELSE applying[w].winner

\* The user whose row the statement of a phase is about.
RowOf(w) == IF rphase[w] \in {"upsertFirst", "lockFirst"} THEN FirstID(w) ELSE SecondID(w)

NextPhase(p) == CASE p = "upsertFirst" -> "upsertSecond"
                  [] p = "upsertSecond" -> "lockFirst"
                  [] p = "lockFirst" -> "lockSecond"
                  [] OTHER -> "update"

Advance(w, p) == rphase' = [rphase EXCEPT ![w] = p]

End(w) == Advance(w, "idle") /\ applying' = [applying EXCEPT ![w] = NoMatch]

\* The end of a transaction frees its rows.
Released(w) == [u \in Users |-> IF rowLock[u] = w THEN None ELSE rowLock[u]]

\* A posted result. The same player twice is refused.
PostMatchResult(w, winner, loser) ==
  /\ rphase[w] = "idle"
  /\ winner # loser
  /\ Len(results) + Cardinality({v \in Workers : rphase[v] \in InTx}) < MaxMatches
  /\ applying' = [applying EXCEPT ![w] = [NoMatch EXCEPT !.winner = winner, !.loser = loser]]
  /\ Advance(w, "upsertFirst")
  /\ UNCHANGED <<ratings, results, rowLock, won, faults>>

\* INSERT ... ON CONFLICT DO NOTHING: waits for an insert of the same row that is not committed,
\* not for a lock on a row that is.
UpsertDefault(w) ==
  LET u == RowOf(w) IN
  /\ rphase[w] \in {"upsertFirst", "upsertSecond"}
  /\ \/ ratings[u] # None /\ UNCHANGED rowLock
     \/ /\ ratings[u] = None /\ rowLock[u] \in {None, w}
        /\ rowLock' = [rowLock EXCEPT ![u] = w]
  /\ Advance(w, NextPhase(rphase[w]))
  /\ UNCHANGED <<ratings, results, applying, won, faults>>

\* SELECT ... FOR UPDATE: waits for the holder and reads what he committed.
Holds(w, u) == rowLock[u] \in {None, w}
LockRating(w) ==
  LET u == RowOf(w) IN
  /\ rphase[w] \in {"lockFirst", "lockSecond"}
  /\ Holds(w, u)
  /\ rowLock' = [rowLock EXCEPT ![u] = w]
  /\ applying' = [applying EXCEPT ![w].read[u] = GetRating(u)]
  /\ Advance(w, NextPhase(rphase[w]))
  /\ UNCHANGED <<ratings, results, won, faults>>

\* The rows, the result and the commit. If the answer to the commit is lost the caller is told
\* of an error and nothing is credited.
LeveledUp_Reached(before, after) == after.level >= before.level   \* mutation: >=
LeveledUp(before, after) == after.level > before.level
Commit(w) ==
  LET winner == applying[w].winner  loser == applying[w].loser
      w0 == applying[w].read[winner]  l0 == applying[w].read[loser]
      up == WinnerDelta(w0, l0)  down == LoserDelta(w0, l0)
  IN /\ rphase[w] = "update"
     /\ ratings' = [ratings EXCEPT ![winner] = After(w0, up), ![loser] = After(l0, down)]
     /\ results' = Append(results, [winner |-> winner, loser |-> loser, up |-> up, down |-> down,
                                    rose |-> LeveledUp(w0, After(w0, up))])
     /\ rowLock' = Released(w)
     /\ \/ /\ applying' = [applying EXCEPT ![w].id = Len(results) + 1]
           /\ Advance(w, "creditWin")
           /\ UNCHANGED faults
        \/ Fault /\ End(w)
     /\ UNCHANGED won

\* A statement fails, or the caller goes away: the transaction rolls back.
Rollback(w) ==
  /\ rphase[w] \in InTx
  /\ Fault
  /\ rowLock' = Released(w)
  /\ End(w)
  /\ UNCHANGED <<ratings, results, won>>

\* PointsClient.Credit: done; failed; or done and reported as failed. A failure is logged.
Credit(w, reason) ==
  LET c == [user |-> applying[w].winner, reason |-> reason, match |-> applying[w].id] IN
  \/ won' = won \cup {c} /\ UNCHANGED faults
  \/ won' \in {won, won \cup {c}} /\ Fault

\* The second credit is asked for only if the level of the winner rose.
Rose_Always(id) == TRUE   \* mutation: without the check
Rose(id) == results[id].rose
CreditMatchWin(w) ==
  /\ rphase[w] = "creditWin"
  /\ Credit(w, "match_win")
  /\ IF Rose(applying[w].id) THEN Advance(w, "creditLevel") /\ UNCHANGED applying ELSE End(w)
  /\ UNCHANGED <<ratings, results, rowLock>>

CreditLevelUp(w) ==
  /\ rphase[w] = "creditLevel"
  /\ Credit(w, "level_up")
  /\ End(w)
  /\ UNCHANGED <<ratings, results, rowLock>>

\* The process ends: every open transaction rolls back, what was committed is not credited.
RatingsCrash ==
  /\ Fault
  /\ rphase' = [w \in Workers |-> "idle"]
  /\ applying' = [w \in Workers |-> NoMatch]
  /\ rowLock' = [u \in Users |-> None]
  /\ UNCHANGED <<ratings, results, won>>

RatingsStep(w) ==
  \/ UpsertDefault(w) \/ LockRating(w) \/ Commit(w) \/ CreditMatchWin(w) \/ CreditLevelUp(w)

RatingsNext ==
  \/ \E w \in Workers :
       \/ \E winner, loser \in Users : PostMatchResult(w, winner, loser)
       \/ RatingsStep(w) \/ Rollback(w)
  \/ RatingsCrash

RatingsSpec == RatingsInit /\ faults = 0 /\ [][RatingsNext]_<<ratingsVars, faults>>

----------------------------------------------------------------------------
(* Properties *)

\* ListMatchHistory: the matches a user played, whichever way they went.
MatchHistory(u) == {i \in DOMAIN results : u \in {results[i].winner, results[i].loser}}

PlayedMatches == INSTANCE Elo WITH
  Default <- DefaultRating, Gain <- WinnerDelta, Loss <- LoserDelta, LevelOf <- LevelForELO,
  rating <- [u \in Users |-> GetRating(u)], matches <- results

\* Transactions of the same players overlap, fail and roll back; still the ratings move as if
\* one match came after another, each reckoned from what both players had right before it
\* (ApplyMatchResult of ratings_repository.go): no update is lost and no result is half there.
ImplementsElo == PlayedMatches!Spec

\* Who is paid for a match won it, and it is in the history; who is paid for a level rose to it
\* by that match; and as long as nothing fails every match and every rise is paid for once its
\* request is over (creditWinner of ratings_service.go, which runs after the commit and may be cut
\* off anywhere).
PointsAreWon ==
  /\ \A c \in won :
       /\ c.match \in MatchHistory(c.user) /\ results[c.match].winner = c.user
       /\ c.reason = "level_up" => results[c.match].rose
  /\ faults = 0 => \A i \in DOMAIN results :
       \/ \E w \in Workers : rphase[w] \in {"creditWin", "creditLevel"} /\ applying[w].id = i
       \/ \A reason \in {"match_win"} \cup (IF results[i].rose THEN {"level_up"} ELSE {}) :
            [user |-> results[i].winner, reason |-> reason, match |-> i] \in won

\* Whoever waits for a row waits for somebody who goes on: the transactions of a few players,
\* each over two rows, never wait for each other in a circle (the ascending order of the locks
\* in ratings_repository.go, behind inserts that lock too).
Waits(w) ==
  \/ rphase[w] \in {"upsertFirst", "upsertSecond"} /\ ratings[RowOf(w)] = None
       /\ rowLock[RowOf(w)] \notin {None, w}
  \/ rphase[w] \in {"lockFirst", "lockSecond"} /\ rowLock[RowOf(w)] \notin {None, w}

SomebodyGoesOn ==
  (\E w \in Workers : rphase[w] \in InTx) =>
    \E w \in Workers : rphase[w] \in InTx /\ ~Waits(w)
============================================================================
