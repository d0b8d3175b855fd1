------------------------------- MODULE Ranks -------------------------------
(***************************************************************************)
(* The ranked hill: an attempt's hold time is turned into a rank of the    *)
(* day, the rank is compared with the one on record, recorded if higher,   *)
(* and paid for by the store. Every statement is a transaction of its own. *)
(***************************************************************************)
EXTENDS Requests, Integers, Sequences

CONSTANTS
  Climbers,      \* users who hold the ranked hill
  Days,          \* the days of the clock (UTC), from 1 on
  Thresholds,    \* hold times of the ranks, ascending
  HoldTimes,     \* hold times that are submitted
  MaxAttempts    \* bound on attempts

ASSUME RanksAssumption ==
  /\ None \notin Climbers
  /\ Days \subseteq Nat /\ 1 \in Days
  /\ Thresholds \in Seq(Int)
  /\ \A i, j \in DOMAIN Thresholds : i < j => Thresholds[i] < Thresholds[j]
  /\ HoldTimes \subseteq Int
  /\ MaxAttempts \in Nat

VARIABLES
  today,       \* the day of the clock
  hillRanks,   \* rows: the rank and the hold of a user on a day, rank 0 if there is none
  kphase,      \* where each request is
  attempt,     \* what it submits, and the rank it read
  paid,        \* the ranks the store was asked to credit: [user, day, rank]
  told,        \* the highest rank a user was told to have on a day
  attempts

ranksVars == <<today, hillRanks, kphase, attempt, paid, told, attempts>>

ComputeRank(heldMs) == Cardinality({i \in DOMAIN Thresholds : heldMs >= Thresholds[i]})

Ranking == 0..Len(Thresholds)
Attempt == [user : Climbers \cup {None}, day : Days, held : HoldTimes \cup {0}]
NoAttempt == [user |-> None, day |-> 1, held |-> 0]

RanksTypeOK ==
  /\ today \in Days
  /\ hillRanks \in [Climbers \X Days -> [rank : Ranking, hold : HoldTimes \cup {0}]]
  /\ kphase \in [Workers -> {"idle", "read", "upsert", "credit"}]
  /\ attempt \in [Workers -> Attempt]
  /\ paid \in SUBSET [user : Climbers, day : Days, rank : Ranking]
  /\ told \in [Climbers \X Days -> Ranking]
  /\ attempts \in 0..MaxAttempts

RanksInit ==
  /\ today = 1
  /\ hillRanks = [ud \in Climbers \X Days |-> [rank |-> 0, hold |-> 0]]
  /\ kphase = [w \in Workers |-> "idle"]
  /\ attempt = [w \in Workers |-> NoAttempt]
  /\ paid = {}
  /\ told = [ud \in Climbers \X Days |-> 0]
  /\ attempts = 0

----------------------------------------------------------------------------
RowFor(w) == <<attempt[w].user, attempt[w].day>>
Achieved(w) == ComputeRank(attempt[w].held)

Answer(ud, rank) == told' = [told EXCEPT ![ud] = IF rank > @ THEN rank ELSE @]
EndAttempt(w) ==
  /\ kphase' = [kphase EXCEPT ![w] = "idle"]
  /\ attempt' = [attempt EXCEPT ![w] = NoAttempt]

\* The day is read once, before anything of the database is: a hold of no time is refused.
SubmitAttempt(w, u, heldMs) ==
  /\ kphase[w] = "idle"
  /\ heldMs > 0
  /\ attempts < MaxAttempts
  /\ attempts' = attempts + 1
  /\ attempt' = [attempt EXCEPT ![w] = [user |-> u, day |-> today, held |-> heldMs]]
  /\ kphase' = [kphase EXCEPT ![w] = "read"]
  /\ UNCHANGED <<today, hillRanks, paid, told, faults>>

\* GetRank: an attempt that is not better than the rank on record is answered with that.
GetRank(w) ==
  LET current == hillRanks[RowFor(w)].rank IN
  /\ kphase[w] = "read"
  /\ IF Achieved(w) > current
       THEN kphase' = [kphase EXCEPT ![w] = "upsert"] /\ UNCHANGED <<attempt, told>>
       ELSE Answer(RowFor(w), current) /\ EndAttempt(w)
  /\ UNCHANGED <<today, hillRanks, paid, attempts, faults>>

\* INSERT ... ON CONFLICT DO UPDATE ... WHERE: the row may have risen since it was read.
Upserted_Blindly(row, rank, held) == [rank |-> rank, hold |-> held]   \* mutation: without WHERE
Upserted(row, rank, held) == IF rank > row.rank THEN [rank |-> rank, hold |-> held] ELSE row
UpsertRank(w) ==
  LET up == [hillRanks EXCEPT ![RowFor(w)] = Upserted(@, Achieved(w), attempt[w].held)] IN
  /\ kphase[w] = "upsert"
  /\ \/ /\ hillRanks' = up
        /\ kphase' = [kphase EXCEPT ![w] = "credit"]
        /\ UNCHANGED <<attempt, faults>>
     \/ hillRanks' \in {hillRanks, up} /\ Fault /\ EndAttempt(w)
  /\ UNCHANGED <<today, paid, told, attempts>>

\* creditRankUp, then the answer; an error of the store is logged.
CreditRankUp(w) ==
  LET more == paid \cup {[user |-> attempt[w].user, day |-> attempt[w].day, rank |-> Achieved(w)]} IN
  /\ kphase[w] = "credit"
  /\ \/ paid' = more /\ UNCHANGED faults
     \/ paid' \in {paid, more} /\ Fault
  /\ Answer(RowFor(w), Achieved(w))
  /\ EndAttempt(w)
  /\ UNCHANGED <<today, hillRanks, attempts>>

\* An error of GetRank, a caller that goes away, or a restart.
AbortAttempt(w) ==
  /\ kphase[w] # "idle"
  /\ Fault
  /\ EndAttempt(w)
  /\ UNCHANGED <<today, hillRanks, paid, told, attempts>>

\* Me: the rank of today, which may have begun a moment ago.
Me(u) ==
  /\ Answer(<<u, today>>, hillRanks[<<u, today>>].rank)
  /\ UNCHANGED <<today, hillRanks, kphase, attempt, paid, attempts, faults>>

Midnight ==
  /\ today + 1 \in Days
  /\ today' = today + 1
  /\ UNCHANGED <<hillRanks, kphase, attempt, paid, told, attempts, faults>>

RanksNext ==
  \/ \E w \in Workers :
       \/ \E u \in Climbers, heldMs \in HoldTimes : SubmitAttempt(w, u, heldMs)
       \/ GetRank(w) \/ UpsertRank(w) \/ CreditRankUp(w) \/ AbortAttempt(w)
  \/ \E u \in Climbers : Me(u)
  \/ Midnight

RanksSpec == RanksInit /\ faults = 0 /\ [][RanksNext]_<<ranksVars, faults>>

----------------------------------------------------------------------------
(* Properties *)

\* Two attempts of a player overlap, over midnight too, and the rank on record is still the best
\* he was told of and the best that was paid for, with the hold that reached it; and as long as
\* nothing fails the rank on record is paid for, or about to be (SubmitAttempt of
\* rank_service.go compares with a rank it read earlier; upsertRankSQL compares again).
BestRankKept ==
  /\ \A ud \in Climbers \X Days :
       /\ told[ud] <= hillRanks[ud].rank
       /\ hillRanks[ud].rank > 0 => hillRanks[ud].rank = ComputeRank(hillRanks[ud].hold)
       /\ faults = 0 /\ hillRanks[ud].rank > 0 =>
            \/ [user |-> ud[1], day |-> ud[2], rank |-> hillRanks[ud].rank] \in paid
            \/ \E w \in Workers :
                 kphase[w] = "credit" /\ RowFor(w) = ud /\ Achieved(w) = hillRanks[ud].rank
  /\ \A c \in paid : c.rank <= hillRanks[<<c.user, c.day>>].rank
============================================================================
