----------------------------- MODULE MCServices -----------------------------
(***************************************************************************)
(* The small services in one run. They share no state and no step, only    *)
(* the constants; a behaviour is one of a single service, chosen at the    *)
(* start, while the others stay in their initial states. So the run visits *)
(* the sum of their states and not the product.                            *)
(***************************************************************************)
EXTENDS Ratings, Ranks, Reports, Clips, Accounts, App, TLC

VARIABLE service

servicesVars == <<service, faults, ratingsVars, ranksVars, reportsVars, clipsVars, accountsVars, appVars>>

ServicesInit ==
  /\ service \in {"ratings", "ranks", "reports", "clips", "accounts", "process"}
  /\ faults = 0
  /\ RatingsInit /\ RanksInit /\ ReportsInit /\ ClipsInit /\ AccountsInit
  /\ AppInit /\ (service # "process" => app = "health")

ServicesNext ==
  /\ UNCHANGED service
  /\ \/ /\ service = "ratings" /\ RatingsNext
        /\ UNCHANGED <<ranksVars, reportsVars, clipsVars, accountsVars, appVars>>
     \/ /\ service = "ranks" /\ RanksNext
        /\ UNCHANGED <<ratingsVars, reportsVars, clipsVars, accountsVars, appVars>>
     \/ /\ service = "reports" /\ ReportsNext
        /\ UNCHANGED <<ratingsVars, ranksVars, clipsVars, accountsVars, appVars>>
     \/ /\ service = "clips" /\ ClipsNext
        /\ UNCHANGED <<ratingsVars, ranksVars, reportsVars, accountsVars, appVars>>
     \/ /\ service = "accounts" /\ AccountsNext
        /\ UNCHANGED <<ratingsVars, ranksVars, reportsVars, clipsVars, appVars>>
     \/ /\ service = "process" /\ AppNext
        /\ UNCHANGED <<ratingsVars, ranksVars, reportsVars, clipsVars, accountsVars>>

ServicesSpec == ServicesInit /\ [][ServicesNext]_servicesVars

\* Every service keeps its state well formed, whatever fails.
ServicesTypeOK == RatingsTypeOK /\ RanksTypeOK /\ ReportsTypeOK /\ ClipsStateOK /\ AccountsTypeOK /\ AppTypeOK

----------------------------------------------------------------------------
(* The instance: scores, levels, ranks and limits of a small scale *)

Expectations == [d \in 0..100 |-> 500 + 3 * d]
Levels == <<980, 1040, 1060>>
HoldTargets == <<2, 4>>
Account ==
  [c \in Codes |->
     CASE c = "c1" -> [sub |-> "a", email |-> "old"]
       [] c = "c2" -> [sub |-> "a", email |-> "new"]
       [] c = "c3" -> [sub |-> "b", email |-> "old"]
       [] OTHER -> [sub |-> "b", email |-> "new"]]
Alike == Permutations(Workers) \cup Permutations(Matches)
============================================================================
