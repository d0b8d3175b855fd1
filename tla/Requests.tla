----------------------------- MODULE Requests -----------------------------
(***************************************************************************)
(* What the small services (ratings, ranks, reports, clips) have in common: *)
(* goroutines that serve one HTTP request each, and faults: an error of a   *)
(* database, of Redis, of the object store or of another service, a lost    *)
(* answer, or a restart of the process.                                     *)
(***************************************************************************)
EXTENDS Naturals, FiniteSets

CONSTANTS
  Workers,     \* goroutines that serve requests
  MaxFaults,   \* bound on faults
  None         \* no row, no key, nobody

VARIABLE faults   \* faults so far

ASSUME RequestsAssumption ==
  /\ MaxFaults \in Nat
  /\ None \notin Workers

\* Something fails that the code answers or logs.
Fault == faults < MaxFaults /\ faults' = faults + 1
===========================================================================
