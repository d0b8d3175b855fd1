----------------------------- MODULE Ledger -----------------------------
(***************************************************************************)
(* What the store promises of points, with no request, transaction, lock   *)
(* or cache: every change of a balance is an entry of an append-only       *)
(* ledger, a key is entered once for a user, and nobody spends what he     *)
(* does not have.                                                          *)
(***************************************************************************)
EXTENDS Integers

CONSTANTS Users, Keys, Deltas   \* Deltas: the amounts that may be earned or, negative, spent

VARIABLES balance,   \* of each user
          ledger     \* the entries [user, key, delta] so far

lvars == <<balance, ledger>>

Entered(u, k) == \E e \in ledger : e.user = u /\ e.key = k

Init ==
  /\ balance = [u \in Users |-> 0]
  /\ ledger = {}

\* Points are earned (delta > 0) or spent (delta < 0).
Enter(u, k, delta) ==
  /\ ~Entered(u, k)
  /\ balance[u] + delta >= 0
  /\ balance' = [balance EXCEPT ![u] = @ + delta]
  /\ ledger' = ledger \cup {[user |-> u, key |-> k, delta |-> delta]}

Next == \E u \in Users, k \in Keys, delta \in Deltas : Enter(u, k, delta)

Spec == Init /\ [][Next]_lvars

\* No key of a user is entered twice.
KeyEnteredOnce ==
  \A d, e \in ledger : d.user = e.user /\ d.key = e.key => d = e
==========================================================================
