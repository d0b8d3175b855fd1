------------------------------ MODULE Store ------------------------------
(***************************************************************************)
(* The store service: points, purchases and rewarded distractions. Each    *)
(* HTTP request is a handler goroutine; several run at once over one       *)
(* Postgres database and a Redis cache of balances. Stripe charges the     *)
(* client and delivers the event of a payment again and again until it is  *)
(* acknowledged, and may deliver it later too.                             *)
(*                                                                         *)
(* A SQL statement that may have to wait for a row is one action, and so   *)
(* are a commit and a Redis command. Postgres runs at READ COMMITTED: what *)
(* a transaction wrote is seen by others once it commits; until then the   *)
(* rows and unique keys it wrote are locked, and a statement that needs    *)
(* them waits, then works on what was committed. Statements between two    *)
(* waits are merged into one action, since a transaction that is given up  *)
(* leaves no trace of them. The limiter of rewards may answer anything.    *)
(* The catalog, the list of the inventory and the session lookup change    *)
(* nothing and are left out.                                               *)
(***************************************************************************)
EXTENDS Integers, FiniteSets, FiniteSetsExt

CONSTANTS
  Workers,     \* requests being handled at a time
  Users,
  Products,
  Edits,       \* the products of kind edit: owned or not; the others are distractions
  FreeOnes,    \* the free distractions
  PointsPrice, \* in points, None for a product sold for money only
  Keys,        \* reason and reference of a credit; a credit without one has a key of its own
  Amount,      \* the delta Credit resolves: explicit, or of the reason
  Orders,      \* bound: ids of purchases
  MaxRewards,  \* bound: rewards granted
  MaxFailures, \* bound: requests that fail in Postgres, in Redis or in this process
  None

ASSUME StoreAssumption ==
  /\ Edits \subseteq Products /\ FreeOnes \subseteq Products \ Edits
  /\ PointsPrice \in [Products -> (Nat \ {0}) \cup {None}]
  /\ Amount \in [Keys -> Nat \ {0}]
  /\ Orders \subseteq Nat /\ Keys \cap Orders = {}
  /\ MaxRewards \in Nat /\ MaxFailures \in Nat
  /\ None \notin Users \cup Products \cup Keys \cup Orders \cup Nat

VARIABLES
  \* Postgres, as committed
  balance, ledger, purchases, inventory,
  \* Redis: points:balance:<user>
  cache,
  \* Stripe: of each order, whether it was paid and its event acknowledged
  payment,
  \* handlers: where each one is, its parameters and locals, its open transaction
  phase, job, tx,
  \* requests that failed; rewards granted; users whose cached balance nobody will correct
  failures, rewards, lapsed

db == <<balance, ledger, purchases, inventory>>
handlers == <<phase, job, tx>>
history == <<failures, rewards, lapsed>>
vars == <<db, cache, payment, handlers, history>>

----------------------------------------------------------------------------
(* Types *)

Phases == {"idle", "entering", "adding", "debiting", "ordering", "confirming", "granting",
           "committing", "clearing", "filling", "awarding"}

EntryKeys == Keys \cup Orders    \* the reference of a spending is the id of its purchase
Entry == [user : Users, key : EntryKeys, delta : Int]
Purchase == [user : Users, product : Products, provider : {"stripe", "points"},
             status : {"pending", "paid"}]
ASSUME NoneAssumption == None \notin Entry \cup Purchase

\* seen: the balance a reader found; overtaken: one changed since.
Job == [user : Users \cup {None}, product : Products \cup {None}, key : Keys \cup {None},
        order : Orders \cup {None}, seen : Nat, overtaken : BOOLEAN]
NoJob == [user |-> None, product |-> None, key |-> None, order |-> None,
          seen |-> 0, overtaken |-> FALSE]
JobOf(u) == [NoJob EXCEPT !.user = u]

\* What a transaction has written: an entry, its change of a balance, the order it inserted or
\* confirmed, the product it granted. Each is locked, the balance when delta is not 0.
Tx == [entry : Entry \cup {None}, delta : Int, order : Orders \cup {None},
       bought : Purchase \cup {None}, goods : Products \cup {None}]
NoTx == [entry |-> None, delta |-> 0, order |-> None, bought |-> None, goods |-> None]

TypeOK ==
  /\ balance \in [Users -> Nat]
  /\ ledger \in SUBSET Entry
  /\ purchases \in [Orders -> Purchase \cup {None}]
  /\ inventory \in [Users -> [Products -> Nat]]
  /\ cache \in [Users -> Nat \cup {None}]
  /\ payment \in [Orders -> {"none", "paid", "acknowledged"}]
  /\ phase \in [Workers -> Phases]
  /\ job \in [Workers -> Job]
  /\ tx \in [Workers -> Tx]
  /\ failures \in 0..MaxFailures
  /\ rewards \in [Users -> [Products -> Nat]]
  /\ lapsed \in SUBSET Users

----------------------------------------------------------------------------
Init ==
  /\ balance = [u \in Users |-> 0]
  /\ ledger = {}
  /\ purchases = [o \in Orders |-> None]
  /\ inventory = [u \in Users |-> [p \in Products |-> 0]]
  /\ cache = [u \in Users |-> None]
  /\ payment = [o \in Orders |-> "none"]
  /\ phase = [w \in Workers |-> "idle"]
  /\ job = [w \in Workers |-> NoJob]
  /\ tx = [w \in Workers |-> NoTx]
  /\ failures = 0
  /\ rewards = [u \in Users |-> [p \in Products |-> 0]]
  /\ lapsed = {}

----------------------------------------------------------------------------
(* Handlers and locks *)

Goto(w, p) == phase' = [phase EXCEPT ![w] = p]
Serve(w, p, j) ==
  /\ phase[w] = "idle"
  /\ Goto(w, p)
  /\ job' = [job EXCEPT ![w] = j]
Finish(w) == Goto(w, "idle") /\ job' = [job EXCEPT ![w] = NoJob]
Write(w, t) == tx' = [tx EXCEPT ![w] = t]

\* Nobody but w has written the row or key.
BalanceFree_Always(w, u) == TRUE   \* mutation: the balance is read without taking its row
BalanceFree(w, u) == \A v \in Workers \ {w} : ~(tx[v].delta # 0 /\ job[v].user = u)
KeyFree(w, u, k) ==
  \A v \in Workers \ {w} :
    ~(tx[v].entry # None /\ tx[v].entry.user = u /\ tx[v].entry.key = k)
OrderFree(w, o) == \A v \in Workers \ {w} : tx[v].order # o
\* The user has the edit p already.
Owned(u, p) == p \in Edits /\ inventory[u][p] > 0
\* ON CONFLICT DO NOTHING does not lock the row of an edit that is there.
GoodsFree(w, u, p) ==
  \A v \in Workers \ {w} : ~(tx[v].goods = p /\ job[v].user = u /\ ~Owned(u, p))

\* An identity that no purchase has, committed or not.
NewOrder(o) == purchases[o] = None /\ \A v \in Workers : tx[v].order # o

\* Bound: a purchase is begun only if an identity is left for it.
OrdersLeft == Cardinality({w \in Workers : phase[w] \in {"debiting", "ordering"}})
                < Cardinality({o \in Orders : NewOrder(o)})

----------------------------------------------------------------------------
(* Credit *)

\* A credit request of another service; one that resolves to no positive amount changes nothing.
Credit(w, u, k) ==
  /\ Serve(w, "entering", [JobOf(u) EXCEPT !.key = k])
  /\ UNCHANGED <<db, cache, payment, tx, history>>

\* INSERT of the ledger row: a key that is there already ends the transaction.
IsRepeated_Never(u, k) == FALSE   \* mutation: credited again
IsRepeated(u, k) == \E e \in ledger : e.user = u /\ e.key = k
EnterCredit(w) ==
  LET u == job[w].user k == job[w].key IN
  /\ phase[w] = "entering"
  /\ KeyFree(w, u, k)
  /\ IF IsRepeated(u, k)
       THEN Goto(w, "clearing") /\ UNCHANGED tx
       ELSE /\ Goto(w, "adding")
            /\ Write(w, [NoTx EXCEPT !.entry = [user |-> u, key |-> k, delta |-> Amount[k]]])
  /\ UNCHANGED <<db, cache, payment, job, history>>

\* The upsert adds to the balance as it was committed.
AddToBalance(w) ==
  /\ phase[w] = "adding"
  /\ BalanceFree(w, job[w].user)
  /\ Write(w, [tx[w] EXCEPT !.delta = tx[w].entry.delta])
  /\ Goto(w, "committing")
  /\ UNCHANGED <<db, cache, payment, job, history>>

----------------------------------------------------------------------------
(* Purchases *)

\* A purchase with points: the ownership check, before the transaction.
Buy(w, u, p) ==
  /\ OrdersLeft
  /\ PointsPrice[p] # None
  /\ ~Owned(u, p)
  /\ Serve(w, "debiting", [JobOf(u) EXCEPT !.product = p])
  /\ UNCHANGED <<db, cache, payment, tx, history>>

\* The conditional UPDATE finds too little: it waits for nobody, and the transaction ends.
DebitTooMuch(w) ==
  /\ phase[w] = "debiting"
  /\ balance[job[w].user] < PointsPrice[job[w].product]
  /\ Finish(w)
  /\ UNCHANGED <<db, cache, payment, tx, history>>

\* The conditional UPDATE takes the row and debits; then the purchase and its ledger row.
Debit(w, o) ==
  LET u == job[w].user p == job[w].product price == PointsPrice[p] IN
  /\ phase[w] = "debiting"
  /\ NewOrder(o) /\ BalanceFree(w, u)
  /\ balance[u] >= price
  /\ Write(w, [NoTx EXCEPT !.delta = -price, !.order = o,
                 !.entry = [user |-> u, key |-> o, delta |-> -price],
                 !.bought = [user |-> u, product |-> p, provider |-> "points",
                             status |-> "paid"]])
  /\ Goto(w, "granting")
  /\ UNCHANGED <<db, cache, payment, job, history>>

\* A purchase with money: the ownership check; then the payment intent and the pending row.
Order(w, u, p) ==
  /\ OrdersLeft
  /\ ~Owned(u, p)
  /\ Serve(w, "ordering", [JobOf(u) EXCEPT !.product = p])
  /\ UNCHANGED <<db, cache, payment, tx, history>>

CreatePurchase(w, o) ==
  /\ phase[w] = "ordering"
  /\ NewOrder(o)
  /\ purchases' = [purchases EXCEPT ![o] =
       [user |-> job[w].user, product |-> job[w].product, provider |-> "stripe",
        status |-> "pending"]]
  /\ Finish(w)
  /\ UNCHANGED <<balance, ledger, inventory, cache, payment, tx, history>>

\* The client pays the intent whose secret he was given.
Pay(o) ==
  /\ payment[o] = "none"
  /\ purchases[o] # None /\ purchases[o].provider = "stripe"
  /\ payment' = [payment EXCEPT ![o] = "paid"]
  /\ UNCHANGED <<db, cache, handlers, history>>

Acknowledge(o) == payment' = [payment EXCEPT ![o] = "acknowledged"]

\* Stripe delivers the event: WebhookEventExists, FindByProviderRef. There is one event of
\* a payment, so that its id stands on the purchase as soon as that is paid.
Webhook(w, o) ==
  /\ payment[o] # "none"
  /\ phase[w] = "idle"
  /\ IF purchases[o].status = "paid"
       THEN Acknowledge(o) /\ UNCHANGED <<phase, job>>
       ELSE /\ Serve(w, "confirming", [JobOf(purchases[o].user) EXCEPT
                       !.product = purchases[o].product, !.order = o])
            /\ UNCHANGED payment
  /\ UNCHANGED <<db, cache, tx, history>>

\* ConfirmAndGrant: UPDATE of the purchase that no event confirmed yet, if it is one.
Unconfirmed_Any(o) == TRUE   \* mutation: stripe_event_id IS NULL dropped
Unconfirmed(o) == purchases[o].status = "pending"
Confirm(w) ==
  LET o == job[w].order IN
  /\ phase[w] = "confirming"
  /\ OrderFree(w, o)
  /\ IF Unconfirmed(o)
       THEN /\ Write(w, [NoTx EXCEPT !.order = o,
                           !.bought = [purchases[o] EXCEPT !.status = "paid"]])
            /\ Goto(w, "granting")
            /\ UNCHANGED <<payment, job>>
       ELSE Acknowledge(o) /\ Finish(w) /\ UNCHANGED tx
  /\ UNCHANGED <<db, cache, history>>

\* The upsert of the inventory, which ends both kinds of purchase.
Grant(w) ==
  /\ phase[w] = "granting"
  /\ GoodsFree(w, job[w].user, job[w].product)
  /\ Write(w, [tx[w] EXCEPT !.goods = job[w].product])
  /\ Goto(w, "committing")
  /\ UNCHANGED <<db, cache, payment, job, history>>

----------------------------------------------------------------------------
(* Commit, and what follows it *)

\* One more of a distraction; an edit is had once.
Granted(u, p) ==
  [inventory EXCEPT ![u][p] = IF p \in Edits THEN 1 ELSE @ + 1]

\* Readers of the balance of u on their way to the cache.
Overtaken(u) ==
  [v \in Workers |-> IF phase[v] = "filling" /\ job[v].user = u
                       THEN [job[v] EXCEPT !.overtaken = TRUE] ELSE job[v]]

LedgerWith(t) == ledger \cup {t.entry}

Apply(w) ==
  LET t == tx[w] u == job[w].user IN
  /\ phase[w] = "committing"
  /\ balance' = [balance EXCEPT ![u] = @ + t.delta]
  /\ ledger' = IF t.entry = None THEN ledger ELSE LedgerWith(t)
  /\ purchases' = IF t.order = None THEN purchases ELSE [purchases EXCEPT ![t.order] = t.bought]
  /\ inventory' = IF t.goods = None THEN inventory ELSE Granted(u, t.goods)
  /\ Write(w, NoTx)

\* A transaction of points goes on to the cache, that of a webhook is acknowledged.
Commit(w) ==
  /\ Apply(w)
  /\ IF job[w].order = None
       THEN /\ Goto(w, "clearing")
            /\ job' = Overtaken(job[w].user)
            /\ UNCHANGED payment
       ELSE Finish(w) /\ Acknowledge(job[w].order)
  /\ UNCHANGED <<cache, history>>

\* DeleteBalance.
Cleared_Kept(u) == cache   \* mutation: the cache is not invalidated
Cleared(u) == [cache EXCEPT ![u] = None]
Clear(w) ==
  /\ phase[w] = "clearing"
  /\ cache' = Cleared(job[w].user)
  /\ lapsed' = lapsed \ {job[w].user}
  /\ Finish(w)
  /\ UNCHANGED <<db, payment, tx, failures, rewards>>

----------------------------------------------------------------------------
(* Reading the balance *)

\* GetBalance, on a miss or an error of the cache: the read of Postgres ...
GetBalance(w, u) ==
  /\ Serve(w, "filling", [JobOf(u) EXCEPT !.seen = balance[u]])
  /\ UNCHANGED <<db, cache, payment, tx, history>>

\* ... and SetBalance with what it found.
SetBalance(w) ==
  LET u == job[w].user IN
  /\ phase[w] = "filling"
  /\ cache' = [cache EXCEPT ![u] = job[w].seen]
  /\ lapsed' = IF job[w].overtaken THEN lapsed \cup {u} ELSE lapsed \ {u}
  /\ Finish(w)
  /\ UNCHANGED <<db, payment, tx, failures, rewards>>

ExpireBalance(u) ==
  /\ cache[u] # None
  /\ cache' = [cache EXCEPT ![u] = None]
  /\ lapsed' = lapsed \ {u}
  /\ UNCHANGED <<db, payment, handlers, failures, rewards>>

----------------------------------------------------------------------------
(* Rewarded distractions *)

RewardsGiven == MapThenSumSet(LAMBDA up : rewards[up[1]][up[2]], Users \X Products)
RewardsDue == Cardinality({w \in Workers : phase[w] = "awarding"})

\* A request that the limiter allows; another changes nothing.
Reward(w, u, p) ==
  /\ p \in FreeOnes
  /\ RewardsGiven + RewardsDue < MaxRewards
  /\ Serve(w, "awarding", [JobOf(u) EXCEPT !.product = p])
  /\ UNCHANGED <<db, cache, payment, tx, history>>

\* The upsert of the inventory, a transaction of its own.
Award(w) ==
  LET u == job[w].user p == job[w].product IN
  /\ phase[w] = "awarding"
  /\ GoodsFree(w, u, p)
  /\ inventory' = Granted(u, p)
  /\ rewards' = [rewards EXCEPT ![u][p] = @ + 1]
  /\ Finish(w)
  /\ UNCHANGED <<balance, ledger, purchases, cache, payment, tx, failures, lapsed>>

----------------------------------------------------------------------------
(* Failures *)

\* Stripe's view of a delivery that was answered with an error: it is not acknowledged.
AfterFailure_Ok(w) ==   \* mutation: an error is answered with success
  IF job[w].order = None THEN payment ELSE [payment EXCEPT ![job[w].order] = "acknowledged"]
AfterFailure(w) == payment

Failing(w) ==
  /\ failures < MaxFailures
  /\ failures' = failures + 1
  /\ payment' = AfterFailure(w)
  /\ Goto(w, "idle")
  /\ UNCHANGED rewards

\* An error or a crash ends a request: its transaction is rolled back. An error of the cache
\* is only logged, with the same effect: the balance in it stays.
Fail(w) ==
  /\ phase[w] # "idle"
  /\ Failing(w)
  /\ job' = [job EXCEPT ![w] = NoJob]
  /\ Write(w, NoTx)
  /\ lapsed' = IF phase[w] = "clearing" THEN lapsed \cup {job[w].user} ELSE lapsed
  /\ UNCHANGED <<db, cache>>

\* The answer to the commit is lost: the request ends with an error all the same.
CommitUnanswered(w) ==
  /\ Apply(w)
  /\ Failing(w)
  /\ job' = [Overtaken(job[w].user) EXCEPT ![w] = NoJob]
  /\ lapsed' = IF tx[w].delta = 0 THEN lapsed ELSE lapsed \cup {job[w].user}
  /\ UNCHANGED cache

----------------------------------------------------------------------------
\* What a handler does next by itself.
Step(w) ==
  \/ EnterCredit(w) \/ AddToBalance(w) \/ DebitTooMuch(w)
  \/ \E o \in Orders : Debit(w, o) \/ CreatePurchase(w, o)
  \/ Confirm(w) \/ Grant(w) \/ Commit(w) \/ Clear(w)
  \/ SetBalance(w) \/ Award(w)

\* The requests of clients and of the other services.
Request(w) ==
  \/ \E u \in Users :
       \/ \E k \in Keys : Credit(w, u, k)
       \/ \E p \in Products : Buy(w, u, p) \/ Order(w, u, p) \/ Reward(w, u, p)
       \/ GetBalance(w, u)
  \/ \E o \in Orders : Webhook(w, o)

Next ==
  \/ \E w \in Workers : Step(w) \/ Request(w) \/ Fail(w) \/ CommitUnanswered(w)
  \/ \E o \in Orders : Pay(o)
  \/ \E u \in Users : ExpireBalance(u)

Spec == Init /\ [][Next]_vars

\* Handlers run. Stripe delivers an event that was not acknowledged; that finds a handler
\* some day, because the server takes any number of requests: only the model has a few.
Redeliver(o) == payment[o] = "paid" /\ \E w \in Workers : Webhook(w, o)
Fairness ==
  /\ \A w \in Workers : WF_vars(Step(w))
  /\ \A o \in Orders : SF_vars(Redeliver(o))

FairSpec == Spec /\ Fairness

----------------------------------------------------------------------------
(* Properties *)

\* The balance is the sum of the ledger, whichever transactions failed, repeated a key or
\* raced for the row: docs/specs/11 has it as the definition of the balance.
BalanceIsLedgerSum ==
  \A u \in Users : balance[u] = MapThenSumSet(LAMBDA e : e.delta, {e \in ledger : e.user = u})

\* The statements of Credit and PurchaseWithPoints, interleaved, implement the ledger: each
\* transaction has the effect of one step on the balance as it is at its commit, a key is
\* entered once, and no balance becomes negative.
Deltas == {Amount[k] : k \in Keys}
            \cup {-PointsPrice[p] : p \in {q \in Products : PointsPrice[q] # None}}
AsLedger == INSTANCE Ledger WITH Keys <- EntryKeys
ImplementsLedger == AsLedger!Spec

\* What users have is what they paid for or were rewarded with: a distraction for each, an
\* edit once, however often a payment's event is delivered (ConfirmAndGrant).
PaidFor(u, p) ==
  {o \in Orders : /\ purchases[o] # None /\ purchases[o].status = "paid"
                  /\ purchases[o].user = u /\ purchases[o].product = p}
GoodsMatchPayments ==
  \A u \in Users, p \in Products :
    inventory[u][p] = IF p \in Edits THEN IF PaidFor(u, p) = {} THEN 0 ELSE 1
                                     ELSE Cardinality(PaidFor(u, p)) + rewards[u][p]

\* A cached balance that is not the balance is about to be deleted, or is one of three lapses
\* that only the TTL mends: the delete failed, the commit's answer was lost, or the reader
\* who cached it was overtaken by a commit (Credit, GetBalance).
StaleOnlyByLapse ==
  \A u \in Users : cache[u] \notin {None, balance[u]} =>
    \/ u \in lapsed
    \/ \E w \in Workers : phase[w] = "clearing" /\ job[w].user = u

\* A payment is confirmed in the end, however many deliveries failed (HandleWebhook).
PaymentIsGranted ==
  \A o \in Orders : payment[o] # "none" ~> purchases[o] # None /\ purchases[o].status = "paid"

\* What the comment of PurchaseWithPoints says: "an already-owned edit is never charged for
\* again". Two requests pass the ownership check before either commits.
OwnedEditIsNotCharged ==
  [][\A u \in Users, p \in Edits : inventory[u][p] > 0 =>
       {o \in PaidFor(u, p) : purchases[o].provider = "points"}
         = {o \in PaidFor(u, p)' : purchases'[o].provider = "points"}]_vars
==========================================================================
