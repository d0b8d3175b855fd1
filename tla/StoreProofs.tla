--------------------------- MODULE StoreProofs ---------------------------
(***************************************************************************)
(* Theorems about Store, for any requests, users, products and keys.       *)
(***************************************************************************)
EXTENDS Store, FoldProofs, FiniteSetTheorems, TLAPS

\* The purchase b is the one the handler w works on.
IsOf(w, b) == b # None /\ b.user = job[w].user /\ b.product = job[w].product

\* Where a handler is determines which of its locals are set, and how.
JobOK(w) ==
  /\ phase[w] # "idle" => job[w].user \in Users
  /\ phase[w] = "entering" => job[w].key \in Keys
  /\ phase[w] \in {"debiting", "ordering", "confirming", "granting", "awarding"} =>
       job[w].product \in Products
  /\ phase[w] = "debiting" => PointsPrice[job[w].product] # None
  /\ phase[w] = "awarding" => job[w].product \in FreeOnes
  /\ phase[w] = "confirming" => job[w].order # None
  /\ phase[w] # "idle" /\ job[w].order # None =>
       job[w].order \in Orders /\ IsOf(w, purchases[job[w].order])

\* Where a handler is determines what its transaction has written.
TxOK(w) ==
  /\ phase[w] \notin {"adding", "granting", "committing"} => tx[w] = NoTx
  /\ phase[w] = "adding" => /\ tx[w].entry # None /\ tx[w].entry.delta >= 0
                            /\ tx[w].delta = 0 /\ tx[w].order = None /\ tx[w].goods = None
  /\ phase[w] \in {"granting", "committing"} =>
       tx[w].delta = IF tx[w].entry = None THEN 0 ELSE tx[w].entry.delta
  /\ phase[w] = "granting" => tx[w].order # None /\ tx[w].goods = None
  /\ phase[w] = "committing" =>
       tx[w].goods = IF tx[w].order = None THEN None ELSE job[w].product

\* An entry written is of an amount there is, its key is new, and it is covered by the balance.
EntryOK(w) ==
  /\ tx[w].entry # None =>
       /\ tx[w].entry.user = job[w].user
       /\ tx[w].entry.delta \in Deltas
       /\ ~IsRepeated(tx[w].entry.user, tx[w].entry.key)
       /\ tx[w].entry.key \in Orders => tx[w].order = tx[w].entry.key
  /\ phase[w] # "idle" => balance[job[w].user] + tx[w].delta >= 0

\* A purchase written is paid, and was not paid before.
OrderOK(w) ==
  tx[w].order # None =>
    /\ IsOf(w, tx[w].bought) /\ tx[w].bought.status = "paid"
    /\ purchases[tx[w].order] # None =>
         IsOf(w, purchases[tx[w].order]) /\ purchases[tx[w].order].status = "pending"

\* What a transaction has written is locked.
Locks(v, w) ==
  /\ tx[v].delta # 0 /\ tx[w].delta # 0 => job[v].user # job[w].user
  /\ tx[v].entry # None /\ tx[w].entry # None =>
       ~(tx[v].entry.user = tx[w].entry.user /\ tx[v].entry.key = tx[w].entry.key)
  /\ tx[v].order # None => tx[v].order # tx[w].order

\* What is committed: entries and payments of purchases that exist, keys entered once.
LedgerOK ==
  /\ \A e \in ledger : e.key \in Orders => purchases[e.key] # None
  /\ \A d, e \in ledger : d.user = e.user /\ d.key = e.key => d = e
PaymentOK == \A o \in Orders : payment[o] # "none" => purchases[o] # None

GoodsOK ==
  /\ \A u \in Users, p \in Products : IsFiniteSet(PaidFor(u, p))
  /\ GoodsMatchPayments

Inv ==
  /\ TypeOK
  /\ \A w \in Workers : JobOK(w)
  /\ \A w \in Workers : TxOK(w)
  /\ \A w \in Workers : EntryOK(w)
  /\ \A w \in Workers : OrderOK(w)
  /\ \A v, w \in Workers : v # w => Locks(v, w)
  /\ LedgerOK
  /\ PaymentOK
  /\ GoodsOK

----------------------------------------------------------------------------
(* Types *)

\* The records a handler writes are of their types.
LEMMA RecordTypes ==
  /\ NoJob \in Job /\ NoTx \in Tx
  /\ \A u \in Users : JobOf(u) \in Job
  /\ \A u \in Users, k \in Keys : [JobOf(u) EXCEPT !.key = k] \in Job
  /\ \A u \in Users, p \in Products : [JobOf(u) EXCEPT !.product = p] \in Job
  /\ \A u \in Users, n \in Nat : [JobOf(u) EXCEPT !.seen = n] \in Job
  /\ \A u \in Users, p \in Products, o \in Orders :
       [JobOf(u) EXCEPT !.product = p, !.order = o] \in Job
  /\ \A j \in Job : [j EXCEPT !.overtaken = TRUE] \in Job
<1>1. NoJob \in Job /\ NoTx \in Tx
  BY DEF NoJob, NoTx, Job, Tx
<1>2. \A u \in Users : JobOf(u) \in Job
  BY <1>1 DEF JobOf, Job
<1>3. \A u \in Users, k \in Keys : [JobOf(u) EXCEPT !.key = k] \in Job
  BY <1>2 DEF Job
<1>4. \A u \in Users, p \in Products : [JobOf(u) EXCEPT !.product = p] \in Job
  BY <1>2 DEF Job
<1>5. \A u \in Users, n \in Nat : [JobOf(u) EXCEPT !.seen = n] \in Job
  BY <1>2 DEF Job
<1>6. \A u \in Users, p \in Products, o \in Orders :
        [JobOf(u) EXCEPT !.product = p, !.order = o] \in Job
  BY <1>2 DEF Job
<1>7. \A j \in Job : [j EXCEPT !.overtaken = TRUE] \in Job
  BY DEF Job
<1> QED BY <1>1, <1>2, <1>3, <1>4, <1>5, <1>6, <1>7

\* Overtaking a reader changes nothing else of a handler.
LEMMA OvertakenJobs ==
  ASSUME NEW u, job \in [Workers -> Job]
  PROVE  /\ Overtaken(u) \in [Workers -> Job]
         /\ \A v \in Workers :
              /\ Overtaken(u)[v].user = job[v].user
              /\ Overtaken(u)[v].product = job[v].product
              /\ Overtaken(u)[v].key = job[v].key
              /\ Overtaken(u)[v].order = job[v].order
<1>1. \A v \in Workers : job[v] \in Job /\ [job[v] EXCEPT !.overtaken = TRUE] \in Job
  BY RecordTypes
<1>2. \A v \in Workers :
        Overtaken(u)[v] = job[v] \/ Overtaken(u)[v] = [job[v] EXCEPT !.overtaken = TRUE]
  BY DEF Overtaken
<1>3. Overtaken(u) \in [Workers -> Job]
  BY <1>1, <1>2 DEF Overtaken
<1>4. \A j \in Job : LET k == [j EXCEPT !.overtaken = TRUE] IN
        k.user = j.user /\ k.product = j.product /\ k.key = j.key /\ k.order = j.order
  BY DEF Job
<1> QED BY <1>1, <1>2, <1>3, <1>4

\* Inv at one handler, whose job has a type and, unless it is idle, a user.
LEMMA HandlerTypes ==
  ASSUME Inv, NEW w \in Workers
  PROVE  /\ phase[w] \in Phases /\ job[w] \in Job /\ tx[w] \in Tx
         /\ phase[w] # "idle" => job[w].user \in Users
         /\ JobOK(w) /\ TxOK(w) /\ EntryOK(w) /\ OrderOK(w)
BY DEF Inv, TypeOK, JobOK

----------------------------------------------------------------------------
(* Effects on one handler *)

\* A step of one handler that commits nothing leaves the others as they are.
LEMMA OneHandler ==
  ASSUME Inv, NEW w \in Workers,
         UNCHANGED <<db, rewards>>,
         \A v \in Workers \ {w} : phase'[v] = phase[v] /\ job'[v] = job[v] /\ tx'[v] = tx[v],
         TypeOK', PaymentOK', JobOK(w)', TxOK(w)', EntryOK(w)', OrderOK(w)',
         \A v \in Workers \ {w} : Locks(v, w)'
  PROVE  Inv'
<1>1. \A v \in Workers : JobOK(v)' /\ TxOK(v)' /\ EntryOK(v)' /\ OrderOK(v)'
  <2> SUFFICES ASSUME NEW v \in Workers \ {w}
               PROVE  JobOK(v)' /\ TxOK(v)' /\ EntryOK(v)' /\ OrderOK(v)'
    OBVIOUS
  <2>1. /\ JobOK(v) /\ TxOK(v) /\ EntryOK(v) /\ OrderOK(v)
        /\ phase'[v] = phase[v] /\ job'[v] = job[v] /\ tx'[v] = tx[v]
    BY DEF Inv
  <2>2. JobOK(v)'
    BY <2>1 DEF JobOK, IsOf, db
  <2>3. TxOK(v)'
    BY <2>1 DEF TxOK
  <2>4. EntryOK(v)'
    BY <2>1 DEF EntryOK, IsRepeated, db
  <2>5. OrderOK(v)'
    BY <2>1 DEF OrderOK, IsOf, db
  <2> QED BY <2>2, <2>3, <2>4, <2>5
<1>2. \A u, v \in Workers : u # v => Locks(u, v)'
  BY DEF Inv, Locks
<1>3. LedgerOK'
  BY DEF Inv, LedgerOK, db
<1>4. GoodsOK'
  BY DEF Inv, GoodsOK, GoodsMatchPayments, PaidFor, db
<1> QED BY <1>1, <1>2, <1>3, <1>4 DEF Inv

\* A handler that has written nothing holds no lock.
LEMMA NothingWritten ==
  ASSUME Inv, NEW w \in Workers,
         UNCHANGED <<db, rewards>>,
         \A v \in Workers \ {w} : phase'[v] = phase[v] /\ job'[v] = job[v] /\ tx'[v] = tx[v],
         TypeOK', PaymentOK', JobOK(w)',
         tx'[w] = NoTx, phase'[w] \notin {"adding", "granting", "committing"}
  PROVE  Inv'
<1>1. TxOK(w)'
  BY DEF TxOK
<1>2. EntryOK(w)'
  BY DEF EntryOK, NoTx, JobOK, TypeOK
<1>3. OrderOK(w)'
  BY DEF OrderOK, NoTx
<1>4. \A v \in Workers \ {w} : Locks(v, w)'
  BY DEF Locks, NoTx
<1> QED BY <1>1, <1>2, <1>3, <1>4, OneHandler

----------------------------------------------------------------------------
(* Requests *)

\* A request is served by an idle handler, which has written nothing.
LEMMA Serving ==
  ASSUME Inv, NEW w \in Workers, NEW p \in Phases, NEW j \in Job,
         p \notin {"adding", "granting", "committing"},
         Serve(w, p, j), JobOK(w)', UNCHANGED <<db, cache, payment, tx, history>>
  PROVE  Inv'
<1>1. TypeOK'
  BY DEF Inv, TypeOK, Serve, Goto, db, history
<1>2. tx'[w] = NoTx /\ phase'[w] = p
  BY HandlerTypes DEF Serve, Goto, TxOK, Inv, TypeOK
<1>3. \A v \in Workers \ {w} : phase'[v] = phase[v] /\ job'[v] = job[v] /\ tx'[v] = tx[v]
  BY DEF Serve, Goto, Inv, TypeOK
<1>4. PaymentOK'
  BY DEF Inv, PaymentOK, db
<1> QED BY <1>1, <1>2, <1>3, <1>4, NothingWritten DEF history

\* What was served stands in the job.
LEMMA Served ==
  ASSUME Inv, NEW w \in Workers, NEW p, NEW j, Serve(w, p, j)
  PROVE  phase[w] = "idle" /\ phase'[w] = p /\ job'[w] = j
BY DEF Inv, TypeOK, Serve, Goto

\* A handler that ends its request, done or given up, leaves nothing written.
LEMMA Ended ==
  ASSUME Inv, NEW w \in Workers,
         UNCHANGED <<db, rewards>>, TypeOK', PaymentOK',
         phase' = [phase EXCEPT ![w] = "idle"], job' = [job EXCEPT ![w] = NoJob],
         tx'[w] = NoTx, \A v \in Workers \ {w} : tx'[v] = tx[v]
  PROVE  Inv'
<1>1. phase'[w] = "idle" /\ \A v \in Workers \ {w} : phase'[v] = phase[v] /\ job'[v] = job[v]
  BY DEF Inv, TypeOK
<1>2. JobOK(w)'
  BY <1>1 DEF JobOK
<1> QED BY <1>1, <1>2, NothingWritten

\* Each request keeps the invariant.
LEMMA CreditInv ==
  ASSUME Inv, NEW w \in Workers, NEW u \in Users, NEW k \in Keys, Credit(w, u, k)
  PROVE  Inv'
<1> DEFINE j == [JobOf(u) EXCEPT !.key = k]
<1>1. j \in Job /\ j.user = u /\ j.key = k /\ j.order = None
  BY RecordTypes DEF JobOf, NoJob
<1>2. Serve(w, "entering", j) /\ UNCHANGED <<db, cache, payment, tx, history>>
  BY DEF Credit
<1> HIDE DEF j
<1>3. JobOK(w)'
  BY <1>1, <1>2, Served DEF JobOK
<1> QED BY <1>1, <1>2, <1>3, Serving DEF Phases

LEMMA BuyInv ==
  ASSUME Inv, NEW w \in Workers, NEW u \in Users, NEW p \in Products, Buy(w, u, p)
  PROVE  Inv'
<1> DEFINE j == [JobOf(u) EXCEPT !.product = p]
<1>1. j \in Job /\ j.user = u /\ j.product = p /\ j.order = None
  BY RecordTypes DEF JobOf, NoJob
<1>2. /\ Serve(w, "debiting", j) /\ UNCHANGED <<db, cache, payment, tx, history>>
      /\ PointsPrice[p] # None
  BY DEF Buy
<1> HIDE DEF j
<1>3. JobOK(w)'
  BY <1>1, <1>2, Served DEF JobOK
<1> QED BY <1>1, <1>2, <1>3, Serving DEF Phases

LEMMA OrderInv ==
  ASSUME Inv, NEW w \in Workers, NEW u \in Users, NEW p \in Products, Order(w, u, p)
  PROVE  Inv'
<1> DEFINE j == [JobOf(u) EXCEPT !.product = p]
<1>1. j \in Job /\ j.user = u /\ j.product = p /\ j.order = None
  BY RecordTypes DEF JobOf, NoJob
<1>2. Serve(w, "ordering", j) /\ UNCHANGED <<db, cache, payment, tx, history>>
  BY DEF Order
<1> HIDE DEF j
<1>3. JobOK(w)'
  BY <1>1, <1>2, Served DEF JobOK
<1> QED BY <1>1, <1>2, <1>3, Serving DEF Phases

LEMMA RewardInv ==
  ASSUME Inv, NEW w \in Workers, NEW u \in Users, NEW p \in Products, Reward(w, u, p)
  PROVE  Inv'
<1> DEFINE j == [JobOf(u) EXCEPT !.product = p]
<1>1. j \in Job /\ j.user = u /\ j.product = p /\ j.order = None
  BY RecordTypes DEF JobOf, NoJob
<1>2. /\ Serve(w, "awarding", j) /\ UNCHANGED <<db, cache, payment, tx, history>>
      /\ p \in FreeOnes
  BY DEF Reward
<1> HIDE DEF j
<1>3. JobOK(w)'
  BY <1>1, <1>2, Served DEF JobOK
<1> QED BY <1>1, <1>2, <1>3, Serving DEF Phases

LEMMA GetBalanceInv ==
  ASSUME Inv, NEW w \in Workers, NEW u \in Users, GetBalance(w, u)
  PROVE  Inv'
<1> DEFINE j == [JobOf(u) EXCEPT !.seen = balance[u]]
<1>1. j \in Job /\ j.user = u /\ j.order = None
  BY RecordTypes DEF JobOf, NoJob, Inv, TypeOK
<1>2. Serve(w, "filling", j) /\ UNCHANGED <<db, cache, payment, tx, history>>
  BY DEF GetBalance
<1> HIDE DEF j
<1>3. JobOK(w)'
  BY <1>1, <1>2, Served DEF JobOK
<1> QED BY <1>1, <1>2, <1>3, Serving DEF Phases

\* A delivery is of a payment, whose purchase exists.
LEMMA WebhookInv ==
  ASSUME Inv, NEW w \in Workers, NEW o \in Orders, Webhook(w, o)
  PROVE  Inv'
<1>1. purchases[o] # None /\ purchases[o] \in Purchase
  BY DEF Webhook, Inv, PaymentOK, TypeOK
<1>2. CASE purchases[o].status = "paid"
  <2>1. UNCHANGED <<db, cache, handlers, history>>
        /\ payment' = [payment EXCEPT ![o] = "acknowledged"]
    BY <1>2 DEF Webhook, Acknowledge, handlers
  <2>2. TypeOK' /\ PaymentOK'
    BY <2>1, <1>1 DEF Inv, TypeOK, PaymentOK, db, handlers, history
  <2>3. JobOK(w)' /\ TxOK(w)' /\ EntryOK(w)' /\ OrderOK(w)'
    BY <2>1 DEF Inv, JobOK, TxOK, EntryOK, OrderOK, IsOf, IsRepeated, db, handlers
  <2>4. \A v \in Workers \ {w} : Locks(v, w)'
    BY <2>1 DEF Inv, Locks, handlers
  <2> QED BY <2>1, <2>2, <2>3, <2>4, OneHandler DEF handlers, history
<1>3. CASE purchases[o].status # "paid"
  <2> DEFINE j == [JobOf(purchases[o].user) EXCEPT !.product = purchases[o].product, !.order = o]
  <2>1. j \in Job /\ j.user = purchases[o].user /\ j.product = purchases[o].product /\ j.order = o
    BY <1>1, RecordTypes DEF JobOf, NoJob, Purchase
  <2>2. Serve(w, "confirming", j) /\ UNCHANGED <<db, cache, payment, tx, history>>
    BY <1>3 DEF Webhook
  <2> HIDE DEF j
  <2>3. JobOK(w)'
    BY <1>1, <2>1, <2>2, Served, StoreAssumption DEF JobOK, IsOf, Purchase, db
  <2> QED BY <2>1, <2>2, <2>3, Serving DEF Phases
<1> QED BY <1>2, <1>3

----------------------------------------------------------------------------
(* Steps that write and commit nothing *)

\* A request that finds nothing to do, or nothing left to do, ends.
LEMMA DebitTooMuchInv ==
  ASSUME Inv, NEW w \in Workers, DebitTooMuch(w)
  PROVE  Inv'
<1>1. tx[w] = NoTx
  BY HandlerTypes DEF DebitTooMuch, TxOK
<1>2. TypeOK' /\ PaymentOK'
  BY RecordTypes DEF DebitTooMuch, Finish, Goto, Inv, TypeOK, PaymentOK, Phases, db, history
<1> QED BY <1>1, <1>2, Ended DEF DebitTooMuch, Finish, Goto, history

LEMMA ClearInv ==
  ASSUME Inv, NEW w \in Workers, Clear(w)
  PROVE  Inv'
<1>1. tx[w] = NoTx /\ job[w].user \in Users
  BY HandlerTypes DEF Clear, TxOK
<1>2. TypeOK'
  BY <1>1, RecordTypes DEF Clear, Cleared, Finish, Goto, Inv, TypeOK, Phases, db
<1>3. PaymentOK'
  BY DEF Clear, Inv, PaymentOK, db
<1> QED BY <1>1, <1>2, <1>3, Ended DEF Clear, Finish, Goto

LEMMA SetBalanceInv ==
  ASSUME Inv, NEW w \in Workers, SetBalance(w)
  PROVE  Inv'
<1>1. tx[w] = NoTx /\ job[w].user \in Users /\ job[w].seen \in Nat
  BY HandlerTypes DEF SetBalance, TxOK, Job
<1>2. cache' \in [Users -> Nat \cup {None}] /\ lapsed' \in SUBSET Users
  BY <1>1 DEF SetBalance, Inv, TypeOK
<1>3. TypeOK'
  BY <1>2, RecordTypes DEF SetBalance, Finish, Goto, Inv, TypeOK, Phases, db
<1>4. PaymentOK'
  BY DEF SetBalance, Inv, PaymentOK, db
<1> QED BY <1>1, <1>3, <1>4, Ended DEF SetBalance, Finish, Goto

\* A request that is given up is rolled back.
LEMMA FailInv ==
  ASSUME Inv, NEW w \in Workers, Fail(w)
  PROVE  Inv'
<1>1. job[w].user \in Users
  BY HandlerTypes DEF Fail
<1>2. tx' = [tx EXCEPT ![w] = NoTx] /\ tx'[w] = NoTx /\ \A v \in Workers \ {w} : tx'[v] = tx[v]
  BY DEF Fail, Write, Inv, TypeOK
<1>3. TypeOK'
  <2>1. failures' \in 0..MaxFailures /\ payment' = payment /\ rewards' = rewards
    BY StoreAssumption DEF Fail, Failing, AfterFailure, Inv, TypeOK
  <2>2. lapsed' \in SUBSET Users
    BY <1>1 DEF Fail, Inv, TypeOK
  <2>3. phase' \in [Workers -> Phases] /\ job' \in [Workers -> Job] /\ tx' \in [Workers -> Tx]
    BY <1>2, RecordTypes DEF Fail, Failing, Goto, Inv, TypeOK, Phases
  <2> QED BY <2>1, <2>2, <2>3 DEF Fail, Inv, TypeOK, db
<1>4. PaymentOK'
  BY DEF Fail, Failing, AfterFailure, Inv, PaymentOK, db
<1> QED BY <1>2, <1>3, <1>4, Ended DEF Fail, Failing, Goto

\* Steps of no handler.
LEMMA EnvironmentInv ==
  ASSUME Inv, (\E o \in Orders : Pay(o)) \/ (\E u \in Users : ExpireBalance(u))
  PROVE  Inv'
<1>1. UNCHANGED <<db, handlers, rewards>> /\ TypeOK' /\ PaymentOK'
  <2>1. CASE \E o \in Orders : Pay(o)
    BY <2>1 DEF Pay, Inv, TypeOK, PaymentOK, db, handlers, history
  <2>2. CASE \E u \in Users : ExpireBalance(u)
    BY <2>2 DEF ExpireBalance, Inv, TypeOK, PaymentOK, db, handlers, history
  <2> QED BY <2>1, <2>2
<1>2. \A w \in Workers : JobOK(w)' /\ TxOK(w)' /\ EntryOK(w)' /\ OrderOK(w)'
  BY <1>1 DEF Inv, JobOK, TxOK, EntryOK, OrderOK, IsOf, IsRepeated, db, handlers
<1>3. \A v, w \in Workers : v # w => Locks(v, w)'
  BY <1>1 DEF Inv, Locks, handlers
<1>4. LedgerOK' /\ GoodsOK'
  BY <1>1 DEF Inv, LedgerOK, GoodsOK, GoodsMatchPayments, PaidFor, db
<1> QED BY <1>1, <1>2, <1>3, <1>4 DEF Inv

\* The key of a credit is new: nobody else has written it, and it is not committed.
LEMMA EnterCreditInv ==
  ASSUME Inv, NEW w \in Workers, EnterCredit(w)
  PROVE  Inv'
<1> DEFINE u == job[w].user
           k == job[w].key
           e == [user |-> u, key |-> k, delta |-> Amount[k]]
           t == [NoTx EXCEPT !.entry = e]
<1>1. u \in Users /\ k \in Keys /\ tx[w] = NoTx
  BY HandlerTypes DEF EnterCredit, JobOK, TxOK
<1>2. PaymentOK' /\ job' = job /\ UNCHANGED <<db, rewards>>
  BY DEF EnterCredit, Inv, PaymentOK, db, history
<1>3. CASE IsRepeated(u, k)
  <2>1. phase' = [phase EXCEPT ![w] = "clearing"] /\ tx' = tx
    BY <1>3 DEF EnterCredit, Goto
  <2>2. TypeOK'
    BY <2>1 DEF EnterCredit, Inv, TypeOK, Phases, db, history
  <2>3. JobOK(w)'
    BY <1>1, <1>2, <2>1, HandlerTypes DEF EnterCredit, JobOK, IsOf, Inv, TypeOK, db
  <2> QED BY <1>1, <1>2, <2>1, <2>2, <2>3, NothingWritten DEF Inv, TypeOK
<1>4. CASE ~IsRepeated(u, k)
  <2>1. /\ e \in Entry /\ e.user = u /\ e.key = k /\ e.delta = Amount[k]
        /\ Amount[k] \in Nat /\ e.delta \in Deltas /\ e # None
    <3>1. Amount[k] \in Nat /\ e \in Entry
      BY <1>1, StoreAssumption DEF Entry, EntryKeys
    <3>2. e # None
      BY <3>1, NoneAssumption
    <3> QED BY <1>1, <3>1, <3>2 DEF Deltas
  <2>2. /\ t \in Tx /\ t.entry = e /\ t.delta = 0 /\ t.order = None
        /\ t.bought = None /\ t.goods = None
    BY <2>1 DEF NoTx, Tx
  <2> HIDE DEF t, e
  <2>3. phase' = [phase EXCEPT ![w] = "adding"] /\ tx' = [tx EXCEPT ![w] = t]
    BY <1>4 DEF EnterCredit, Goto, Write, t, e
  <2>4. TypeOK'
    BY <2>2, <2>3 DEF EnterCredit, Inv, TypeOK, Phases, db, history
  <2>5. /\ phase'[w] = "adding" /\ tx'[w] = t
        /\ \A v \in Workers \ {w} : phase'[v] = phase[v] /\ tx'[v] = tx[v]
    BY <2>3 DEF Inv, TypeOK
  <2>6. JobOK(w)'
    BY <1>1, <1>2, <2>5, HandlerTypes DEF EnterCredit, JobOK, IsOf, db
  <2>7. TxOK(w)'
    BY <2>1, <2>2, <2>5 DEF TxOK
  <2>8. EntryOK(w)'
    <3>1. balance[u] + 0 >= 0
      BY <1>1 DEF Inv, TypeOK
    <3>2. k \notin Orders
      BY <1>1, StoreAssumption
    <3> QED BY <1>1, <1>2, <1>4, <2>1, <2>2, <2>5, <3>1, <3>2 DEF EntryOK, IsRepeated, db
  <2>9. OrderOK(w)'
    BY <2>2, <2>5 DEF OrderOK
  <2>10. \A v \in Workers \ {w} : Locks(v, w)'
    BY <1>2, <2>1, <2>2, <2>5 DEF Locks, EnterCredit, KeyFree
  <2> QED BY <1>2, <2>4, <2>5, <2>6, <2>7, <2>8, <2>9, <2>10, OneHandler
<1> QED BY <1>3, <1>4

\* The row of the balance is taken: no other transaction has changed it.
LEMMA AddToBalanceInv ==
  ASSUME Inv, NEW w \in Workers, AddToBalance(w)
  PROVE  Inv'
<1> DEFINE t == [tx[w] EXCEPT !.delta = tx[w].entry.delta]
<1>1. /\ phase[w] = "adding" /\ tx[w] \in Tx /\ tx[w].entry \in Entry /\ tx[w].entry.delta >= 0
      /\ tx[w].order = None /\ tx[w].goods = None /\ tx[w].entry.user = job[w].user
      /\ job[w].user \in Users /\ TxOK(w) /\ EntryOK(w) /\ JobOK(w)
  BY HandlerTypes DEF AddToBalance, TxOK, EntryOK, Tx
<1>2. PaymentOK' /\ job' = job /\ UNCHANGED <<db, rewards>>
  BY DEF AddToBalance, Inv, PaymentOK, db, history
<1>3. /\ t \in Tx /\ t.entry = tx[w].entry /\ t.delta = tx[w].entry.delta /\ t.order = None
      /\ t.bought = tx[w].bought /\ t.goods = None /\ tx[w].entry # None
  BY <1>1, NoneAssumption DEF Tx, Entry
<1> HIDE DEF t
<1>4. phase' = [phase EXCEPT ![w] = "committing"] /\ tx' = [tx EXCEPT ![w] = t]
  BY DEF AddToBalance, Goto, Write, t
<1>5. TypeOK'
  BY <1>3, <1>4 DEF AddToBalance, Inv, TypeOK, Phases, db, history
<1>6. /\ phase'[w] = "committing" /\ tx'[w] = t
      /\ \A v \in Workers \ {w} : phase'[v] = phase[v] /\ tx'[v] = tx[v]
  BY <1>4 DEF Inv, TypeOK
<1>7. JobOK(w)'
  BY <1>1, <1>2, <1>6 DEF JobOK, IsOf, db
<1>8. TxOK(w)'
  BY <1>3, <1>6 DEF TxOK
<1>9. EntryOK(w)'
  <2>1. balance[job[w].user] + t.delta >= 0
    BY <1>1, <1>3 DEF Inv, TypeOK, Entry
  <2> QED BY <1>1, <1>2, <1>3, <1>6, <2>1 DEF EntryOK, IsRepeated, db
<1>10. OrderOK(w)'
  BY <1>3, <1>6 DEF OrderOK
<1>11. \A v \in Workers \ {w} : Locks(v, w)'
  BY <1>2, <1>3, <1>6 DEF Locks, AddToBalance, BalanceFree, Inv
<1> QED BY <1>2, <1>5, <1>6, <1>7, <1>8, <1>9, <1>10, <1>11, OneHandler

\* A debit takes the row of the balance and a new order, whose id is the key of its entry.
LEMMA DebitInv ==
  ASSUME Inv, NEW w \in Workers, NEW o \in Orders, Debit(w, o)
  PROVE  Inv'
<1> DEFINE u == job[w].user
           p == job[w].product
           e == [user |-> u, key |-> o, delta |-> -PointsPrice[p]]
           b == [user |-> u, product |-> p, provider |-> "points", status |-> "paid"]
           t == [NoTx EXCEPT !.delta = -PointsPrice[p], !.order = o, !.entry = e, !.bought = b]
<1>1. /\ phase[w] = "debiting" /\ u \in Users /\ p \in Products /\ JobOK(w)
      /\ PointsPrice[p] # None
  BY HandlerTypes DEF Debit, JobOK
<1>2. PointsPrice[p] \in Nat /\ -PointsPrice[p] \in Deltas /\ -PointsPrice[p] \in Int
  BY <1>1, StoreAssumption DEF Deltas
<1>3. PaymentOK' /\ job' = job /\ UNCHANGED <<db, rewards>>
  BY DEF Debit, Inv, PaymentOK, db, history
<1>4. e \in Entry /\ e.user = u /\ e.key = o /\ e.delta = -PointsPrice[p] /\ e # None
  BY <1>1, <1>2, NoneAssumption DEF Entry, EntryKeys
<1>5. b \in Purchase /\ b.user = u /\ b.product = p /\ b.status = "paid" /\ b # None
  BY <1>1, NoneAssumption DEF Purchase
<1> HIDE DEF e, b
<1>6. /\ t \in Tx /\ t.entry = e /\ t.delta = e.delta /\ t.order = o
      /\ t.bought = b /\ t.goods = None
  BY <1>2, <1>4, <1>5 DEF NoTx, Tx
<1>7. phase' = [phase EXCEPT ![w] = "granting"] /\ tx' = [tx EXCEPT ![w] = t]
  BY DEF Debit, Goto, Write, e, b
<1> HIDE DEF t
<1>8. TypeOK'
  BY <1>6, <1>7 DEF Debit, Inv, TypeOK, Phases, db, history
<1>9. /\ phase'[w] = "granting" /\ tx'[w] = t
      /\ \A v \in Workers \ {w} : phase'[v] = phase[v] /\ tx'[v] = tx[v]
  BY <1>7 DEF Inv, TypeOK
<1>10. o # None
  BY StoreAssumption
<1>11. JobOK(w)'
  BY <1>1, <1>3, <1>9 DEF JobOK, IsOf, db
<1>12. TxOK(w)'
  BY <1>4, <1>6, <1>9, <1>10 DEF TxOK
<1>13. EntryOK(w)'
  <2>1. ~IsRepeated(u, o)
    BY DEF IsRepeated, Debit, NewOrder, Inv, LedgerOK
  <2>2. balance[u] + t.delta >= 0
    BY <1>1, <1>2, <1>4, <1>6 DEF Debit, Inv, TypeOK
  <2> QED BY <1>2, <1>3, <1>4, <1>6, <1>9, <2>1, <2>2 DEF EntryOK, IsRepeated, db
<1>14. OrderOK(w)'
  BY <1>3, <1>5, <1>6, <1>9 DEF OrderOK, IsOf, Debit, NewOrder, db
<1>15. \A v \in Workers \ {w} : Locks(v, w)'
  <2> SUFFICES ASSUME NEW v \in Workers \ {w} PROVE Locks(v, w)'
    OBVIOUS
  <2>1. tx[v].delta # 0 => job[v].user # u
    BY DEF Debit, BalanceFree
  <2>2. tx[v].order # o
    BY DEF Debit, NewOrder
  <2>3. tx[v].entry # None => tx[v].entry.key # o
    BY <2>2 DEF Inv, EntryOK
  <2> QED BY <1>3, <1>4, <1>6, <1>9, <2>1, <2>2, <2>3 DEF Locks
<1> QED BY <1>3, <1>8, <1>9, <1>11, <1>12, <1>13, <1>14, <1>15, OneHandler

\* Of two deliveries of an event, one confirms: the other waits, then finds it confirmed.
LEMMA ConfirmInv ==
  ASSUME Inv, NEW w \in Workers, Confirm(w)
  PROVE  Inv'
<1> DEFINE o == job[w].order
           b == [purchases[o] EXCEPT !.status = "paid"]
           t == [NoTx EXCEPT !.order = o, !.bought = b]
<1>1. /\ phase[w] = "confirming" /\ job[w].user \in Users /\ job[w].product \in Products
      /\ o \in Orders /\ IsOf(w, purchases[o]) /\ tx[w] = NoTx /\ JobOK(w)
  BY HandlerTypes DEF Confirm, JobOK, TxOK
<1>2. purchases[o] # None /\ purchases[o] \in Purchase /\ o \in Orders /\ o # None
  BY <1>1, StoreAssumption DEF IsOf, Inv, TypeOK
<1>3. CASE ~Unconfirmed(o)
  <2>1. /\ UNCHANGED <<db, cache, tx, history>>
        /\ payment' = [payment EXCEPT ![o] = "acknowledged"]
        /\ phase' = [phase EXCEPT ![w] = "idle"] /\ job' = [job EXCEPT ![w] = NoJob]
    BY <1>3 DEF Confirm, Acknowledge, Finish, Goto
  <2>2. TypeOK' /\ PaymentOK'
    BY <1>1, <1>2, <2>1, RecordTypes DEF Inv, TypeOK, PaymentOK, Phases, db, history
  <2> QED BY <1>1, <2>1, <2>2, Ended DEF history
<1>4. CASE Unconfirmed(o)
  <2>1. /\ b \in Purchase /\ b.user = purchases[o].user /\ b.product = purchases[o].product
        /\ b.status = "paid" /\ b # None
    BY <1>2, NoneAssumption DEF Purchase
  <2> HIDE DEF b, o
  <2>2. t \in Tx /\ t.entry = None /\ t.delta = 0 /\ t.order = o /\ t.bought = b /\ t.goods = None
    <3>1. t \in Tx
      BY <1>2, <2>1, RecordTypes DEF Tx
    <3>2. t.entry = None /\ t.delta = 0 /\ t.order = o /\ t.bought = b /\ t.goods = None
      BY DEF NoTx
    <3> QED BY <3>1, <3>2
  <2>3. phase' = [phase EXCEPT ![w] = "granting"] /\ tx' = [tx EXCEPT ![w] = t]
    BY <1>4 DEF Confirm, Goto, Write, b, o
  <2> HIDE DEF t
  <2>4. PaymentOK' /\ job' = job /\ UNCHANGED <<db, rewards, payment, cache, failures, lapsed>>
    BY <1>4 DEF Confirm, Inv, PaymentOK, db, history, o
  <2>5. TypeOK'
    BY <2>2, <2>3, <2>4 DEF Inv, TypeOK, Phases, db
  <2>6. /\ phase'[w] = "granting" /\ tx'[w] = t
        /\ \A v \in Workers \ {w} : phase'[v] = phase[v] /\ tx'[v] = tx[v]
    BY <2>3 DEF Inv, TypeOK
  <2>7. JobOK(w)'
    BY <1>1, <2>4, <2>6 DEF JobOK, IsOf, db
  <2>8. TxOK(w)'
    BY <1>2, <2>2, <2>6 DEF TxOK
  <2>9. EntryOK(w)'
    BY <1>1, <2>2, <2>4, <2>6 DEF EntryOK, Inv, TypeOK, db
  <2>10. OrderOK(w)'
    BY <1>1, <1>4, <2>1, <2>2, <2>4, <2>6 DEF OrderOK, IsOf, Unconfirmed, db
  <2>11. \A v \in Workers \ {w} : Locks(v, w)'
    BY <1>4, <2>2, <2>4, <2>6 DEF Locks, Confirm, OrderFree, o
  <2> QED BY <2>4, <2>5, <2>6, <2>7, <2>8, <2>9, <2>10, <2>11, OneHandler
<1> QED BY <1>3, <1>4

\* The grant is the last write of a purchase.
LEMMA GrantInv ==
  ASSUME Inv, NEW w \in Workers, Grant(w)
  PROVE  Inv'
<1> DEFINE t == [tx[w] EXCEPT !.goods = job[w].product]
<1>1. /\ phase[w] = "granting" /\ tx[w] \in Tx /\ tx[w].order # None
      /\ job[w].product \in Products /\ job[w].user \in Users
      /\ JobOK(w) /\ TxOK(w) /\ EntryOK(w) /\ OrderOK(w)
  BY HandlerTypes DEF Grant, TxOK, JobOK
<1>2. PaymentOK' /\ job' = job /\ UNCHANGED <<db, rewards>>
  BY DEF Grant, Inv, PaymentOK, db, history
<1>3. /\ t \in Tx /\ t.entry = tx[w].entry /\ t.delta = tx[w].delta /\ t.order = tx[w].order
      /\ t.bought = tx[w].bought /\ t.goods = job[w].product
  BY <1>1 DEF Tx
<1> HIDE DEF t
<1>4. phase' = [phase EXCEPT ![w] = "committing"] /\ tx' = [tx EXCEPT ![w] = t]
  BY DEF Grant, Goto, Write, t
<1>5. TypeOK'
  BY <1>3, <1>4 DEF Grant, Inv, TypeOK, Phases, db, history
<1>6. /\ phase'[w] = "committing" /\ tx'[w] = t
      /\ \A v \in Workers \ {w} : phase'[v] = phase[v] /\ tx'[v] = tx[v]
  BY <1>4 DEF Inv, TypeOK
<1>7. JobOK(w)'
  BY <1>1, <1>2, <1>6 DEF JobOK, IsOf, db
<1>8. TxOK(w)'
  BY <1>1, <1>2, <1>3, <1>6 DEF TxOK
<1>9. EntryOK(w)'
  BY <1>1, <1>2, <1>3, <1>6 DEF EntryOK, IsRepeated, db
<1>10. OrderOK(w)'
  BY <1>1, <1>2, <1>3, <1>6 DEF OrderOK, IsOf, db
<1>11. \A v \in Workers \ {w} : Locks(v, w)'
  BY <1>2, <1>3, <1>6 DEF Locks, Inv
<1> QED BY <1>2, <1>5, <1>6, <1>7, <1>8, <1>9, <1>10, <1>11, OneHandler

----------------------------------------------------------------------------
(* Steps that commit *)

\* A pending purchase pays for nothing yet, and is nobody's order.
LEMMA CreatePurchaseInv ==
  ASSUME Inv, NEW w \in Workers, NEW o \in Orders, CreatePurchase(w, o)
  PROVE  Inv'
<1> DEFINE b == [user |-> job[w].user, product |-> job[w].product, provider |-> "stripe",
                 status |-> "pending"]
<1>1. /\ job[w].user \in Users /\ job[w].product \in Products /\ tx[w] = NoTx
      /\ purchases[o] = None /\ \A v \in Workers : tx[v].order # o
  BY HandlerTypes DEF CreatePurchase, JobOK, TxOK, NewOrder
<1>2. b \in Purchase /\ b.status = "pending" /\ b # None
  BY <1>1, NoneAssumption DEF Purchase
<1> HIDE DEF b
<1>3. /\ purchases' = [purchases EXCEPT ![o] = b]
      /\ phase' = [phase EXCEPT ![w] = "idle"] /\ job' = [job EXCEPT ![w] = NoJob]
      /\ UNCHANGED <<balance, ledger, inventory, cache, payment, tx, history>>
  BY DEF CreatePurchase, Finish, Goto, b
<1>4. TypeOK'
  BY <1>2, <1>3, RecordTypes DEF Inv, TypeOK, Phases, history
<1>5. purchases'[o] = b /\ \A x \in Orders \ {o} : purchases'[x] = purchases[x]
  BY <1>3 DEF Inv, TypeOK
<1>6. ASSUME NEW v \in Workers
      PROVE  JobOK(v)' /\ TxOK(v)' /\ EntryOK(v)' /\ OrderOK(v)'
  <2>1. JobOK(v) /\ TxOK(v) /\ EntryOK(v) /\ OrderOK(v) /\ tx[v] \in Tx
    BY HandlerTypes
  <2>2. CASE v = w
    <3>1. phase'[v] = "idle" /\ tx'[v] = NoTx
      BY <1>1, <1>3, <2>2 DEF Inv, TypeOK
    <3> QED BY <3>1 DEF JobOK, TxOK, EntryOK, OrderOK, NoTx
  <2>3. CASE v # w
    <3>1. phase'[v] = phase[v] /\ job'[v] = job[v] /\ tx'[v] = tx[v]
      BY <1>3, <2>3 DEF Inv, TypeOK
    <3>2. JobOK(v)'
      BY <1>1, <1>5, <2>1, <3>1 DEF JobOK, IsOf
    <3>3. TxOK(v)'
      BY <2>1, <3>1 DEF TxOK
    <3>4. EntryOK(v)'
      BY <1>3, <2>1, <3>1 DEF EntryOK, IsRepeated
    <3>5. OrderOK(v)'
      <4> SUFFICES ASSUME tx[v].order # None PROVE OrderOK(v)'
        BY <3>1 DEF OrderOK
      <4>1. tx[v].order \in Orders \ {o}
        BY <1>1, <2>1 DEF Tx
      <4> QED BY <1>5, <2>1, <3>1, <4>1 DEF OrderOK, IsOf
    <3> QED BY <3>2, <3>3, <3>4, <3>5
  <2> QED BY <2>2, <2>3
<1>7. \A u, v \in Workers : u # v => Locks(u, v)'
  <2> SUFFICES ASSUME NEW u \in Workers, NEW v \in Workers, u # v
               PROVE  Locks(u, v)'
    OBVIOUS
  <2>1. Locks(u, v)
    BY DEF Inv
  <2>2. tx' = tx /\ \A x \in Workers \ {w} : job'[x] = job[x]
    BY <1>3 DEF Inv, TypeOK
  <2> QED BY <1>1, <2>1, <2>2 DEF Locks, NoTx
<1>8. LedgerOK' /\ PaymentOK'
  BY <1>2, <1>3, <1>5 DEF Inv, LedgerOK, PaymentOK
<1>9. GoodsOK'
  <2>1. \A u \in Users, p \in Products : PaidFor(u, p)' = PaidFor(u, p)
    BY <1>1, <1>2, <1>5 DEF PaidFor
  <2> QED BY <1>3, <2>1 DEF Inv, GoodsOK, GoodsMatchPayments, history
<1> QED BY <1>4, <1>6, <1>7, <1>8, <1>9 DEF Inv

\* A reward adds one to what is had and to what was rewarded.
LEMMA AwardInv ==
  ASSUME Inv, NEW w \in Workers, Award(w)
  PROVE  Inv'
<1> DEFINE u == job[w].user
           p == job[w].product
<1>1. u \in Users /\ p \in Products \ Edits /\ tx[w] = NoTx
  BY HandlerTypes, StoreAssumption DEF Award, JobOK, TxOK
<1>2. /\ inventory' = [inventory EXCEPT ![u][p] = @ + 1]
      /\ rewards' = [rewards EXCEPT ![u][p] = @ + 1]
  BY <1>1 DEF Award, Granted
<1>3. /\ phase' = [phase EXCEPT ![w] = "idle"] /\ job' = [job EXCEPT ![w] = NoJob]
      /\ UNCHANGED <<balance, ledger, purchases, cache, payment, tx, failures, lapsed>>
  BY DEF Award, Finish, Goto
<1>4. TypeOK'
  <2>1. inventory' \in [Users -> [Products -> Nat]] /\ rewards' \in [Users -> [Products -> Nat]]
    BY <1>1, <1>2 DEF Inv, TypeOK
  <2> QED BY <1>3, <2>1, RecordTypes DEF Inv, TypeOK, Phases
<1>5. ASSUME NEW v \in Workers
      PROVE  JobOK(v)' /\ TxOK(v)' /\ EntryOK(v)' /\ OrderOK(v)'
  <2>1. JobOK(v) /\ TxOK(v) /\ EntryOK(v) /\ OrderOK(v)
    BY HandlerTypes
  <2>2. CASE v = w
    <3>1. phase'[v] = "idle" /\ tx'[v] = NoTx
      BY <1>1, <1>3, <2>2 DEF Inv, TypeOK
    <3> QED BY <3>1 DEF JobOK, TxOK, EntryOK, OrderOK, NoTx
  <2>3. CASE v # w
    <3>1. phase'[v] = phase[v] /\ job'[v] = job[v] /\ tx'[v] = tx[v]
      BY <1>3, <2>3 DEF Inv, TypeOK
    <3> QED BY <1>3, <2>1, <3>1 DEF JobOK, TxOK, EntryOK, OrderOK, IsOf, IsRepeated
  <2> QED BY <2>2, <2>3
<1>6. \A x, v \in Workers : x # v => Locks(x, v)'
  <2> SUFFICES ASSUME NEW x \in Workers, NEW v \in Workers, x # v
               PROVE  Locks(x, v)'
    OBVIOUS
  <2>1. Locks(x, v)
    BY DEF Inv
  <2>2. tx' = tx /\ \A y \in Workers \ {w} : job'[y] = job[y]
    BY <1>3 DEF Inv, TypeOK
  <2> QED BY <1>1, <2>1, <2>2 DEF Locks, NoTx
<1>7. LedgerOK' /\ PaymentOK'
  BY <1>3 DEF Inv, LedgerOK, PaymentOK
<1>8. GoodsOK'
  <2> SUFFICES ASSUME NEW x \in Users, NEW q \in Products
               PROVE  /\ IsFiniteSet(PaidFor(x, q))'
                      /\ inventory'[x][q] = IF q \in Edits
                           THEN IF PaidFor(x, q)' = {} THEN 0 ELSE 1
                           ELSE Cardinality(PaidFor(x, q))' + rewards'[x][q]
    BY DEF GoodsOK, GoodsMatchPayments
  <2>1. PaidFor(x, q)' = PaidFor(x, q)
    BY <1>3 DEF PaidFor
  <2>2. /\ IsFiniteSet(PaidFor(x, q)) /\ Cardinality(PaidFor(x, q)) \in Nat
        /\ inventory[x][q] = IF q \in Edits
             THEN IF PaidFor(x, q) = {} THEN 0 ELSE 1
             ELSE Cardinality(PaidFor(x, q)) + rewards[x][q]
        /\ inventory[x][q] \in Nat /\ rewards[x][q] \in Nat
    BY FS_CardinalityType DEF Inv, GoodsOK, GoodsMatchPayments, TypeOK
  <2>3. CASE x = u /\ q = p
    <3>1. inventory'[x][q] = inventory[x][q] + 1 /\ rewards'[x][q] = rewards[x][q] + 1
      BY <1>1, <1>2, <2>3 DEF Inv, TypeOK
    <3> QED BY <1>1, <2>1, <2>2, <2>3, <3>1
  <2>4. CASE ~(x = u /\ q = p)
    <3>1. inventory'[x][q] = inventory[x][q] /\ rewards'[x][q] = rewards[x][q]
      BY <1>1, <1>2, <2>4 DEF Inv, TypeOK
    <3> QED BY <2>1, <2>2, <3>1
  <2> QED BY <2>3, <2>4
<1> QED BY <1>4, <1>5, <1>6, <1>7, <1>8 DEF Inv

\* What is known of a transaction that is about to be committed.
LEMMA Committing ==
  ASSUME Inv, NEW w \in Workers, Apply(w)
  PROVE  /\ job[w].user \in Users /\ tx[w] \in Tx
         /\ tx[w].delta = IF tx[w].entry = None THEN 0 ELSE tx[w].entry.delta
         /\ balance[job[w].user] + tx[w].delta \in Nat
         /\ balance' = [balance EXCEPT ![job[w].user] = @ + tx[w].delta]
         /\ ledger' = IF tx[w].entry = None THEN ledger ELSE ledger \cup {tx[w].entry}
         /\ purchases' = IF tx[w].order = None THEN purchases
                         ELSE [purchases EXCEPT ![tx[w].order] = tx[w].bought]
         /\ inventory' = IF tx[w].order = None THEN inventory
                         ELSE Granted(job[w].user, job[w].product)
         /\ tx' = [tx EXCEPT ![w] = NoTx]
         /\ tx[w].order # None =>
              /\ tx[w].order \in Orders /\ job[w].product \in Products
              /\ tx[w].bought \in Purchase /\ tx[w].bought.status = "paid"
              /\ tx[w].bought.user = job[w].user /\ tx[w].bought.product = job[w].product
              /\ purchases[tx[w].order] = None \/ purchases[tx[w].order].status = "pending"
<1>1. phase[w] = "committing" /\ job[w].user \in Users /\ tx[w] \in Tx
      /\ TxOK(w) /\ EntryOK(w) /\ OrderOK(w)
  BY HandlerTypes DEF Apply
<1>2. balance[job[w].user] + tx[w].delta \in Nat
  BY <1>1 DEF EntryOK, Inv, TypeOK, Tx
<1>3. /\ tx[w].delta = IF tx[w].entry = None THEN 0 ELSE tx[w].entry.delta
      /\ tx[w].goods = IF tx[w].order = None THEN None ELSE job[w].product
  BY <1>1 DEF TxOK
<1>4. tx[w].order # None =>
        /\ tx[w].order \in Orders /\ job[w].product \in Products /\ job[w].product # None
        /\ tx[w].bought \in Purchase /\ tx[w].bought.status = "paid"
        /\ tx[w].bought.user = job[w].user /\ tx[w].bought.product = job[w].product
        /\ purchases[tx[w].order] = None \/ purchases[tx[w].order].status = "pending"
  <2> SUFFICES ASSUME tx[w].order # None
               PROVE  /\ tx[w].order \in Orders /\ job[w].product \in Products
                      /\ job[w].product # None
                      /\ tx[w].bought \in Purchase /\ tx[w].bought.status = "paid"
                      /\ tx[w].bought.user = job[w].user
                      /\ tx[w].bought.product = job[w].product
                      /\ purchases[tx[w].order] = None
                           \/ purchases[tx[w].order].status = "pending"
    OBVIOUS
  <2>1. /\ IsOf(w, tx[w].bought) /\ tx[w].bought.status = "paid"
        /\ purchases[tx[w].order] # None => purchases[tx[w].order].status = "pending"
    BY <1>1 DEF OrderOK
  <2>2. tx[w].order \in Orders /\ tx[w].bought \in Purchase
    BY <1>1, <2>1 DEF Tx, IsOf
  <2>3. tx[w].bought.product \in Products
    BY <2>2 DEF Purchase
  <2> QED BY <2>1, <2>2, <2>3, StoreAssumption DEF IsOf
<1>5. inventory' = IF tx[w].order = None THEN inventory
                   ELSE Granted(job[w].user, job[w].product)
  BY <1>3, <1>4 DEF Apply
<1>6. /\ balance' = [balance EXCEPT ![job[w].user] = @ + tx[w].delta]
      /\ ledger' = IF tx[w].entry = None THEN ledger ELSE ledger \cup {tx[w].entry}
      /\ purchases' = IF tx[w].order = None THEN purchases
                      ELSE [purchases EXCEPT ![tx[w].order] = tx[w].bought]
      /\ tx' = [tx EXCEPT ![w] = NoTx]
  BY DEF Apply, LedgerWith, Write
<1> QED BY <1>1, <1>2, <1>3, <1>4, <1>5, <1>6

\* A commit keeps the types of the database.
LEMMA AppliedTypes ==
  ASSUME Inv, NEW w \in Workers, Apply(w)
  PROVE  /\ balance' \in [Users -> Nat] /\ ledger' \in SUBSET Entry
         /\ purchases' \in [Orders -> Purchase \cup {None}]
         /\ inventory' \in [Users -> [Products -> Nat]]
         /\ tx' \in [Workers -> Tx]
         /\ \A o \in Orders : purchases[o] # None => purchases'[o] # None
<1>1. balance' \in [Users -> Nat]
  BY Committing DEF Inv, TypeOK
<1>2. ledger' \in SUBSET Entry
  <2>1. tx[w].entry \in Entry \cup {None}
    BY Committing DEF Tx
  <2> QED BY <2>1, Committing DEF Inv, TypeOK
<1>3. purchases' \in [Orders -> Purchase \cup {None}]
  <2>1. purchases \in [Orders -> Purchase \cup {None}]
    BY DEF Inv, TypeOK
  <2>2. CASE tx[w].order = None
    BY <2>1, <2>2, Committing
  <2>3. CASE tx[w].order # None
    <3>1. purchases' = [purchases EXCEPT ![tx[w].order] = tx[w].bought] /\ tx[w].bought \in Purchase
      BY <2>3, Committing
    <3> QED BY <2>1, <3>1
  <2> QED BY <2>2, <2>3
<1>4. inventory' \in [Users -> [Products -> Nat]]
  <2>1. CASE tx[w].order = None
    BY <2>1, Committing DEF Inv, TypeOK
  <2>2. CASE tx[w].order # None
    <3>1. /\ job[w].user \in Users /\ job[w].product \in Products
          /\ inventory' = Granted(job[w].user, job[w].product)
      BY <2>2, Committing
    <3> QED BY <3>1 DEF Inv, TypeOK, Granted
  <2> QED BY <2>1, <2>2
<1>5. tx' \in [Workers -> Tx]
  BY Committing, RecordTypes DEF Inv, TypeOK
<1>6. \A o \in Orders : purchases[o] # None => purchases'[o] # None
  BY Committing, NoneAssumption DEF Inv, TypeOK
<1> QED BY <1>1, <1>2, <1>3, <1>4, <1>5, <1>6

\* A commit grants what it pays for: one more of a distraction, an edit if there is none.
LEMMA AppliedGoods ==
  ASSUME Inv, NEW w \in Workers, Apply(w), rewards' = rewards
  PROVE  GoodsOK'
<1> SUFFICES ASSUME NEW x \in Users, NEW q \in Products
             PROVE  /\ IsFiniteSet(PaidFor(x, q))'
                    /\ inventory'[x][q] = IF q \in Edits
                         THEN IF PaidFor(x, q)' = {} THEN 0 ELSE 1
                         ELSE Cardinality(PaidFor(x, q))' + rewards'[x][q]
  BY DEF GoodsOK, GoodsMatchPayments
<1> DEFINE o == tx[w].order
           u == job[w].user
           p == job[w].product
<1>1. /\ IsFiniteSet(PaidFor(x, q)) /\ Cardinality(PaidFor(x, q)) \in Nat
      /\ inventory[x][q] = IF q \in Edits
           THEN IF PaidFor(x, q) = {} THEN 0 ELSE 1
           ELSE Cardinality(PaidFor(x, q)) + rewards[x][q]
      /\ inventory[x][q] \in Nat /\ rewards[x][q] \in Nat
  BY FS_CardinalityType DEF Inv, GoodsOK, GoodsMatchPayments, TypeOK
<1>2. CASE o = None
  <2>1. purchases' = purchases /\ inventory' = inventory
    BY <1>2, Committing
  <2>2. PaidFor(x, q)' = PaidFor(x, q)
    BY <2>1 DEF PaidFor
  <2> QED BY <1>1, <2>1, <2>2
<1>3. CASE o # None
  <2>1. /\ o \in Orders /\ purchases' = [purchases EXCEPT ![o] = tx[w].bought]
        /\ tx[w].bought.user = u /\ tx[w].bought.product = p /\ tx[w].bought.status = "paid"
        /\ tx[w].bought # None
        /\ inventory' = Granted(u, p) /\ u \in Users /\ p \in Products
        /\ purchases[o] = None \/ purchases[o].status = "pending"
    BY <1>3, Committing, NoneAssumption
  <2>2. purchases'[o] = tx[w].bought /\ \A y \in Orders \ {o} : purchases'[y] = purchases[y]
    BY <2>1 DEF Inv, TypeOK
  <2>3. o \notin PaidFor(x, q)
    BY <2>1 DEF PaidFor
  <2>4. CASE x = u /\ q = p
    <3>1. PaidFor(x, q)' = PaidFor(x, q) \cup {o}
      BY <2>1, <2>2, <2>4 DEF PaidFor
    <3>2. /\ IsFiniteSet(PaidFor(x, q) \cup {o})
          /\ Cardinality(PaidFor(x, q) \cup {o}) = Cardinality(PaidFor(x, q)) + 1
      BY <1>1, <2>3, FS_AddElement
    <3>3. inventory'[x][q] = IF q \in Edits THEN 1 ELSE inventory[x][q] + 1
      BY <2>1, <2>4 DEF Granted, Inv, TypeOK
    <3> QED BY <1>1, <3>1, <3>2, <3>3
  <2>5. CASE ~(x = u /\ q = p)
    <3>1. PaidFor(x, q)' = PaidFor(x, q)
      BY <2>1, <2>2, <2>3, <2>5 DEF PaidFor
    <3>2. inventory'[x][q] = inventory[x][q]
      BY <2>1, <2>5 DEF Granted, Inv, TypeOK
    <3> QED BY <1>1, <3>1, <3>2
  <2> QED BY <2>4, <2>5
<1> QED BY <1>2, <1>3

\* A commit by w, whatever becomes of the request: nobody else's transaction is disturbed.
LEMMA Applied ==
  ASSUME Inv, NEW w \in Workers, Apply(w),
         phase'[w] \in {"idle", "clearing"}, phase'[w] # "idle" => job'[w].user \in Users /\ job'[w].order = None,
         \A v \in Workers \ {w} :
           /\ phase'[v] = phase[v] /\ job'[v].user = job[v].user /\ job'[v].key = job[v].key
           /\ job'[v].product = job[v].product /\ job'[v].order = job[v].order,
         rewards' = rewards, TypeOK', PaymentOK'
  PROVE  Inv'
<1>1. tx'[w] = NoTx /\ \A v \in Workers \ {w} : tx'[v] = tx[v]
  BY Committing DEF Inv, TypeOK
<1>2. JobOK(w)' /\ TxOK(w)' /\ EntryOK(w)' /\ OrderOK(w)'
  BY <1>1 DEF JobOK, TxOK, EntryOK, OrderOK, NoTx, TypeOK
<1>3. ASSUME NEW v \in Workers \ {w}
      PROVE  JobOK(v)' /\ TxOK(v)' /\ EntryOK(v)' /\ OrderOK(v)'
  <2>1. /\ JobOK(v) /\ TxOK(v) /\ EntryOK(v) /\ OrderOK(v) /\ Locks(v, w) /\ Locks(w, v)
        /\ tx[v] \in Tx /\ tx[w] \in Tx
    BY HandlerTypes DEF Inv
  <2>2. /\ phase'[v] = phase[v] /\ job'[v].user = job[v].user /\ job'[v].key = job[v].key
        /\ job'[v].product = job[v].product /\ job'[v].order = job[v].order /\ tx'[v] = tx[v]
    BY <1>1
  <2>3. JobOK(v)'
    <3>1. ASSUME job[v].order \in Orders, IsOf(v, purchases[job[v].order])
          PROVE  IsOf(v, purchases[job[v].order])'
      <4> DEFINE o == job[v].order
      <4>1. purchases[o] # None /\ purchases[o].user = job[v].user
            /\ purchases[o].product = job[v].product
        BY <3>1 DEF IsOf
      <4>2. CASE o # tx[w].order
        <5>1. purchases'[o] = purchases[o]
          BY <3>1, <4>2, Committing DEF Inv, TypeOK
        <5> QED BY <2>2, <4>1, <5>1 DEF IsOf
      <4>3. CASE o = tx[w].order
        <5>1. tx[w].order # None
          BY <3>1, <4>3, StoreAssumption
        <5>2. purchases'[o] = tx[w].bought
          BY <3>1, <4>3, <5>1, Committing DEF Inv, TypeOK
        <5>3. IsOf(w, tx[w].bought) /\ IsOf(w, purchases[o])
          BY <4>1, <4>3, <5>1, HandlerTypes DEF OrderOK
        <5> QED BY <2>2, <4>1, <5>2, <5>3 DEF IsOf
      <4> QED BY <4>2, <4>3
    <3> QED BY <2>1, <2>2, <3>1 DEF JobOK
  <2>4. TxOK(v)'
    BY <2>1, <2>2 DEF TxOK
  <2>5. EntryOK(v)'
    <3>1. ASSUME tx[v].entry # None
          PROVE  ~IsRepeated(tx[v].entry.user, tx[v].entry.key)'
      <4>1. ~IsRepeated(tx[v].entry.user, tx[v].entry.key)
        BY <2>1, <3>1 DEF EntryOK
      <4>2. tx[w].entry # None =>
              ~(tx[v].entry.user = tx[w].entry.user /\ tx[v].entry.key = tx[w].entry.key)
        BY <2>1, <3>1 DEF Locks
      <4> QED BY <2>2, <4>1, <4>2, Committing DEF IsRepeated
    <3>2. ASSUME phase[v] # "idle"
          PROVE  balance'[job[v].user] + tx[v].delta >= 0
      <4> DEFINE u == job[v].user
      <4>1. u \in Users /\ balance[u] + tx[v].delta >= 0
        BY <2>1, <3>2 DEF JobOK, EntryOK
      <4>2. balance'[u] \in Nat
        BY <4>1, AppliedTypes
      <4>3. CASE tx[v].delta = 0
        BY <4>2, <4>3
      <4>4. CASE tx[v].delta # 0
        <5>1. tx[w].delta # 0 => job[w].user # u
          BY <2>1, <4>4 DEF Locks
        <5>2. balance'[u] = balance[u]
          BY <4>1, <5>1, Committing DEF Inv, TypeOK
        <5> QED BY <4>1, <5>2
      <4> QED BY <4>3, <4>4
    <3> QED BY <2>1, <2>2, <3>1, <3>2 DEF EntryOK
  <2>6. OrderOK(v)'
    <3>1. ASSUME tx[v].order # None
          PROVE  purchases'[tx[v].order] = purchases[tx[v].order]
      <4>1. tx[v].order \in Orders /\ tx[v].order # tx[w].order
        BY <2>1, <3>1 DEF Locks, Tx
      <4> QED BY <4>1, Committing DEF Inv, TypeOK
    <3> QED BY <2>1, <2>2, <3>1 DEF OrderOK, IsOf
  <2> QED BY <2>3, <2>4, <2>5, <2>6
<1>4. \A u, v \in Workers : u # v => Locks(u, v)'
  <2> SUFFICES ASSUME NEW u \in Workers, NEW v \in Workers, u # v
               PROVE  Locks(u, v)'
    OBVIOUS
  <2>1. Locks(u, v)
    BY DEF Inv
  <2> QED BY <1>1, <2>1 DEF Locks, NoTx
<1>5. LedgerOK'
  <2>1. CASE tx[w].entry = None
    BY <2>1, Committing, AppliedTypes DEF Inv, LedgerOK
  <2>2. CASE tx[w].entry # None
    <3> DEFINE e == tx[w].entry
    <3>1. ~IsRepeated(e.user, e.key) /\ (e.key \in Orders => tx[w].order = e.key)
      BY <2>2, HandlerTypes DEF EntryOK
    <3>2. ledger' = ledger \cup {e}
      BY <2>2, Committing
    <3>3. e.key \in Orders => purchases'[e.key] # None
      <4> SUFFICES ASSUME e.key \in Orders PROVE purchases'[e.key] # None
        OBVIOUS
      <4>1. tx[w].order = e.key /\ tx[w].order # None
        BY <3>1, StoreAssumption
      <4> QED BY <4>1, Committing, NoneAssumption DEF Inv, TypeOK
    <3>4. \A d \in ledger : ~(d.user = e.user /\ d.key = e.key)
      BY <3>1 DEF IsRepeated
    <3>5. \A d \in ledger : d.key \in Orders => purchases'[d.key] # None
      BY AppliedTypes DEF Inv, LedgerOK
    <3> HIDE DEF e
    <3> QED BY <3>2, <3>3, <3>4, <3>5 DEF Inv, LedgerOK
  <2> QED BY <2>1, <2>2
<1>6. GoodsOK'
  BY AppliedGoods
<1> QED BY <1>2, <1>3, <1>4, <1>5, <1>6 DEF Inv

LEMMA CommitInv ==
  ASSUME Inv, NEW w \in Workers, Commit(w)
  PROVE  Inv'
<1>1. Apply(w) /\ UNCHANGED <<cache, history>>
  BY DEF Commit
<1>2. phase[w] = "committing" /\ job[w].user \in Users /\ job[w] \in Job
  BY <1>1, HandlerTypes DEF Apply
<1>3. /\ phase' \in [Workers -> Phases] /\ job' \in [Workers -> Job]
      /\ payment' \in [Orders -> {"none", "paid", "acknowledged"}]
      /\ phase'[w] \in {"idle", "clearing"}
      /\ phase'[w] # "idle" => job'[w].user \in Users /\ job'[w].order = None
      /\ \A v \in Workers \ {w} :
           /\ phase'[v] = phase[v] /\ job'[v].user = job[v].user /\ job'[v].key = job[v].key
           /\ job'[v].product = job[v].product /\ job'[v].order = job[v].order
      /\ \A o \in Orders : payment[o] = "none" => payment'[o] = "none" \/ o = job[w].order
  <2>1. CASE job[w].order = None
    <3>1. /\ phase' = [phase EXCEPT ![w] = "clearing"] /\ job' = Overtaken(job[w].user)
          /\ payment' = payment
      BY <2>1 DEF Commit, Goto
    <3> QED BY <1>2, <2>1, <3>1, OvertakenJobs DEF Inv, TypeOK, Phases
  <2>2. CASE job[w].order # None
    <3>1. /\ phase' = [phase EXCEPT ![w] = "idle"] /\ job' = [job EXCEPT ![w] = NoJob]
          /\ payment' = [payment EXCEPT ![job[w].order] = "acknowledged"]
      BY <2>2 DEF Commit, Finish, Goto, Acknowledge
    <3> QED BY <3>1, RecordTypes DEF Inv, TypeOK, Phases
  <2> QED BY <2>1, <2>2
<1>4. TypeOK'
  BY <1>1, <1>3, AppliedTypes DEF Inv, TypeOK, history
<1>5. PaymentOK'
  <2>1. job[w].order \in Orders => purchases[job[w].order] # None
    BY <1>2, HandlerTypes, StoreAssumption DEF JobOK, IsOf
  <2> QED BY <1>1, <1>3, <2>1, AppliedTypes DEF Inv, PaymentOK
<1> QED BY <1>1, <1>3, <1>4, <1>5, Applied DEF history

LEMMA CommitUnansweredInv ==
  ASSUME Inv, NEW w \in Workers, CommitUnanswered(w)
  PROVE  Inv'
<1>1. Apply(w) /\ Failing(w) /\ cache' = cache
  BY DEF CommitUnanswered
<1>2. phase[w] = "committing" /\ job[w].user \in Users
  BY <1>1, HandlerTypes DEF Apply
<1>3. phase' = [phase EXCEPT ![w] = "idle"] /\ payment' = payment /\ rewards' = rewards
  BY <1>1 DEF Failing, AfterFailure, Goto
<1>4. failures' \in 0..MaxFailures
  BY <1>1, StoreAssumption DEF Failing, Inv, TypeOK
<1>5. lapsed' \in SUBSET Users
  BY <1>2 DEF CommitUnanswered, Inv, TypeOK
<1>6. /\ job' \in [Workers -> Job]
      /\ \A v \in Workers \ {w} :
           /\ job'[v].user = job[v].user /\ job'[v].key = job[v].key
           /\ job'[v].product = job[v].product /\ job'[v].order = job[v].order
  <2>1. job' = [Overtaken(job[w].user) EXCEPT ![w] = NoJob]
    BY DEF CommitUnanswered
  <2> QED BY <2>1, OvertakenJobs, RecordTypes DEF Inv, TypeOK
<1>7. TypeOK'
  BY <1>1, <1>3, <1>4, <1>5, <1>6, AppliedTypes DEF Inv, TypeOK, Phases
<1>8. PaymentOK'
  BY <1>1, <1>3, AppliedTypes DEF Inv, PaymentOK
<1>9. phase'[w] = "idle" /\ \A v \in Workers \ {w} : phase'[v] = phase[v]
  BY <1>3 DEF Inv, TypeOK
<1> QED BY <1>1, <1>3, <1>6, <1>7, <1>8, <1>9, Applied

----------------------------------------------------------------------------
(* The invariant *)

LEMMA InitInv == Init => Inv
<1> SUFFICES ASSUME Init PROVE Inv
  OBVIOUS
<1>1. TypeOK
  <2>1. phase \in [Workers -> Phases] /\ job \in [Workers -> Job] /\ tx \in [Workers -> Tx]
    BY RecordTypes DEF Init, Phases
  <2>2. failures \in 0..MaxFailures
    BY StoreAssumption DEF Init
  <2>3. /\ inventory \in [Users -> [Products -> Nat]]
        /\ rewards \in [Users -> [Products -> Nat]]
    BY DEF Init
  <2>4. /\ balance \in [Users -> Nat] /\ ledger \in SUBSET Entry
        /\ purchases \in [Orders -> Purchase \cup {None}]
        /\ cache \in [Users -> Nat \cup {None}] /\ lapsed \in SUBSET Users
        /\ payment \in [Orders -> {"none", "paid", "acknowledged"}]
    BY DEF Init
  <2> QED BY <2>1, <2>2, <2>3, <2>4 DEF TypeOK
<1>2. \A w \in Workers : phase[w] = "idle" /\ tx[w] = NoTx
  BY DEF Init
<1>3. \A w \in Workers : JobOK(w) /\ TxOK(w) /\ EntryOK(w) /\ OrderOK(w)
  BY <1>2 DEF JobOK, TxOK, EntryOK, OrderOK, NoTx
<1>4. \A v, w \in Workers : v # w => Locks(v, w)
  BY <1>2 DEF Locks, NoTx
<1>5. LedgerOK /\ PaymentOK
  BY DEF Init, LedgerOK, PaymentOK
<1>6. GoodsOK
  <2>1. \A u \in Users, p \in Products : PaidFor(u, p) = {}
    BY DEF Init, PaidFor
  <2>2. IsFiniteSet({}) /\ Cardinality({}) = 0
    BY FS_EmptySet
  <2>3. \A u \in Users, p \in Products : inventory[u][p] = 0 /\ rewards[u][p] = 0
    BY DEF Init
  <2>4. ASSUME NEW u \in Users, NEW p \in Products
        PROVE  /\ IsFiniteSet(PaidFor(u, p))
               /\ inventory[u][p] = IF p \in Edits
                    THEN IF PaidFor(u, p) = {} THEN 0 ELSE 1
                    ELSE Cardinality(PaidFor(u, p)) + rewards[u][p]
    <3>1. PaidFor(u, p) = {} /\ inventory[u][p] = 0 /\ rewards[u][p] = 0
      BY <2>1, <2>3
    <3> QED BY <2>2, <3>1
  <2> QED BY <2>4 DEF GoodsOK, GoodsMatchPayments
<1> QED BY <1>1, <1>3, <1>4, <1>5, <1>6 DEF Inv

LEMMA NextInv == Inv /\ [Next]_vars => Inv'
<1> SUFFICES ASSUME Inv, [Next]_vars PROVE Inv'
  OBVIOUS
<1>1. CASE \E w \in Workers : Step(w)
  <2> PICK w \in Workers : Step(w)
    BY <1>1
  <2>1. CASE \E o \in Orders : Debit(w, o) \/ CreatePurchase(w, o)
    BY <2>1, DebitInv, CreatePurchaseInv
  <2>2. CASE EnterCredit(w) \/ AddToBalance(w) \/ DebitTooMuch(w) \/ Confirm(w) \/ Grant(w)
    BY <2>2, EnterCreditInv, AddToBalanceInv, DebitTooMuchInv, ConfirmInv, GrantInv
  <2>3. CASE Commit(w) \/ Clear(w) \/ SetBalance(w) \/ Award(w)
    BY <2>3, CommitInv, ClearInv, SetBalanceInv, AwardInv
  <2> QED BY <2>1, <2>2, <2>3 DEF Step
<1>2. CASE \E w \in Workers : Request(w)
  <2> PICK w \in Workers : Request(w)
    BY <1>2
  <2>1. CASE \E o \in Orders : Webhook(w, o)
    BY <2>1, WebhookInv
  <2>2. ASSUME NEW u \in Users, \/ \E k \in Keys : Credit(w, u, k)
                                \/ \E p \in Products : Buy(w, u, p) \/ Order(w, u, p)
                                                         \/ Reward(w, u, p)
                                \/ GetBalance(w, u)
        PROVE  Inv'
    BY <2>2, CreditInv, BuyInv, OrderInv, RewardInv, GetBalanceInv
  <2> QED BY <2>1, <2>2 DEF Request
<1>3. CASE \E w \in Workers : Fail(w) \/ CommitUnanswered(w)
  BY <1>3, FailInv, CommitUnansweredInv
<1>4. CASE (\E o \in Orders : Pay(o)) \/ (\E u \in Users : ExpireBalance(u))
  BY <1>4, EnvironmentInv
<1>5. CASE UNCHANGED vars
  <2>1. TypeOK'
    BY <1>5 DEF vars, db, handlers, history, Inv, TypeOK
  <2>4. LedgerOK' /\ PaymentOK'
    BY <1>5 DEF vars, db, Inv, LedgerOK, PaymentOK
  <2>5. GoodsOK'
    BY <1>5 DEF vars, db, history, Inv, GoodsOK, GoodsMatchPayments, PaidFor
  <2>2. \A w \in Workers : JobOK(w)' /\ TxOK(w)' /\ EntryOK(w)' /\ OrderOK(w)'
    BY <1>5 DEF vars, db, handlers, Inv, JobOK, TxOK, EntryOK, OrderOK, IsOf, IsRepeated
  <2>3. \A v, w \in Workers : v # w => Locks(v, w)'
    BY <1>5 DEF vars, handlers, Inv, Locks
  <2> QED BY <2>1, <2>2, <2>3, <2>4, <2>5 DEF Inv
<1> QED BY <1>1, <1>2, <1>3, <1>4, <1>5 DEF Next

\* The invariant holds in every behavior: locals follow the program counter, what a transaction
\* wrote is locked, and the database agrees with itself (Store, all operations).
THEOREM StoreInvariant == Spec => []Inv
BY InitInv, NextInv, PTL DEF Spec

----------------------------------------------------------------------------
(* Theorems *)

\* Type correctness; that a balance is a natural number says that the conditional UPDATE of
\* debitPointsBalanceSQL never lets one become negative.
THEOREM StoreTypeCorrect == Spec => []TypeOK
<1>1. Inv => TypeOK
  BY DEF Inv
<1> QED BY <1>1, StoreInvariant, PTL

\* What users have is what they paid for or were rewarded with (ConfirmAndGrant,
\* PurchaseWithPoints, GrantFreeDistraction).
THEOREM GoodsMatchPaymentsAlways == Spec => []GoodsMatchPayments
<1>1. Inv => GoodsMatchPayments
  BY DEF Inv, GoodsOK
<1> QED BY <1>1, StoreInvariant, PTL

\* No key of a user stands twice in the ledger: the unique index of points_ledger, and the ids
\* of purchases (Credit, PurchaseWithPoints).
THEOREM KeyEnteredOnceAlways == Spec => []AsLedger!KeyEnteredOnce
<1>1. Inv => AsLedger!KeyEnteredOnce
  BY DEF Inv, LedgerOK, AsLedger!KeyEnteredOnce
<1> QED BY <1>1, StoreInvariant, PTL

\* A commit is one step of the ledger, or none.
LEMMA ApplyImplementsEnter ==
  ASSUME Inv, NEW w \in Workers, Apply(w)
  PROVE  [AsLedger!Next]_<<balance, ledger>>
<1> DEFINE e == tx[w].entry
           u == job[w].user
<1>1. CASE e = None
  <2>1. ledger' = ledger /\ tx[w].delta = 0
    BY <1>1, Committing
  <2>2. u \in Users /\ balance' = [balance EXCEPT ![u] = @ + 0]
    BY <2>1, Committing
  <2>3. balance \in [Users -> Nat]
    BY DEF Inv, TypeOK
  <2>4. balance[u] + 0 = balance[u]
    BY <2>2, <2>3
  <2>5. balance' = balance
    BY <2>2, <2>3, <2>4
  <2> QED BY <2>1, <2>5
<1>2. CASE e # None
  <2>1. /\ e \in Entry /\ e.user = u /\ e.delta \in Deltas /\ ~IsRepeated(u, e.key)
        /\ u \in Users /\ tx[w].delta = e.delta
    BY <1>2, Committing, HandlerTypes DEF EntryOK, Tx
  <2>2. e = [user |-> u, key |-> e.key, delta |-> e.delta] /\ e.key \in EntryKeys
    BY <2>1 DEF Entry
  <2>3. balance[u] + e.delta >= 0
    BY <2>1, Committing DEF Inv, TypeOK
  <2>4. /\ balance' = [balance EXCEPT ![u] = @ + e.delta]
        /\ ledger' = ledger \cup {e}
    BY <1>2, <2>1, Committing
  <2>5. AsLedger!Enter(u, e.key, e.delta)
    BY <2>1, <2>2, <2>3, <2>4 DEF AsLedger!Enter, AsLedger!Entered, IsRepeated
  <2> QED BY <2>1, <2>2, <2>5 DEF AsLedger!Next
<1> QED BY <1>1, <1>2

\* Nothing else touches a balance or the ledger.
LEMMA OthersKeepTheLedger ==
  ASSUME [Next]_vars, ~(\E w \in Workers : Apply(w))
  PROVE  UNCHANGED <<balance, ledger>>
<1>1. CASE \E w \in Workers : Step(w)
  BY <1>1 DEF Step, EnterCredit, AddToBalance, DebitTooMuch, Debit, CreatePurchase, Confirm,
              Grant, Commit, Clear, SetBalance, Award, db
<1>2. CASE \E w \in Workers : Request(w)
  BY <1>2 DEF Request, Credit, Buy, Order, Reward, GetBalance, Webhook, db
<1>3. CASE \E w \in Workers : Fail(w) \/ CommitUnanswered(w)
  BY <1>3 DEF Fail, CommitUnanswered, db
<1>4. CASE (\E o \in Orders : Pay(o)) \/ (\E u \in Users : ExpireBalance(u))
  BY <1>4 DEF Pay, ExpireBalance, db
<1>5. CASE UNCHANGED vars
  BY <1>5 DEF vars, db
<1> QED BY <1>1, <1>2, <1>3, <1>4, <1>5 DEF Next

\* The interleaved statements of Credit and PurchaseWithPoints implement the ledger, in which
\* points are earned and spent in single steps.
THEOREM StoreImplementsLedger == Spec => ImplementsLedger
<1>1. Init => AsLedger!Init
  BY DEF Init, AsLedger!Init
<1>2. Inv /\ [Next]_vars => [AsLedger!Next]_<<balance, ledger>>
  BY ApplyImplementsEnter, OthersKeepTheLedger
<1> QED BY <1>1, <1>2, StoreInvariant, PTL DEF Spec, ImplementsLedger, AsLedger!Spec, AsLedger!lvars

----------------------------------------------------------------------------
(* The balance is the sum of the ledger *)

SumOf(s) == MapThenSumSet(LAMBDA e : e.delta, s)

\* What MapThenSumSet makes of a finite set of entries is a sum of their amounts.
LEMMA SumOfIsSum ==
  ASSUME NEW T, IsFiniteSet(T), NEW wt, Weighs(wt, T), \A e \in T : wt[e] = e.delta
  PROVE  \E f : IsSum(f, T, wt) /\ SumOf(T) = f[T]
<1> DEFINE Loop(g) == [s \in SUBSET T |-> IF s = {} THEN 0 ELSE
                         (CHOOSE x \in s : TRUE).delta + g[s \ {CHOOSE x \in s : TRUE}]]
           loop == CHOOSE g : g = Loop(g)
<1>1. PICK f : IsSum(f, T, wt)
  BY SumIsDefined
<1>2. ASSUME NEW g
      PROVE  Adds(g, T, wt) <=> g = Loop(g)
  BY DEF Adds, Added, Pick
<1>3. f = Loop(f)
  <2>1. AddsUp(f, T, wt)
    BY <1>1, SumSteps
  <2>2. f \in [SUBSET T -> Int] /\ \A s \in SUBSET T : f[s] = Added(wt, f, s)
    BY <2>1 DEF AddsUp, Added
  <2>3. Adds(f, T, wt)
    BY <2>2 DEF Adds
  <2> QED BY <1>2, <2>3
<1>4. loop = Loop(loop)
  <2> HIDE DEF Loop
  <2> QED BY <1>3
<1>5. SumOf(T) = loop[T]
  BY DEF SumOf, MapThenSumSet, MapThenFoldSet
<1>6. loop = f
  <2> HIDE DEF loop, Loop
  <2>1. Adds(loop, T, wt)
    BY <1>2, <1>4
  <2> QED BY <1>1, <2>1, LoopIsSum
<1> QED BY <1>1, <1>5, <1>6

\* One more entry adds its amount.
LEMMA SumOfGrows ==
  ASSUME NEW T, IsFiniteSet(T), NEW e, e \notin T, \A x \in T \cup {e} : x.delta \in Int
  PROVE  SumOf(T \cup {e}) = SumOf(T) + e.delta
<1> PICK U : U = T \cup {e}
  OBVIOUS
<1> PICK wt : wt = [x \in U |-> x.delta]
  OBVIOUS
<1>1. Weighs(wt, T) /\ Weighs(wt, U) /\ wt[e] = e.delta
  BY DEF Weighs
<1>2. IsFiniteSet(U)
  BY FS_AddElement
<1>3. (\A x \in T : wt[x] = x.delta) /\ (\A x \in U : wt[x] = x.delta)
  OBVIOUS
<1>4. PICK f : IsSum(f, T, wt) /\ SumOf(T) = f[T]
  BY <1>1, <1>3, SumOfIsSum
<1>5. PICK g : IsSum(g, U, wt) /\ SumOf(U) = g[U]
  BY <1>1, <1>2, <1>3, SumOfIsSum
<1>6. g[U] = f[T] + wt[e]
  BY <1>1, <1>4, <1>5, SumGrows
<1> QED BY <1>1, <1>4, <1>5, <1>6

LEMMA SumOfNothing == SumOf({}) = 0
<1>1. Weighs(<<>>, {}) /\ IsFiniteSet({})
  BY FS_EmptySet DEF Weighs
<1>2. PICK f : IsSum(f, {}, <<>>) /\ SumOf({}) = f[{}]
  BY <1>1, SumOfIsSum
<1>3. AddsUp(f, {}, <<>>)
  BY <1>1, <1>2, SumSteps
<1> QED BY <1>2, <1>3 DEF AddsUp

\* The entries of a user among some.
EntriesOf(u, s) == {e \in s : e.user = u}

SumInv == IsFiniteSet(ledger) /\ \A u \in Users : balance[u] = SumOf(EntriesOf(u, ledger))

\* A step of the ledger keeps balances and sums together.
LEMMA EnterKeepsSums ==
  ASSUME Inv, SumInv, NEW u \in Users, NEW k \in EntryKeys, NEW delta \in Deltas,
         AsLedger!Enter(u, k, delta)
  PROVE  SumInv'
<1> PICK e : e = [user |-> u, key |-> k, delta |-> delta]
  OBVIOUS
<1>1. /\ balance' = [balance EXCEPT ![u] = @ + delta]
      /\ ledger' = ledger \cup {e}
      /\ e \notin ledger
  BY DEF AsLedger!Enter, AsLedger!Entered
<1>2. IsFiniteSet(ledger')
  BY <1>1, FS_AddElement DEF SumInv
<1>3. balance \in [Users -> Nat] /\ \A x \in ledger : x.delta \in Int
  BY DEF Inv, TypeOK, Entry
<1>4. ASSUME NEW v \in Users \ {u}
      PROVE  balance'[v] = SumOf(EntriesOf(v, ledger'))
  <2>1. EntriesOf(v, ledger') = EntriesOf(v, ledger)
    BY <1>1 DEF EntriesOf
  <2>2. balance'[v] = balance[v]
    BY <1>1, <1>3
  <2> QED BY <2>1, <2>2 DEF SumInv
<1>5. balance'[u] = SumOf(EntriesOf(u, ledger'))
  <2> PICK T : T = EntriesOf(u, ledger)
    OBVIOUS
  <2>1. EntriesOf(u, ledger') = T \cup {e} /\ e \notin T /\ T \subseteq ledger
    BY <1>1 DEF EntriesOf
  <2>2. IsFiniteSet(T)
    BY <2>1, FS_Subset DEF SumInv
  <2>3. e.delta = delta /\ delta \in Int
    BY StoreAssumption DEF Deltas
  <2>4. \A x \in T \cup {e} : x.delta \in Int
    BY <1>3, <2>1, <2>3
  <2>5. SumOf(T \cup {e}) = SumOf(T) + e.delta
    BY <2>1, <2>2, <2>4, SumOfGrows
  <2>6. balance[u] = SumOf(T) /\ balance'[u] = balance[u] + delta
    BY <1>1, <1>3 DEF SumInv
  <2> QED BY <2>1, <2>3, <2>5, <2>6
<1> QED BY <1>2, <1>4, <1>5 DEF SumInv

\* Each balance is the sum of the user's entries, whichever transactions failed, repeated a key
\* or raced for the row (Credit, PurchaseWithPoints).
THEOREM BalanceIsAlwaysLedgerSum == Spec => []BalanceIsLedgerSum
<1>1. Init => SumInv
  <2>1. \A u : EntriesOf(u, {}) = {}
    BY DEF EntriesOf
  <2> QED BY <2>1, SumOfNothing, FS_EmptySet DEF Init, SumInv
<1>2. Inv /\ SumInv /\ [Next]_vars => SumInv'
  <2> SUFFICES ASSUME Inv, SumInv, [Next]_vars PROVE SumInv'
    OBVIOUS
  <2>1. CASE UNCHANGED <<balance, ledger>>
    BY <2>1 DEF SumInv
  <2>2. CASE AsLedger!Next
    BY <2>2, EnterKeepsSums DEF AsLedger!Next
  <2> QED BY <2>1, <2>2, ApplyImplementsEnter, OthersKeepTheLedger
<1>3. SumInv => BalanceIsLedgerSum
  BY DEF SumInv, BalanceIsLedgerSum, SumOf, EntriesOf
<1> QED BY <1>1, <1>2, <1>3, StoreInvariant, PTL DEF Spec

----------------------------------------------------------------------------
(* The cached balance *)

\* What a reader is about to cache is the balance, unless a commit overtook him.
Fills(w) ==
  phase[w] = "filling" => job[w].overtaken \/ job[w].seen = balance[job[w].user]

\* The transaction of a payment's event enters nothing in the ledger.
Hooks(w) ==
  job[w].order # None =>
    tx[w].entry = None /\ phase[w] \notin {"entering", "adding", "debiting"}

CacheInv == StaleOnlyByLapse /\ \A w \in Workers : Fills(w) /\ Hooks(w)

\* A step of one handler that changes no balance and does not delete a cached one.
LEMMA CacheFrame ==
  ASSUME CacheInv, NEW w \in Workers, phase[w] # "clearing", UNCHANGED <<balance, cache, lapsed>>,
         \A v \in Workers \ {w} : phase'[v] = phase[v] /\ job'[v] = job[v] /\ tx'[v] = tx[v],
         Fills(w)', Hooks(w)'
  PROVE  CacheInv'
<1>1. \A v \in Workers : Fills(v)' /\ Hooks(v)'
  BY DEF CacheInv, Fills, Hooks
<1>2. StaleOnlyByLapse'
  BY DEF CacheInv, StaleOnlyByLapse
<1> QED BY <1>1, <1>2 DEF CacheInv

LEMMA CacheRequests ==
  ASSUME Inv, CacheInv, NEW w \in Workers, Request(w)
  PROVE  CacheInv'
<1>1. ASSUME NEW p, NEW j, Serve(w, p, j), UNCHANGED <<balance, cache, lapsed, tx>>,
             p = "filling" => j.overtaken \/ j.seen = balance[j.user],
             j.order # None => p \notin {"entering", "adding", "debiting"}
      PROVE  CacheInv'
  <2>1. /\ phase[w] = "idle" /\ phase'[w] = p /\ job'[w] = j /\ tx[w] = NoTx
        /\ \A v \in Workers \ {w} : phase'[v] = phase[v] /\ job'[v] = job[v]
    BY <1>1, HandlerTypes DEF Serve, Goto, Inv, TypeOK, TxOK
  <2>2. Fills(w)' /\ Hooks(w)'
    BY <1>1, <2>1 DEF Fills, Hooks, NoTx
  <2> QED BY <1>1, <2>1, <2>2, CacheFrame
<1>2. ASSUME NEW u, \/ \E k \in Keys : Credit(w, u, k)
                    \/ \E p \in Products : Buy(w, u, p) \/ Order(w, u, p) \/ Reward(w, u, p)
      PROVE  CacheInv'
  <2>1. UNCHANGED <<balance, cache, lapsed, tx>>
    BY <1>2 DEF Credit, Buy, Order, Reward, db, history
  <2>2. /\ \A k : [JobOf(u) EXCEPT !.key = k].order = None
        /\ \A p : [JobOf(u) EXCEPT !.product = p].order = None
    BY DEF JobOf, NoJob
  <2>3. CASE \E k \in Keys : Credit(w, u, k)
    BY <1>1, <2>1, <2>2, <2>3 DEF Credit
  <2>4. CASE \E p \in Products : Buy(w, u, p)
    BY <1>1, <2>1, <2>2, <2>4 DEF Buy
  <2>5. CASE \E p \in Products : Order(w, u, p)
    BY <1>1, <2>1, <2>2, <2>5 DEF Order
  <2>6. CASE \E p \in Products : Reward(w, u, p)
    BY <1>1, <2>1, <2>2, <2>6 DEF Reward
  <2> QED BY <1>2, <2>3, <2>4, <2>5, <2>6
<1>3. ASSUME NEW u \in Users, GetBalance(w, u)
      PROVE  CacheInv'
  <2>1. PICK j : /\ j = [JobOf(u) EXCEPT !.seen = balance[u]] /\ Serve(w, "filling", j)
                 /\ UNCHANGED <<balance, cache, lapsed, tx>>
    BY <1>3 DEF GetBalance, db, history
  <2>2. j.user = u /\ j.seen = balance[u] /\ j.order = None
    BY <2>1 DEF JobOf, NoJob
  <2> QED BY <1>1, <2>1, <2>2
<1>4. ASSUME NEW o \in Orders, Webhook(w, o)
      PROVE  CacheInv'
  <2>1. UNCHANGED <<balance, cache, lapsed, tx>> /\ phase[w] = "idle"
    BY <1>4 DEF Webhook, db, history
  <2>2. CASE UNCHANGED <<phase, job>>
    BY <2>1, <2>2, CacheFrame DEF CacheInv, Fills, Hooks
  <2>3. CASE \E j : Serve(w, "confirming", j)
    BY <1>1, <2>1, <2>3
  <2> QED BY <1>4, <2>2, <2>3 DEF Webhook
<1> QED BY <1>2, <1>3, <1>4 DEF Request

\* The statements before a commit, and what has no part in balances.
LEMMA CacheStatements ==
  ASSUME Inv, CacheInv, NEW w \in Workers,
         \/ EnterCredit(w) \/ AddToBalance(w) \/ DebitTooMuch(w) \/ Confirm(w) \/ Grant(w)
         \/ Award(w) \/ \E o \in Orders : Debit(w, o) \/ CreatePurchase(w, o)
  PROVE  CacheInv'
<1>1. /\ UNCHANGED <<balance, cache, lapsed>> /\ phase[w] # "clearing"
      /\ \A v \in Workers \ {w} : phase'[v] = phase[v] /\ job'[v] = job[v] /\ tx'[v] = tx[v]
  <2>1. UNCHANGED <<balance, cache, lapsed>> /\ phase[w] # "clearing"
    BY DEF EnterCredit, AddToBalance, DebitTooMuch, Confirm, Grant, Award, Debit, CreatePurchase,
           db, history
  <2>2. \A v \in Workers \ {w} : phase'[v] = phase[v]
    BY DEF EnterCredit, AddToBalance, DebitTooMuch, Confirm, Grant, Award, Debit, CreatePurchase,
           Goto, Finish, Inv, TypeOK
  <2>3. \A v \in Workers \ {w} : job'[v] = job[v]
    BY DEF EnterCredit, AddToBalance, DebitTooMuch, Confirm, Grant, Award, Debit, CreatePurchase,
           Finish, Inv, TypeOK
  <2>4. \A v \in Workers \ {w} : tx'[v] = tx[v]
    BY DEF EnterCredit, AddToBalance, DebitTooMuch, Confirm, Grant, Award, Debit, CreatePurchase,
           Finish, Write, Inv, TypeOK
  <2> QED BY <2>1, <2>2, <2>3, <2>4
<1>2. phase'[w] # "filling"
  BY DEF EnterCredit, AddToBalance, DebitTooMuch, Confirm, Grant, Award, Debit, CreatePurchase,
         Goto, Finish, Inv, TypeOK
<1>3. Hooks(w)'
  <2>1. CASE EnterCredit(w) \/ AddToBalance(w) \/ \E o \in Orders : Debit(w, o)
    <3>1. job[w].order = None /\ UNCHANGED job
      BY <2>1 DEF EnterCredit, AddToBalance, Debit, CacheInv, Hooks
    <3> QED BY <3>1 DEF Hooks
  <2>2. CASE DebitTooMuch(w) \/ Award(w) \/ \E o \in Orders : CreatePurchase(w, o)
    <3>1. job'[w] = NoJob
      <4>1. Finish(w)
        BY <2>2 DEF DebitTooMuch, Award, CreatePurchase
      <4> QED BY <4>1 DEF Finish, Inv, TypeOK
    <3> QED BY <3>1 DEF Hooks, NoJob
  <2>3. CASE Confirm(w)
    <3>1. CASE Unconfirmed(job[w].order)
      <4>1. PICK t : t = [NoTx EXCEPT !.order = job[w].order,
                            !.bought = [purchases[job[w].order] EXCEPT !.status = "paid"]]
        OBVIOUS
      <4>2. t.entry = None
        BY <4>1 DEF NoTx
      <4>3. UNCHANGED job /\ Write(w, t) /\ Goto(w, "granting")
        BY <2>3, <3>1, <4>1 DEF Confirm
      <4>4. tx'[w] = t /\ phase'[w] = "granting"
        BY <4>3 DEF Write, Goto, Inv, TypeOK
      <4> QED BY <4>2, <4>3, <4>4 DEF Hooks
    <3>2. CASE ~Unconfirmed(job[w].order)
      <4>1. job'[w] = NoJob
        BY <2>3, <3>2 DEF Confirm, Finish, Inv, TypeOK
      <4> QED BY <4>1 DEF Hooks, NoJob
    <3> QED BY <3>1, <3>2
  <2>4. CASE Grant(w)
    <3>1. /\ tx'[w].entry = tx[w].entry /\ job' = job /\ phase'[w] = "committing"
      BY <2>4 DEF Grant, Write, Goto, Inv, TypeOK, Tx
    <3> QED BY <3>1 DEF CacheInv, Hooks
  <2> QED BY <2>1, <2>2, <2>3, <2>4
<1> QED BY <1>1, <1>2, <1>3, CacheFrame DEF Fills

\* A commit overtakes the readers of the balance it changes.
LEMMA CacheApplied ==
  ASSUME Inv, CacheInv, NEW w \in Workers, Apply(w), NEW u, u = job[w].user,
         \A v \in Workers \ {w} : phase'[v] = phase[v] /\ job'[v] \in {job[v], Overtaken(u)[v]},
         tx[w].delta # 0 => \A v \in Workers \ {w} : job'[v] = Overtaken(u)[v],
         tx[w].delta # 0 => \/ u \in lapsed'
                            \/ phase'[w] = "clearing" /\ job'[w].user = u,
         lapsed \subseteq lapsed', UNCHANGED cache,
         phase'[w] # "filling", job'[w].order = None
  PROVE  CacheInv'
<1>1. TypeOK /\ u \in Users /\ phase[w] = "committing" /\ tx[w].delta \in Int
  BY HandlerTypes DEF Apply, Inv, Tx
<1>2. /\ \A x \in Users \ {u} : balance'[x] = balance[x]
      /\ tx[w].delta = 0 => balance'[u] = balance[u]
      /\ \A v \in Workers \ {w} : tx'[v] = tx[v]
  BY <1>1 DEF Apply, Write, TypeOK
<1>3. ASSUME NEW v \in Workers \ {w}
      PROVE  /\ Fills(v)' /\ Hooks(v)' /\ job'[v].user = job[v].user
  <2>1. /\ job'[v].user = job[v].user /\ job'[v].order = job[v].order
        /\ job'[v] = job[v] \/ job'[v].overtaken
    BY OvertakenJobs DEF Inv, TypeOK, Overtaken, Job
  <2>2. Hooks(v)'
    BY <1>2, <2>1 DEF CacheInv, Hooks
  <2>3. Fills(v)'
    <3>1. SUFFICES ASSUME phase[v] = "filling"
                   PROVE  job'[v].overtaken \/ job'[v].seen = balance'[job'[v].user]
      BY DEF Fills
    <3>2. job[v].user \in Users /\ (job[v].overtaken \/ job[v].seen = balance[job[v].user])
      BY <3>1, HandlerTypes DEF CacheInv, Fills
    <3>3. CASE job[v].user = u /\ tx[w].delta # 0
      BY <3>1, <3>3, HandlerTypes DEF Overtaken, Job
    <3>4. CASE job[v].user # u \/ tx[w].delta = 0
      BY <1>2, <2>1, <3>2, <3>4
    <3> QED BY <3>3, <3>4
  <2> QED BY <2>1, <2>2, <2>3
<1>4. StaleOnlyByLapse'
  <2> SUFFICES ASSUME NEW x \in Users, cache[x] \notin {None, balance'[x]}
               PROVE  x \in lapsed' \/ \E v \in Workers : phase'[v] = "clearing" /\ job'[v].user = x
    BY DEF StaleOnlyByLapse
  <2>1. CASE x = u /\ tx[w].delta # 0
    BY <2>1
  <2>2. CASE x # u \/ tx[w].delta = 0
    <3>1. balance'[x] = balance[x]
      BY <1>2, <2>2
    <3>2. x \in lapsed \/ \E v \in Workers \ {w} : phase[v] = "clearing" /\ job[v].user = x
      BY <1>1, <3>1 DEF CacheInv, StaleOnlyByLapse
    <3> QED BY <1>3, <3>2
  <2> QED BY <2>1, <2>2
<1>5. Fills(w)' /\ Hooks(w)'
  BY DEF Fills, Hooks
<1> QED BY <1>3, <1>4, <1>5 DEF CacheInv

LEMMA CacheCommits ==
  ASSUME Inv, CacheInv, NEW w \in Workers, Commit(w) \/ CommitUnanswered(w)
  PROVE  CacheInv'
<1> PICK u : u = job[w].user
  OBVIOUS
<1>1. /\ TypeOK /\ Apply(w) /\ cache' = cache /\ phase[w] = "committing"
      /\ \A v \in Workers \ {w} : phase'[v] = phase[v]
  BY DEF Commit, CommitUnanswered, Apply, Failing, Finish, Goto, Inv, TypeOK
<1>2. CASE CommitUnanswered(w)
  <2>1. /\ phase'[w] = "idle" /\ job'[w] = NoJob
        /\ \A v \in Workers \ {w} : job'[v] = Overtaken(u)[v]
        /\ lapsed' = (IF tx[w].delta = 0 THEN lapsed ELSE lapsed \cup {u})
    BY <1>1, <1>2, OvertakenJobs DEF CommitUnanswered, Failing, Goto, TypeOK
  <2> QED BY <1>1, <2>1, CacheApplied DEF NoJob
<1>3. CASE Commit(w) /\ job[w].order = None
  <2>1. /\ phase'[w] = "clearing" /\ job' = Overtaken(u) /\ lapsed' = lapsed
    BY <1>1, <1>3 DEF Commit, Goto, TypeOK, history
  <2>2. job'[w].user = u /\ job'[w].order = None
    BY <1>1, <1>3, <2>1, OvertakenJobs DEF TypeOK
  <2> QED BY <1>1, <2>1, <2>2, CacheApplied
<1>4. CASE Commit(w) /\ job[w].order # None
  <2>1. tx[w].delta = 0
    BY <1>1, <1>4, HandlerTypes DEF CacheInv, Hooks, TxOK
  <2>2. /\ phase'[w] = "idle" /\ job'[w] = NoJob /\ lapsed' = lapsed
        /\ \A v \in Workers \ {w} : job'[v] = job[v]
    BY <1>1, <1>4 DEF Commit, Finish, Goto, TypeOK, history
  <2> QED BY <1>1, <2>1, <2>2, CacheApplied DEF NoJob
<1> QED BY <1>2, <1>3, <1>4

\* The writes of the cache, and a handler that ends before them.
LEMMA CacheWrites ==
  ASSUME Inv, CacheInv, NEW w \in Workers, Clear(w) \/ SetBalance(w) \/ Fail(w)
  PROVE  CacheInv'
<1> PICK u : u = job[w].user
  OBVIOUS
<1>1. /\ TypeOK /\ u \in Users /\ balance' = balance /\ phase'[w] = "idle" /\ job'[w] = NoJob
      /\ \A v \in Workers \ {w} : phase'[v] = phase[v] /\ job'[v] = job[v] /\ tx'[v] = tx[v]
  BY HandlerTypes DEF Clear, SetBalance, Fail, Failing, Finish, Write, Goto, Inv, TypeOK, db
<1>2. \A v \in Workers : Fills(v)' /\ Hooks(v)'
  BY <1>1 DEF CacheInv, Fills, Hooks, NoJob
<1>3. /\ \A x \in Users \ {u} : cache'[x] = cache[x] /\ (x \in lapsed => x \in lapsed')
      /\ \/ cache'[u] \in {None, balance[u]}
         \/ u \in lapsed'
         \/ cache' = cache /\ lapsed' = lapsed /\ phase[w] # "clearing"
  <2>1. CASE Clear(w)
    <3>1. cache' = [cache EXCEPT ![u] = None] /\ lapsed' = lapsed \ {u}
      BY <2>1 DEF Clear, Cleared
    <3> QED BY <1>1, <3>1 DEF TypeOK
  <2>2. CASE SetBalance(w)
    <3>1. /\ cache' = [cache EXCEPT ![u] = job[w].seen]
          /\ lapsed' = (IF job[w].overtaken THEN lapsed \cup {u} ELSE lapsed \ {u})
          /\ job[w].overtaken \/ job[w].seen = balance[u]
      BY <2>2 DEF SetBalance, CacheInv, Fills
    <3>2. cache'[u] = job[w].seen /\ \A x \in Users \ {u} : cache'[x] = cache[x]
      BY <1>1, <3>1 DEF TypeOK
    <3> QED BY <3>1, <3>2
  <2>3. CASE Fail(w)
    <3>1. /\ cache' = cache
          /\ lapsed' = (IF phase[w] = "clearing" THEN lapsed \cup {u} ELSE lapsed)
      BY <2>3 DEF Fail
    <3> QED BY <3>1
  <2> QED BY <2>1, <2>2, <2>3
<1>4. StaleOnlyByLapse'
  <2> SUFFICES ASSUME NEW x \in Users, cache'[x] \notin {None, balance[x]}, x \notin lapsed'
               PROVE  \E v \in Workers : phase'[v] = "clearing" /\ job'[v].user = x
    BY <1>1 DEF StaleOnlyByLapse
  <2>1. cache'[x] = cache[x] /\ x \notin lapsed /\ (x = u => phase[w] # "clearing")
    BY <1>3
  <2>2. PICK v \in Workers : phase[v] = "clearing" /\ job[v].user = x
    BY <2>1 DEF CacheInv, StaleOnlyByLapse
  <2> QED BY <1>1, <2>1, <2>2
<1> QED BY <1>2, <1>4 DEF CacheInv

LEMMA CacheNext == Inv /\ CacheInv /\ [Next]_vars => CacheInv'
<1> SUFFICES ASSUME Inv, CacheInv, [Next]_vars PROVE CacheInv'
  OBVIOUS
<1>1. CASE \E w \in Workers : Step(w) \/ Request(w) \/ Fail(w) \/ CommitUnanswered(w)
  BY <1>1, CacheRequests, CacheStatements, CacheCommits, CacheWrites DEF Step
<1>2. CASE (\E o \in Orders : Pay(o)) \/ UNCHANGED vars
  BY <1>2 DEF Pay, vars, db, handlers, history, CacheInv, StaleOnlyByLapse, Fills, Hooks
<1>3. ASSUME NEW u \in Users, ExpireBalance(u) PROVE CacheInv'
  <2>1. \A w \in Workers : Fills(w)' /\ Hooks(w)'
    BY <1>3 DEF ExpireBalance, db, handlers, CacheInv, Fills, Hooks
  <2>2. StaleOnlyByLapse'
    BY <1>3 DEF ExpireBalance, db, handlers, CacheInv, StaleOnlyByLapse, Inv, TypeOK
  <2> QED BY <2>1, <2>2 DEF CacheInv
<1> QED BY <1>1, <1>2, <1>3 DEF Next

\* A cached balance is the balance, but for a commit whose handler is about to delete it and
\* the three lapses that only the TTL mends (Credit, PurchaseWithPoints, GetBalance).
THEOREM StaleOnlyByLapseAlways == Spec => []StaleOnlyByLapse
<1>1. Init => CacheInv
  BY DEF Init, CacheInv, StaleOnlyByLapse, Fills, Hooks, NoJob
<1>2. CacheInv => StaleOnlyByLapse
  BY DEF CacheInv
<1> QED BY <1>1, <1>2, CacheNext, StoreInvariant, PTL DEF Spec
==========================================================================
