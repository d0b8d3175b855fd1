------------------------------ MODULE Koth ------------------------------
(***************************************************************************)
(* The daily and the monthly hill of the koth service: challenges, each a  *)
(* handler goroutine with a Postgres transaction, and the worker that ends *)
(* reigns of a past period. The lock of a hill is taken after the          *)
(* transaction began, and everything in between can happen before that:    *)
(* now() is the time the transaction BEGAN, and so is the start of a reign.*)
(* Taking the lock and reading the king under it is one action, the rest   *)
(* of the transaction up to its commit another. A call of the store or of  *)
(* the media service is one action, or fails, which is logged and dropped. *)
(* Time is counted in days. A reign keeps, instead of when it ended, how.  *)
(***************************************************************************)
EXTENDS Integers, FiniteSets

CONSTANTS
  Workers,     \* challenges being handled at a time
  Users,
  Owner,       \* of the game: the first king of a hill is his recording, put there by hand
  Clips,
  Reigns,      \* bound: ids of king_reigns
  MaxMs,       \* bound: how long anybody lasts
  FirstDay,    \* when the service starts
  LastDay,     \* bound: when time ends
  MonthDays,   \* days of a month
  MaxFailures, \* bound: failures of Postgres, of a call, of the process
  None

ASSUME KothAssumption ==
  /\ Reigns \subseteq Nat /\ IsFiniteSet(Reigns)
  /\ MaxMs \in Nat /\ LastDay \in Nat /\ FirstDay \in 0..LastDay
  /\ MonthDays \in Nat \ {0} /\ MaxFailures \in Nat
  /\ Owner \in Users /\ None \notin Nat

Hills == {"daily", "monthly"}

VARIABLES
  reigns,                     \* the table king_reigns
  phase, job,                 \* handlers: where each one is, its parameters and locals
  reset,                      \* the reset worker: the same
  winCredits, finalCredits,   \* credits sent to the store, by the reign they are for
  day, failures

handlers == <<phase, job>>
credits == <<winCredits, finalCredits>>
kvars == <<reigns, handlers, reset, credits, day, failures>>

----------------------------------------------------------------------------
(* Types *)

\* made, fate: how the reign began and how it ended, if it did.
Reign == [hill : Hills, user : Users, clip : Clips, blink : 0..MaxMs, since : 0..LastDay,
          made : {"seeded", "won"}, fate : {"reigns", "deposed", "reset"}]
ASSUME NoneIsNoReign == None \notin Reign \cup [id : Reigns, user : Users, blink : 0..MaxMs]

\* king: the reign that was read, in "crediting" the one that was opened.
Job == [hill : Hills, user : Users, clip : Clips, ms : 0..MaxMs, since : 0..LastDay,
        king : Reigns \cup {None}]
NoJob == None
ASSUME NoneIsNoJob == None \notin Job

Reset == [phase : {"waiting", "locking", "closing", "rewarding", "expiring"},
          hill : Hills, period : 0..LastDay, king : Reigns \cup {None}]

TypeOK ==
  /\ reigns \in [Reigns -> Reign \cup {None}]
  /\ phase \in [Workers -> {"idle", "locking", "crowning", "crediting"}]
  /\ job \in [Workers -> Job \cup {NoJob}]
  /\ reset \in Reset
  /\ winCredits \in SUBSET [reign : Reigns, user : Users]
  /\ finalCredits \in SUBSET [reign : Reigns, user : Users, hill : Hills, period : 0..LastDay]
  /\ day \in 0..LastDay
  /\ failures \in 0..MaxFailures

----------------------------------------------------------------------------
Init ==
  /\ reigns = [r \in Reigns |-> None]
  /\ phase = [w \in Workers |-> "idle"]
  /\ job = [w \in Workers |-> NoJob]
  /\ reset = [phase |-> "waiting", hill |-> "daily", period |-> 0, king |-> None]
  /\ winCredits = {} /\ finalCredits = {}
  /\ day = FirstDay
  /\ failures = 0

----------------------------------------------------------------------------
(* Hills *)

\* ended_at IS NULL.
IsKing(r, h) == reigns[r] # None /\ reigns[r].hill = h /\ reigns[r].fate = "reigns"
Vacant(h) == \A r \in Reigns : ~IsKing(r, h)

\* The advisory lock, which a transaction holds until it ends.
HillFree_Always(h) == TRUE   \* mutation: no lock
HillFree(h) ==
  /\ \A w \in Workers : phase[w] = "crowning" => job[w].hill # h
  /\ reset.phase = "closing" => reset.hill # h

\* Ids are given in order.
IsNext(r) == reigns[r] = None /\ \A q \in Reigns : q < r => reigns[q] # None

\* Bound: a challenge is begun, a king seated, only if an id is left for it.
ReignsLeft ==
  Cardinality({w \in Workers : phase[w] \in {"locking", "crowning"}})
    < Cardinality({r \in Reigns : reigns[r] = None})

Ended(r, fate) == [reigns EXCEPT ![r].fate = fate]

Seed(h, ms, c) ==
  /\ ReignsLeft
  /\ Vacant(h)
  /\ \E r \in Reigns :
       /\ IsNext(r)
       /\ reigns' = [reigns EXCEPT ![r] =
            [hill |-> h, user |-> Owner, clip |-> c, blink |-> ms, since |-> day,
             made |-> "seeded", fate |-> "reigns"]]
  /\ UNCHANGED <<handlers, reset, credits, day, failures>>

----------------------------------------------------------------------------
(* Challenges *)

Goto(w, p) == phase' = [phase EXCEPT ![w] = p]
Finish(w) == Goto(w, "idle") /\ job' = [job EXCEPT ![w] = NoJob]

\* The transaction begins.
Challenge(w, h, u, ms, c) ==
  /\ ReignsLeft
  /\ phase[w] = "idle"
  /\ Goto(w, "locking")
  /\ job' = [job EXCEPT ![w] = [hill |-> h, user |-> u, clip |-> c, ms |-> ms,
                                since |-> day, king |-> None]]
  /\ UNCHANGED <<reigns, reset, credits, day, failures>>

Locks(w) == phase[w] = "locking" /\ HillFree(job[w].hill)

\* ErrHillNotFound: the hill is not seeded.
Refused(w) ==
  /\ Locks(w)
  /\ Vacant(job[w].hill)
  /\ Finish(w)
  /\ UNCHANGED <<reigns, reset, credits, day, failures>>

Lost(w) ==
  /\ Locks(w)
  /\ \E r \in Reigns : IsKing(r, job[w].hill) /\ job[w].ms < reigns[r].blink
  /\ Finish(w)
  /\ UNCHANGED <<reigns, reset, credits, day, failures>>

Outlast(w) ==
  /\ Locks(w)
  /\ \E r \in Reigns :
       /\ IsKing(r, job[w].hill) /\ job[w].ms >= reigns[r].blink
       /\ job' = [job EXCEPT ![w].king = r]
  /\ Goto(w, "crowning")
  /\ UNCHANGED <<reigns, reset, credits, day, failures>>

WinRef_Deposed(w, r) == job[w].king   \* mutation: the id of the reign that was closed
WinRef(w, r) == r

\* One reign is closed, by its id, and the next one opened. The index on open reigns refuses a
\* second one of a hill: the handler then fails.
Crown(w) ==
  LET j == job[w] closed == Ended(j.king, "deposed") IN
  /\ phase[w] = "crowning"
  /\ \A r \in Reigns \ {j.king} : ~IsKing(r, j.hill)
  /\ \E r \in Reigns :
       /\ IsNext(r)
       /\ reigns' = [closed EXCEPT ![r] =
            [hill |-> j.hill, user |-> j.user, clip |-> j.clip, blink |-> j.ms,
             since |-> j.since, made |-> "won", fate |-> "reigns"]]
       /\ job' = [job EXCEPT ![w].king = WinRef(w, r)]
  /\ Goto(w, "crediting")
  /\ UNCHANGED <<reset, credits, day, failures>>

CreditWin(w) ==
  /\ phase[w] = "crediting"
  /\ winCredits' = winCredits \cup {[reign |-> job[w].king, user |-> job[w].user]}
  /\ Finish(w)
  /\ UNCHANGED <<reigns, reset, finalCredits, day, failures>>

----------------------------------------------------------------------------
(* The reset worker *)

\* The first day of the month or, on the daily hill, of the day.
PeriodStart_Rolling(h, d) ==   \* mutation: a month back from now
  IF h = "monthly" THEN d - MonthDays ELSE d
PeriodStart(h, d) == IF h = "monthly" THEN d - (d % MonthDays) ELSE d

IsStale(r, h, period) == IsKing(r, h) /\ reigns[r].since < period

\* A tick checks the daily hill, then the monthly one.
HillAfter_Same(h) == "daily"   \* mutation: the monthly hill is never checked
HillAfter(h) == IF h = "daily" THEN "monthly" ELSE "daily"
NextHill == reset' = [reset EXCEPT !.phase = "waiting", !.hill = HillAfter(@), !.king = None,
                                   !.period = 0]

CheckReset ==
  /\ reset.phase = "waiting"
  /\ reset' = [reset EXCEPT !.phase = "locking", !.period = PeriodStart(reset.hill, day)]
  /\ UNCHANGED <<reigns, handlers, credits, day, failures>>

ResetLocks == reset.phase = "locking" /\ HillFree(reset.hill)

FoundFresh ==
  /\ ResetLocks
  /\ \A r \in Reigns : ~IsStale(r, reset.hill, reset.period)
  /\ NextHill
  /\ UNCHANGED <<reigns, handlers, credits, day, failures>>

FoundStale ==
  /\ ResetLocks
  /\ \E r \in Reigns :
       /\ IsStale(r, reset.hill, reset.period)
       /\ reset' = [reset EXCEPT !.phase = "closing", !.king = r]
  /\ UNCHANGED <<reigns, handlers, credits, day, failures>>

CloseStale ==
  /\ reset.phase = "closing"
  /\ reigns' = Ended(reset.king, "reset")
  /\ reset' = [reset EXCEPT !.phase = "rewarding"]
  /\ UNCHANGED <<handlers, credits, day, failures>>

CreditFinal ==
  /\ reset.phase = "rewarding"
  /\ finalCredits' = finalCredits \cup
       {[reign |-> reset.king, user |-> reigns[reset.king].user,
         hill |-> reset.hill, period |-> reset.period]}
  /\ reset' = [reset EXCEPT !.phase = "expiring"]
  /\ UNCHANGED <<reigns, handlers, winCredits, day, failures>>

ExpireKingClip ==
  /\ reset.phase = "expiring"
  /\ NextHill
  /\ UNCHANGED <<reigns, handlers, credits, day, failures>>

----------------------------------------------------------------------------
(* Failures and time *)

MayFail == failures < MaxFailures /\ failures' = failures + 1

\* A statement fails, the transaction is rolled back; or the credit is dropped.
Fail(w) ==
  /\ MayFail
  /\ phase[w] # "idle"
  /\ Finish(w)
  /\ UNCHANGED <<reigns, reset, credits, day>>

\* An error ends the check of a hill; that of a call after the commit is dropped.
FailReset ==
  /\ MayFail
  /\ \/ reset.phase \in {"locking", "closing", "expiring"} /\ NextHill
     \/ reset.phase = "rewarding" /\ reset' = [reset EXCEPT !.phase = "expiring"]
  /\ UNCHANGED <<reigns, handlers, credits, day>>

\* The process ends and starts again, with a tick of the reset worker.
Crash ==
  /\ MayFail
  /\ phase' = [w \in Workers |-> "idle"]
  /\ job' = [w \in Workers |-> NoJob]
  /\ reset' = [phase |-> "waiting", hill |-> "daily", period |-> 0, king |-> None]
  /\ UNCHANGED <<reigns, credits, day>>

Midnight ==
  /\ day < LastDay
  /\ day' = day + 1
  /\ UNCHANGED <<reigns, handlers, reset, credits, failures>>

----------------------------------------------------------------------------
Handle(w) == Refused(w) \/ Lost(w) \/ Outlast(w) \/ Crown(w) \/ CreditWin(w)
ResetStep == CheckReset \/ FoundFresh \/ FoundStale \/ CloseStale \/ CreditFinal

\* The steps that touch no clip.
ServiceNext ==
  \/ \E w \in Workers : Handle(w) \/ Fail(w)
  \/ ResetStep \/ FailReset \/ Crash \/ Midnight

Next ==
  \/ \E h \in Hills, ms \in 0..MaxMs, c \in Clips :
       Seed(h, ms, c) \/ \E w \in Workers, u \in Users : Challenge(w, h, u, ms, c)
  \/ ExpireKingClip
  \/ ServiceNext

Spec == Init /\ [][Next]_kvars

\* Handlers and the ticker run on; Postgres gives a lock to those who wait for it in turn, and
\* so to the reset in the end.
Fairness ==
  /\ \A w \in Workers : WF_kvars(Handle(w))
  /\ SF_kvars(ResetStep \/ ExpireKingClip)

FairSpec == Spec /\ Fairness

----------------------------------------------------------------------------
(* Properties *)

\* Whoever is paid for a crown took it in the reign he is paid for, and whoever is paid for the
\* end of a period was king when it was ended, since before it, and is paid once for that
\* (hill_service.go creditWin, reset_service.go CloseStaleReign).
CreditsAreEarned ==
  /\ \A c \in winCredits :
       /\ reigns[c.reign] # None
       /\ reigns[c.reign].made = "won" /\ reigns[c.reign].user = c.user
  /\ \A c \in finalCredits :
       /\ reigns[c.reign] # None
       /\ reigns[c.reign].fate = "reset" /\ reigns[c.reign].since < c.period
       /\ reigns[c.reign].hill = c.hill /\ reigns[c.reign].user = c.user
  /\ \A c, d \in finalCredits : c.reign = d.reign => c = d

\* The interleaved transactions of challenges and resets are steps of Hill: no reign is ended
\* twice, no king is deposed by less than he held, no deposed king is rewarded as the last one
\* (hill_repository.go Challenge and CloseIfStale, "rather than racing").
RowOf(r) == [id |-> r, user |-> reigns[r].user, blink |-> reigns[r].blink]
KingOf(h) == IF Vacant(h) THEN None ELSE RowOf(CHOOSE r \in Reigns : IsKing(r, h))
Champions == {RowOf(r) : r \in {q \in Reigns : reigns[q] # None /\ reigns[q].fate = "reset"}}
Abstract == INSTANCE Hill WITH king <- [h \in Hills |-> KingOf(h)], champions <- Champions
ImplementsHill == Abstract!Spec

\* A king of a past period falls in the end, however often his hill is challenged
\* (worker_reset.go: the ticker "closes any stale reign").
Overdue(h) == \E r \in Reigns : IsStale(r, h, PeriodStart(h, day))
StaleReignEnds == \A h \in Hills : Overdue(h) ~> ~Overdue(h)
=========================================================================
