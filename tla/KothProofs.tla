--------------------------- MODULE KothProofs ---------------------------
(***************************************************************************)
(* Theorems about Koth, for any players, challenges, periods and failures. *)
(***************************************************************************)
EXTENDS Koth, TLAPS

\* The reign r is there, of u and taken by him.
IsWonBy(r, u) == reigns[r] # None /\ reigns[r].made = "won" /\ reigns[r].user = u

\* Where a handler is determines what it knows of its reign: it outlasted the king of the hill,
\* or is king or was.
JobOK(w) ==
  /\ phase[w] # "idle" => job[w] \in Job
  /\ phase[w] = "crowning" =>
       /\ job[w].king \in Reigns
       /\ IsKing(job[w].king, job[w].hill)
       /\ job[w].ms >= reigns[job[w].king].blink
  /\ phase[w] = "crediting" => job[w].king \in Reigns /\ IsWonBy(job[w].king, job[w].user)

\* The same of the reset worker: the king it found is of a past period and not yet rewarded.
ResetOK ==
  /\ reset.phase = "closing" =>
       reset.king \in Reigns /\ IsStale(reset.king, reset.hill, reset.period)
  /\ reset.phase = "rewarding" =>
       /\ reset.king \in Reigns
       /\ reigns[reset.king] # None
       /\ reigns[reset.king].fate = "reset" /\ reigns[reset.king].hill = reset.hill
       /\ reigns[reset.king].since < reset.period
       /\ \A c \in finalCredits : c.reign # reset.king

\* One transaction at a time has a hill.
HillsLocked ==
  /\ \A v, w \in Workers :
       v # w /\ phase[v] = "crowning" /\ phase[w] = "crowning" => job[v].hill # job[w].hill
  /\ \A w \in Workers :
       phase[w] = "crowning" /\ reset.phase = "closing" => job[w].hill # reset.hill

\* A hill has at most one king.
OneKing == \A h \in Hills, q, r \in Reigns : IsKing(q, h) /\ IsKing(r, h) => q = r

Inv ==
  /\ TypeOK
  /\ \A w \in Workers : JobOK(w)
  /\ ResetOK
  /\ HillsLocked
  /\ OneKing
  /\ CreditsAreEarned

----------------------------------------------------------------------------
(* The steps by what they do to the table of reigns *)

\* A row that is there stays; only its fate may change, from "reigns".
ReignsKept ==
  \A r \in Reigns : reigns[r] # None =>
    /\ reigns'[r] # None
    /\ reigns'[r].hill = reigns[r].hill /\ reigns'[r].user = reigns[r].user
    /\ reigns'[r].made = reigns[r].made /\ reigns'[r].since = reigns[r].since
    /\ reigns'[r].blink = reigns[r].blink
    /\ reigns[r].fate # "reigns" => reigns'[r].fate = reigns[r].fate

NewReign(h, u, c, ms, since, made) ==
  [hill |-> h, user |-> u, clip |-> c, blink |-> ms, since |-> since, made |-> made,
   fate |-> "reigns"]

\* What Seed does: the reign r of a vacant hill begins.
LEMMA Seeding ==
  ASSUME Inv, NEW h \in Hills, NEW ms \in 0..MaxMs, NEW c \in Clips, Seed(h, ms, c)
  PROVE  \E r \in Reigns :
           /\ reigns[r] = None
           /\ reigns' = [reigns EXCEPT ![r] = NewReign(h, Owner, c, ms, day, "seeded")]
           /\ NewReign(h, Owner, c, ms, day, "seeded") \in Reign
BY KothAssumption DEF Seed, IsNext, NewReign, Reign, Inv, TypeOK

\* What Crown does: the reign of the king that was read ends, and r begins.
LEMMA Crowning ==
  ASSUME Inv, NEW w \in Workers, Crown(w)
  PROVE  /\ job[w] \in Job /\ job[w].king \in Reigns
         /\ reigns[job[w].king] \in Reign
         /\ \E r \in Reigns :
              /\ reigns[r] = None /\ r # job[w].king
              /\ NewReign(job[w].hill, job[w].user, job[w].clip, job[w].ms, job[w].since, "won")
                   \in Reign
              /\ reigns' = [[reigns EXCEPT ![job[w].king].fate = "deposed"] EXCEPT ![r] =
                   NewReign(job[w].hill, job[w].user, job[w].clip, job[w].ms, job[w].since,
                            "won")]
              /\ job' = [job EXCEPT ![w].king = r]
<1> DEFINE j == job[w]
<1>1. j \in Job /\ j.king \in Reigns /\ reigns[j.king] # None /\ reigns[j.king] \in Reign
  BY DEF Inv, TypeOK, JobOK, Crown, IsKing
<1>2. NewReign(j.hill, j.user, j.clip, j.ms, j.since, "won") \in Reign
  BY <1>1 DEF NewReign, Reign, Job
<1>3. PICK r \in Reigns :
        /\ IsNext(r)
        /\ reigns' = [Ended(j.king, "deposed") EXCEPT ![r] =
             NewReign(j.hill, j.user, j.clip, j.ms, j.since, "won")]
        /\ job' = [job EXCEPT ![w].king = r]
  BY DEF Crown, NewReign, WinRef
<1>4. reigns[r] = None /\ r # j.king
  BY <1>1, <1>3 DEF IsNext
<1> QED BY <1>1, <1>2, <1>3, <1>4 DEF Ended

\* What CloseStale does: the reign that was found ends.
LEMMA Closing ==
  ASSUME Inv, CloseStale
  PROVE  /\ reset.king \in Reigns /\ reigns[reset.king] \in Reign
         /\ IsStale(reset.king, reset.hill, reset.period)
         /\ reigns' = [reigns EXCEPT ![reset.king].fate = "reset"]
BY DEF Inv, TypeOK, ResetOK, CloseStale, Ended, IsStale, IsKing

\* Nothing else touches it.
LEMMA OthersKeepReigns ==
  ASSUME [Next]_kvars,
         ~(\E h \in Hills, ms \in 0..MaxMs, c \in Clips : Seed(h, ms, c)),
         ~(\E w \in Workers : Crown(w)), ~CloseStale
  PROVE  reigns' = reigns
BY DEF Next, ServiceNext, Handle, ResetStep, Challenge, Refused, Lost, Outlast, CreditWin,
       CheckReset, FoundFresh, FoundStale, CreditFinal, ExpireKingClip, Fail, FailReset,
       Crash, Midnight, kvars
\* The hill whose reigns a step changes, and no other, has another king.
OtherHills(h) ==
  \A g \in Hills \ {h}, r \in Reigns :
    /\ IsKing(r, g) => IsKing(r, g)' /\ reigns'[r] = reigns[r]
    /\ IsKing(r, g)' => IsKing(r, g)

LEMMA SeedChanges ==
  ASSUME Inv, NEW h \in Hills, NEW ms \in 0..MaxMs, NEW c \in Clips, Seed(h, ms, c)
  PROVE  ReignsKept /\ OtherHills(h) /\ OneKing' /\ reigns' \in [Reigns -> Reign \cup {None}]
<1>1. PICK r \in Reigns :
        /\ reigns[r] = None
        /\ reigns' = [reigns EXCEPT ![r] = NewReign(h, Owner, c, ms, day, "seeded")]
        /\ NewReign(h, Owner, c, ms, day, "seeded") \in Reign
  BY Seeding
<1>2. reigns \in [Reigns -> Reign \cup {None}]
  BY DEF Inv, TypeOK
<1>3. \A q \in Reigns : reigns'[q] = IF q = r THEN NewReign(h, Owner, c, ms, day, "seeded")
                                             ELSE reigns[q]
  BY <1>1, <1>2
<1>4. ReignsKept /\ reigns' \in [Reigns -> Reign \cup {None}]
  BY <1>1, <1>2, <1>3 DEF ReignsKept
<1>5. \A q \in Reigns \ {r}, g \in Hills : IsKing(q, g)' => IsKing(q, g) /\ g # h
  BY <1>3 DEF IsKing, Seed, Vacant
<1>6. \A g \in Hills : IsKing(r, g)' => g = h
  BY <1>3, NoneIsNoReign, <1>1 DEF IsKing, NewReign
<1>7. OneKing'
  BY <1>5, <1>6 DEF Inv, OneKing
<1>8. \A q \in Reigns, g \in Hills : IsKing(q, g) => IsKing(q, g)' /\ reigns'[q] = reigns[q]
  BY <1>1, <1>3 DEF IsKing
<1>9. OtherHills(h)
  BY <1>5, <1>6, <1>8 DEF OtherHills
<1> QED BY <1>4, <1>7, <1>9

LEMMA CrownChanges ==
  ASSUME Inv, NEW w \in Workers, Crown(w)
  PROVE  /\ ReignsKept /\ OtherHills(job[w].hill) /\ OneKing'
         /\ reigns' \in [Reigns -> Reign \cup {None}]
         /\ \E r \in Reigns : job' = [job EXCEPT ![w].king = r] /\ IsWonBy(r, job[w].user)'
<1> DEFINE j == job[w]
           new == NewReign(j.hill, j.user, j.clip, j.ms, j.since, "won")
<1>1. PICK r \in Reigns :
        /\ reigns[r] = None /\ r # j.king /\ new \in Reign
        /\ reigns' = [[reigns EXCEPT ![j.king].fate = "deposed"] EXCEPT ![r] = new]
        /\ job' = [job EXCEPT ![w].king = r]
  BY Crowning
<1>2. /\ j \in Job /\ j.king \in Reigns /\ reigns[j.king] \in Reign
      /\ reigns \in [Reigns -> Reign \cup {None}] /\ job \in [Workers -> Job \cup {NoJob}]
      /\ phase[w] = "crowning" /\ IsKing(j.king, j.hill)
  BY Crowning DEF Inv, TypeOK, Crown, JobOK
<1>3. \A q \in Reigns : reigns'[q] =
        IF q = r THEN new
        ELSE IF q = j.king THEN [reigns[q] EXCEPT !.fate = "deposed"] ELSE reigns[q]
  BY <1>1, <1>2
<1>4. /\ new # None /\ new.hill = j.hill /\ new.user = j.user /\ new.made = "won"
      /\ new.fate = "reigns"
  BY <1>1, NoneIsNoReign DEF NewReign
<1> HIDE DEF new
<1>5. [reigns[j.king] EXCEPT !.fate = "deposed"] \in Reign
  BY <1>2 DEF Reign
<1>6. reigns' \in [Reigns -> Reign \cup {None}]
  <2>1. \A q \in Reigns : reigns'[q] \in Reign \cup {None}
    BY <1>1, <1>2, <1>3, <1>5
  <2>2. reigns' = [q \in Reigns |-> reigns'[q]]
    BY <1>1, <1>2
  <2> QED BY <2>1, <2>2
<1>7. ReignsKept
  BY <1>1, <1>2, <1>3, <1>5, NoneIsNoReign DEF ReignsKept, IsKing, Reign
<1>8. \A q \in Reigns \ {r}, g \in Hills : IsKing(q, g)' => IsKing(q, g) /\ q # j.king
  BY <1>1, <1>2, <1>3 DEF IsKing, Reign
<1>9. \A g \in Hills : IsKing(r, g)' => g = j.hill
  BY <1>3, <1>4 DEF IsKing
<1>10. OneKing'
  BY <1>2, <1>8, <1>9 DEF Inv, OneKing
<1>11. OtherHills(j.hill)
  <2>1. \A g \in Hills \ {j.hill}, q \in Reigns :
          IsKing(q, g) => IsKing(q, g)' /\ reigns'[q] = reigns[q]
    BY <1>1, <1>2, <1>3 DEF IsKing
  <2> QED BY <1>8, <1>9, <2>1 DEF OtherHills
<1>12. IsWonBy(r, j.user)'
  BY <1>1, <1>2, <1>3, <1>4 DEF IsWonBy, Job
<1> QED BY <1>1, <1>6, <1>7, <1>10, <1>11, <1>12

LEMMA CloseChanges ==
  ASSUME Inv, CloseStale
  PROVE  /\ ReignsKept /\ OtherHills(reset.hill) /\ OneKing'
         /\ reigns' \in [Reigns -> Reign \cup {None}]
         /\ reigns'[reset.king].fate = "reset"
<1> DEFINE k == reset.king
<1>1. /\ k \in Reigns /\ reigns[k] \in Reign /\ IsKing(k, reset.hill)
      /\ reigns' = [reigns EXCEPT ![k].fate = "reset"]
      /\ reigns \in [Reigns -> Reign \cup {None}]
  BY Closing DEF Inv, TypeOK, IsStale
<1>2. [reigns[k] EXCEPT !.fate = "reset"] \in Reign
  BY <1>1 DEF Reign
<1>3. \A q \in Reigns : reigns'[q] =
        IF q = k THEN [reigns[q] EXCEPT !.fate = "reset"] ELSE reigns[q]
  BY <1>1
<1>4. reigns' \in [Reigns -> Reign \cup {None}] /\ reigns'[k].fate = "reset"
  BY <1>1, <1>2 DEF Reign
<1>5. ReignsKept
  BY <1>1, <1>2, <1>3, NoneIsNoReign DEF ReignsKept, IsKing, Reign
<1>6. \A q \in Reigns, g \in Hills : IsKing(q, g)' => IsKing(q, g)
  BY <1>1, <1>3 DEF IsKing, Reign
<1>7. OneKing'
  BY <1>6 DEF Inv, OneKing
<1>8. \A g \in Hills \ {reset.hill}, q \in Reigns :
        IsKing(q, g) => IsKing(q, g)' /\ reigns'[q] = reigns[q]
  BY <1>1, <1>3 DEF IsKing
<1>9. OtherHills(reset.hill)
  BY <1>6, <1>8 DEF OtherHills
<1> QED BY <1>4, <1>5, <1>7, <1>9

----------------------------------------------------------------------------
(* The parts of the invariant *)

LEMMA PeriodTypes == ASSUME NEW h \in Hills, NEW d \in 0..LastDay PROVE PeriodStart(h, d) \in 0..LastDay
<1>1. d \in Nat /\ MonthDays \in Nat \ {0} /\ LastDay \in Nat
  BY KothAssumption
<1>2. d - (d % MonthDays) \in 0..d
  BY <1>1
<1> QED BY <1>1, <1>2 DEF PeriodStart

\* A step of any kind keeps the rows of the table and leaves a hill one king.
LEMMA ReignsStep ==
  ASSUME Inv, [Next]_kvars
  PROVE  ReignsKept /\ OneKing' /\ reigns' \in [Reigns -> Reign \cup {None}]
<1>1. CASE \E h \in Hills, ms \in 0..MaxMs, c \in Clips : Seed(h, ms, c)
  BY <1>1, SeedChanges
<1>2. CASE \E w \in Workers : Crown(w)
  BY <1>2, CrownChanges
<1>3. CASE CloseStale
  BY <1>3, CloseChanges
<1>4. CASE reigns' = reigns
  BY <1>4 DEF Inv, TypeOK, ReignsKept, OneKing, IsKing
<1> QED BY <1>1, <1>2, <1>3, <1>4, OthersKeepReigns

\* The lemmas below need of a handler's step no more than this.
LEMMA Finishing ==
  ASSUME Inv, NEW w \in Workers, Finish(w)
  PROVE  /\ phase' \in [Workers -> {"idle", "locking", "crowning", "crediting"}]
         /\ job' \in [Workers -> Job \cup {NoJob}]
         /\ phase'[w] = "idle"
         /\ \A v \in Workers \ {w} : phase'[v] = phase[v] /\ job'[v] = job[v]
BY DEF Inv, TypeOK, Finish, Goto

LEMMA HandlerTypes ==
  ASSUME Inv, [Next]_kvars
  PROVE  /\ phase' \in [Workers -> {"idle", "locking", "crowning", "crediting"}]
         /\ job' \in [Workers -> Job \cup {NoJob}]
<1> USE DEF Inv, TypeOK
<1>1. CASE \E w \in Workers, h \in Hills, u \in Users, ms \in 0..MaxMs, c \in Clips :
             Challenge(w, h, u, ms, c)
  BY <1>1 DEF Challenge, Goto, Job
<1>2. ASSUME NEW w \in Workers, Refused(w) \/ Lost(w) \/ CreditWin(w) \/ Fail(w)
      PROVE  /\ phase' \in [Workers -> {"idle", "locking", "crowning", "crediting"}]
             /\ job' \in [Workers -> Job \cup {NoJob}]
  BY <1>2, Finishing DEF Refused, Lost, CreditWin, Fail
<1>3. ASSUME NEW w \in Workers, Outlast(w) \/ Crown(w)
      PROVE  /\ phase' \in [Workers -> {"idle", "locking", "crowning", "crediting"}]
             /\ job' \in [Workers -> Job \cup {NoJob}]
  <2>1. job[w] \in Job
    BY <1>3 DEF JobOK, Outlast, Locks, Crown
  <2>2. PICK r \in Reigns : job' = [job EXCEPT ![w].king = r]
    BY <1>3 DEF Outlast, Crown, WinRef
  <2>3. [job[w] EXCEPT !.king = r] \in Job
    BY <2>1 DEF Job
  <2>4. job' \in [Workers -> Job \cup {NoJob}]
    BY <2>1, <2>2, <2>3
  <2> QED BY <1>3, <2>4 DEF Outlast, Crown, Goto
<1>4. CASE Crash
  BY <1>4 DEF Crash
<1>5. CASE UNCHANGED handlers
  BY <1>5 DEF handlers
<1> QED
  BY <1>1, <1>2, <1>3, <1>4, <1>5
  DEF Next, ServiceNext, Handle, ResetStep, Seed, CheckReset, FoundFresh, FoundStale, CloseStale,
      CreditFinal, ExpireKingClip, FailReset, Midnight, kvars, handlers

LEMMA ResetTypes ==
  ASSUME Inv, [Next]_kvars
  PROVE  reset' \in Reset
<1>1. reset \in Reset /\ day \in 0..LastDay /\ 0 \in 0..LastDay
  BY KothAssumption DEF Inv, TypeOK
<1>2. CASE CheckReset
  BY <1>1, <1>2, PeriodTypes DEF CheckReset, Reset
<1>3. CASE NextHill
  <2>1. HillAfter(reset.hill) \in Hills
    BY DEF HillAfter, Hills
  <2>2. reset' = [reset EXCEPT !.phase = "waiting", !.hill = HillAfter(reset.hill),
                               !.king = None, !.period = 0]
    BY <1>3 DEF NextHill
  <2> QED BY <1>1, <2>1, <2>2 DEF Reset
<1>4. CASE FoundStale
  <2>1. PICK r \in Reigns : reset' = [reset EXCEPT !.phase = "closing", !.king = r]
    BY <1>4 DEF FoundStale
  <2> QED BY <1>1, <2>1 DEF Reset
<1>5. CASE CloseStale \/ CreditFinal
  BY <1>1, <1>5 DEF CloseStale, CreditFinal, Reset
<1>6. CASE FailReset
  <2>1. CASE NextHill
    BY <1>3, <2>1
  <2>2. CASE reset' = [reset EXCEPT !.phase = "expiring"]
    BY <1>1, <2>2 DEF Reset
  <2> QED BY <1>6, <2>1, <2>2 DEF FailReset
<1>7. CASE Crash
  BY <1>1, <1>7 DEF Crash, Reset, Hills
<1>8. CASE UNCHANGED reset
  BY <1>1, <1>8
<1> QED
  BY <1>2, <1>3, <1>4, <1>5, <1>6, <1>7, <1>8
  DEF Next, ServiceNext, Handle, ResetStep, Seed, Challenge, Refused, Lost, Outlast, Crown,
      CreditWin, FoundFresh, ExpireKingClip, Fail, Midnight, kvars

\* What a step does to the credits.
LEMMA CreditTypes ==
  ASSUME Inv, [Next]_kvars
  PROVE  /\ winCredits' \in SUBSET [reign : Reigns, user : Users]
         /\ finalCredits' \in SUBSET [reign : Reigns, user : Users, hill : Hills,
                                      period : 0..LastDay]
<1> USE DEF Inv, TypeOK
<1>1. ASSUME NEW w \in Workers, CreditWin(w)
      PROVE  UNCHANGED finalCredits /\ winCredits' \in SUBSET [reign : Reigns, user : Users]
  BY <1>1 DEF CreditWin, JobOK, Job
<1>2. CASE CreditFinal
  <2>1. reigns[reset.king] \in Reign /\ reset.king \in Reigns
    BY <1>2 DEF CreditFinal, ResetOK
  <2> QED BY <1>2, <2>1 DEF CreditFinal, Reset, Reign
<1>3. CASE UNCHANGED credits
  BY <1>3 DEF credits
<1> QED
  BY <1>1, <1>2, <1>3
  DEF Next, ServiceNext, Handle, ResetStep, Seed, Challenge, Refused, Lost, Outlast, Crown,
      CheckReset, FoundFresh, FoundStale, CloseStale, ExpireKingClip, Fail, FailReset, Crash,
      Midnight, kvars, credits

LEMMA CounterTypes ==
  ASSUME Inv, [Next]_kvars
  PROVE  day' \in 0..LastDay /\ failures' \in 0..MaxFailures
<1> USE KothAssumption DEF Inv, TypeOK
<1>1. CASE Midnight
  BY <1>1 DEF Midnight
<1>2. CASE UNCHANGED day /\ MayFail
  BY <1>2 DEF MayFail
<1>3. CASE UNCHANGED <<day, failures>>
  BY <1>3
<1> QED
  BY <1>1, <1>2, <1>3
  DEF Next, ServiceNext, Handle, ResetStep, Seed, Challenge, Refused, Lost, Outlast, Crown,
      CreditWin, CheckReset, FoundFresh, FoundStale, CloseStale, CreditFinal, ExpireKingClip,
      Fail, FailReset, Crash, kvars

LEMMA TypeStep == ASSUME Inv, [Next]_kvars PROVE TypeOK'
BY ReignsStep, HandlerTypes, ResetTypes, CreditTypes, CounterTypes DEF TypeOK
\* A handler that does not step knows of its reign what it knew.
LEMMA JobKept ==
  ASSUME Inv, [Next]_kvars, NEW v \in Workers, phase'[v] = phase[v], job'[v] = job[v]
  PROVE  JobOK(v)'
<1> DEFINE k == job[v].king
           g == job[v].hill
<1>1. JobOK(v) /\ ReignsKept
  BY ReignsStep DEF Inv
<1>2. ASSUME phase[v] = "crowning"
      PROVE  IsKing(job[v].king, job[v].hill)' /\ reigns'[k] = reigns[k]
  <2>1. k \in Reigns /\ g \in Hills /\ IsKing(k, g)
    BY <1>1, <1>2 DEF JobOK, Job
  <2>2. ASSUME NEW h, OtherHills(h), h # g
        PROVE  IsKing(job[v].king, job[v].hill)' /\ reigns'[k] = reigns[k]
    BY <2>1, <2>2 DEF OtherHills, IsKing
  <2>3. ASSUME NEW h \in Hills, NEW ms \in 0..MaxMs, NEW c \in Clips, Seed(h, ms, c)
        PROVE  OtherHills(h) /\ h # g
    BY <2>1, <2>3, SeedChanges DEF Seed, Vacant
  <2>4. ASSUME NEW w \in Workers, Crown(w)
        PROVE  OtherHills(job[w].hill) /\ job[w].hill # g
    <3>1. w # v
      BY <2>4, <1>2 DEF Crown, Goto, Inv, TypeOK
    <3> QED BY <1>2, <2>4, <3>1, CrownChanges DEF Crown, Inv, HillsLocked
  <2>5. ASSUME CloseStale
        PROVE  OtherHills(reset.hill) /\ reset.hill # g
    BY <1>2, <2>5, CloseChanges DEF CloseStale, Inv, HillsLocked
  <2>6. CASE reigns' = reigns
    BY <2>1, <2>6 DEF IsKing
  <2> QED BY <2>2, <2>3, <2>4, <2>5, <2>6, OthersKeepReigns
<1>3. ASSUME phase[v] = "crediting"
      PROVE  IsWonBy(job[v].king, job[v].user)'
  BY <1>1, <1>3 DEF JobOK, IsWonBy, ReignsKept
<1> QED BY <1>1, <1>2, <1>3 DEF JobOK

LEMMA JobStep == ASSUME Inv, [Next]_kvars PROVE \A v \in Workers : JobOK(v)'
<1> TAKE v \in Workers
<1> USE DEF Inv, TypeOK
<1>1. CASE phase'[v] = phase[v] /\ job'[v] = job[v]
  BY <1>1, JobKept
<1>2. CASE phase'[v] = "idle"
  BY <1>2 DEF JobOK
<1>3. ASSUME NEW w \in Workers, NEW h \in Hills, NEW u \in Users, NEW ms \in 0..MaxMs,
             NEW c \in Clips, Challenge(w, h, u, ms, c)
      PROVE  JobOK(v)'
  BY <1>1, <1>3 DEF Challenge, Goto, JobOK, Job
<1>4. ASSUME NEW w \in Workers, Refused(w) \/ Lost(w) \/ CreditWin(w) \/ Fail(w)
      PROVE  JobOK(v)'
  BY <1>1, <1>2, <1>4, Finishing DEF Refused, Lost, CreditWin, Fail
<1>5. ASSUME NEW w \in Workers, Outlast(w)
      PROVE  JobOK(v)'
  <2>1. PICK r \in Reigns :
          /\ IsKing(r, job[w].hill) /\ job[w].ms >= reigns[r].blink
          /\ job' = [job EXCEPT ![w].king = r]
    BY <1>5 DEF Outlast
  <2>2. job[w] \in Job /\ reigns' = reigns /\ phase' = [phase EXCEPT ![w] = "crowning"]
    BY <1>5 DEF Outlast, Locks, Goto, JobOK
  <2>3. CASE v = w
    <3>1. job'[v] = [job[w] EXCEPT !.king = r]
      BY <2>1, <2>3
    <3>2. job'[v] \in Job /\ job'[v].king = r /\ job'[v].hill = job[w].hill
          /\ job'[v].ms = job[w].ms
      BY <2>2, <3>1 DEF Job
    <3> QED BY <2>1, <2>2, <2>3, <3>2 DEF JobOK, IsKing
  <2>4. CASE v # w
    BY <1>1, <2>1, <2>2, <2>4
  <2> QED BY <2>3, <2>4
<1>6. ASSUME NEW w \in Workers, Crown(w)
      PROVE  JobOK(v)'
  <2>1. PICK r \in Reigns :
          job' = [job EXCEPT ![w].king = r] /\ IsWonBy(r, job[w].user)'
    BY <1>6, CrownChanges
  <2>2. job[w] \in Job /\ phase' = [phase EXCEPT ![w] = "crediting"]
    BY <1>6, Crowning DEF Crown, Goto
  <2>3. CASE v = w
    <3>1. job'[v] = [job[w] EXCEPT !.king = r]
      BY <2>1, <2>3
    <3>2. job'[v] \in Job /\ job'[v].king = r
      BY <2>2, <3>1 DEF Job
    <3> QED BY <2>1, <2>2, <2>3, <3>2 DEF JobOK
  <2>4. CASE v # w
    BY <1>1, <2>1, <2>2, <2>4
  <2> QED BY <2>3, <2>4
<1>7. CASE Crash
  BY <1>2, <1>7 DEF Crash
<1>8. CASE UNCHANGED handlers
  BY <1>1, <1>8 DEF handlers
<1> QED
  BY <1>3, <1>4, <1>5, <1>6, <1>7, <1>8
  DEF Next, ServiceNext, Handle, ResetStep, Seed, CheckReset, FoundFresh, FoundStale, CloseStale,
      CreditFinal, ExpireKingClip, FailReset, Midnight, kvars, handlers

\* The locks.
LEMMA LocksStep == ASSUME Inv, [Next]_kvars PROVE HillsLocked'
<1> USE DEF Inv, TypeOK
<1>1. ASSUME NEW w \in Workers, Outlast(w)
      PROVE  HillsLocked'
  <2>1. PICK r \in Reigns : job' = [job EXCEPT ![w].king = r]
    BY <1>1 DEF Outlast
  <2>2. /\ job[w] \in Job /\ HillFree(job[w].hill) /\ reset' = reset
        /\ phase' = [phase EXCEPT ![w] = "crowning"]
    BY <1>1 DEF Outlast, Locks, Goto, JobOK
  <2>3. \A v \in Workers : phase'[v] = "crowning" =>
          job'[v].hill = job[v].hill /\ (v # w => phase[v] = "crowning")
    BY <2>1, <2>2 DEF Job
  <2> QED BY <2>2, <2>3 DEF HillsLocked, HillFree
<1>2. CASE FoundStale
  <2>1. /\ HillFree(reset.hill) /\ reset'.hill = reset.hill
        /\ phase' = phase /\ job' = job
    BY <1>2 DEF FoundStale, ResetLocks, Reset, handlers
  <2> QED BY <2>1 DEF HillsLocked, HillFree
<1>3. ASSUME \A v \in Workers : phase'[v] = "crowning" => phase[v] = "crowning" /\ job'[v] = job[v],
             reset'.phase = "closing" => reset' = reset
      PROVE  HillsLocked'
  BY <1>3 DEF HillsLocked
<1>4. ASSUME NEW w \in Workers, NEW h \in Hills, NEW u \in Users, NEW ms \in 0..MaxMs,
             NEW c \in Clips, Challenge(w, h, u, ms, c)
      PROVE  HillsLocked'
  BY <1>3, <1>4 DEF Challenge, Goto
<1>5. ASSUME NEW w \in Workers, Refused(w) \/ Lost(w) \/ CreditWin(w) \/ Fail(w)
      PROVE  HillsLocked'
  BY <1>3, <1>5, Finishing DEF Refused, Lost, CreditWin, Fail
<1>6. ASSUME NEW w \in Workers, Crown(w)
      PROVE  HillsLocked'
  <2>1. /\ \E r \in Reigns : job' = [job EXCEPT ![w].king = r]
        /\ phase' = [phase EXCEPT ![w] = "crediting"] /\ reset' = reset
    BY <1>6 DEF Crown, Goto, WinRef
  <2> QED BY <1>3, <2>1
<1>7. CASE UNCHANGED handlers /\ reset'.phase # "closing"
  BY <1>3, <1>7 DEF handlers
<1>8. CASE UNCHANGED handlers /\ UNCHANGED reset
  BY <1>3, <1>8 DEF handlers
<1>9. CASE Crash
  BY <1>3, <1>9 DEF Crash
<1>10. CheckReset \/ FoundFresh \/ CloseStale \/ CreditFinal \/ ExpireKingClip \/ FailReset
         => UNCHANGED handlers /\ reset'.phase # "closing"
  BY DEF CheckReset, FoundFresh, CloseStale, CreditFinal, ExpireKingClip, FailReset, NextHill,
         Reset
<1>11. ASSUME NEW h \in Hills, NEW ms \in 0..MaxMs, NEW c \in Clips, Seed(h, ms, c)
       PROVE  HillsLocked'
  BY <1>8, <1>11 DEF Seed
<1> QED
  BY <1>1, <1>2, <1>4, <1>5, <1>6, <1>7, <1>8, <1>9, <1>10, <1>11
  DEF Next, ServiceNext, Handle, ResetStep, Midnight, kvars, handlers

\* The king the reset found keeps being of a past period, or rewarded by nobody.
LEMMA ResetKept ==
  ASSUME Inv, [Next]_kvars, UNCHANGED <<reset, finalCredits>>
  PROVE  ResetOK'
<1> DEFINE k == reset.king
           g == reset.hill
<1>1. ResetOK /\ ReignsKept /\ g \in Hills
  BY ReignsStep DEF Inv, TypeOK, Reset
<1>2. ASSUME reset.phase = "closing"
      PROVE  IsStale(k, g, reset.period)'
  <2>1. k \in Reigns /\ IsStale(k, g, reset.period) /\ IsKing(k, g)
    BY <1>1, <1>2 DEF ResetOK, IsStale
  <2>2. ASSUME NEW h, OtherHills(h), h # g
        PROVE  IsStale(k, g, reset.period)'
    BY <1>1, <2>1, <2>2 DEF OtherHills, IsStale, IsKing
  <2>3. ASSUME NEW h \in Hills, NEW ms \in 0..MaxMs, NEW c \in Clips, Seed(h, ms, c)
        PROVE  OtherHills(h) /\ h # g
    BY <2>1, <2>3, SeedChanges DEF Seed, Vacant
  <2>4. ASSUME NEW w \in Workers, Crown(w)
        PROVE  OtherHills(job[w].hill) /\ job[w].hill # g
    BY <1>2, <2>4, CrownChanges DEF Crown, Inv, HillsLocked
  <2>5. ~CloseStale
    BY <1>2 DEF CloseStale, Inv, TypeOK, Reset
  <2>6. CASE reigns' = reigns
    BY <2>1, <2>6 DEF IsStale, IsKing
  <2> QED BY <2>2, <2>3, <2>4, <2>5, <2>6, OthersKeepReigns
<1>3. CASE reset.phase = "rewarding"
  BY <1>1, <1>3 DEF ResetOK, ReignsKept
<1> QED BY <1>1, <1>2, <1>3 DEF ResetOK

LEMMA ResetHolds == ASSUME Inv, [Next]_kvars PROVE ResetOK'
<1>1. CASE reset'.phase \notin {"closing", "rewarding"}
  BY <1>1 DEF ResetOK
<1>2. CASE UNCHANGED <<reset, finalCredits>>
  BY <1>2, ResetKept
<1>3. CASE FoundStale
  <2>1. PICK r \in Reigns :
          /\ IsStale(r, reset.hill, reset.period)
          /\ reset' = [reset EXCEPT !.phase = "closing", !.king = r]
    BY <1>3 DEF FoundStale
  <2>2. /\ reset'.king = r /\ reset'.phase = "closing" /\ reset'.hill = reset.hill
        /\ reset'.period = reset.period /\ reigns' = reigns
    BY <1>3, <2>1 DEF FoundStale, Inv, TypeOK, Reset
  <2> QED BY <2>1, <2>2 DEF ResetOK, IsStale, IsKing
<1>4. CASE CloseStale
  <2>1. /\ reset' = [reset EXCEPT !.phase = "rewarding"]
        /\ finalCredits' = finalCredits /\ reset \in Reset
    BY <1>4 DEF CloseStale, credits, Inv, TypeOK
  <2>2. /\ reset'.king = reset.king /\ reset'.phase = "rewarding" /\ reset'.hill = reset.hill
        /\ reset'.period = reset.period
    BY <2>1 DEF Reset
  <2>3. /\ reset.king \in Reigns /\ reigns[reset.king] # None
        /\ reigns[reset.king].hill = reset.hill /\ reigns[reset.king].fate = "reigns"
        /\ reigns[reset.king].since < reset.period
    BY <1>4, Closing DEF IsStale, IsKing
  <2>4. ReignsKept /\ reigns'[reset.king].fate = "reset"
    BY <1>4, CloseChanges
  <2>5. \A c \in finalCredits : c.reign # reset.king
    BY <2>3 DEF Inv, CreditsAreEarned
  <2> QED BY <2>1, <2>2, <2>3, <2>4, <2>5 DEF ResetOK, ReignsKept
<1>5. reset \in Reset
  BY DEF Inv, TypeOK
<1>6. ASSUME NextHill
      PROVE  reset'.phase \notin {"closing", "rewarding"}
  <2>1. reset' = [reset EXCEPT !.phase = "waiting", !.hill = HillAfter(reset.hill),
                               !.king = None, !.period = 0]
    BY <1>6 DEF NextHill
  <2> QED BY <1>5, <2>1 DEF Reset
<1>7. CheckReset \/ CreditFinal \/ Crash => reset'.phase \notin {"closing", "rewarding"}
  <2>1. CheckReset => reset'.phase = "locking"
    BY <1>5 DEF CheckReset, Reset
  <2>2. CreditFinal => reset'.phase = "expiring"
    BY <1>5 DEF CreditFinal, Reset
  <2>3. Crash => reset'.phase = "waiting"
    BY DEF Crash
  <2> QED BY <2>1, <2>2, <2>3
<1>8. FoundFresh \/ ExpireKingClip \/ FailReset => reset'.phase \notin {"closing", "rewarding"}
  BY <1>5, <1>6 DEF FoundFresh, ExpireKingClip, FailReset, Reset
<1> QED
  BY <1>1, <1>2, <1>3, <1>4, <1>7, <1>8
  DEF Next, ServiceNext, Handle, ResetStep, Seed, Challenge, Refused, Lost, Outlast, Crown,
      CreditWin, Fail, Midnight, kvars, credits

LEMMA CreditsStep == ASSUME Inv, [Next]_kvars PROVE CreditsAreEarned'
<1>1. /\ CreditsAreEarned /\ ReignsKept
      /\ winCredits \in SUBSET [reign : Reigns, user : Users]
      /\ finalCredits \in SUBSET [reign : Reigns, user : Users, hill : Hills,
                                  period : 0..LastDay]
  BY ReignsStep DEF Inv, TypeOK
<1>2. \A c \in winCredits : IsWonBy(c.reign, c.user)'
  BY <1>1 DEF CreditsAreEarned, ReignsKept, IsWonBy
<1>3. \A c \in finalCredits :
        /\ reigns'[c.reign] # None
        /\ reigns'[c.reign].fate = "reset" /\ reigns'[c.reign].since < c.period
        /\ reigns'[c.reign].hill = c.hill /\ reigns'[c.reign].user = c.user
  BY <1>1 DEF CreditsAreEarned, ReignsKept
<1>4. ASSUME NEW w \in Workers, CreditWin(w)
      PROVE  CreditsAreEarned'
  <2>1. IsWonBy(job[w].king, job[w].user) /\ reigns' = reigns /\ finalCredits' = finalCredits
    BY <1>4 DEF CreditWin, Inv, JobOK
  <2>2. winCredits' = winCredits \cup {[reign |-> job[w].king, user |-> job[w].user]}
    BY <1>4 DEF CreditWin
  <2> QED BY <1>1, <1>2, <1>3, <2>1, <2>2 DEF CreditsAreEarned, IsWonBy
<1>5. CASE CreditFinal
  <2> DEFINE c == [reign |-> reset.king, user |-> reigns[reset.king].user,
                   hill |-> reset.hill, period |-> reset.period]
  <2>1. finalCredits' = finalCredits \cup {c} /\ reigns' = reigns /\ winCredits' = winCredits
    BY <1>5 DEF CreditFinal
  <2>2. /\ reigns[reset.king] # None
        /\ reigns[reset.king].fate = "reset" /\ reigns[reset.king].hill = reset.hill
        /\ reigns[reset.king].since < reset.period
        /\ \A d \in finalCredits : d.reign # reset.king
    BY <1>5 DEF CreditFinal, Inv, ResetOK
  <2>3. \A d, e \in finalCredits' : d.reign = e.reign => d = e
    BY <1>1, <2>1, <2>2 DEF CreditsAreEarned
  <2> QED BY <1>2, <1>3, <2>1, <2>2, <2>3 DEF CreditsAreEarned, IsWonBy
<1>6. CASE UNCHANGED credits
  BY <1>1, <1>2, <1>3, <1>6 DEF CreditsAreEarned, IsWonBy, credits
<1> QED
  BY <1>4, <1>5, <1>6
  DEF Next, ServiceNext, Handle, ResetStep, Seed, Challenge, Refused, Lost, Outlast, Crown,
      CheckReset, FoundFresh, FoundStale, CloseStale, ExpireKingClip, Fail, FailReset, Crash,
      Midnight, kvars, credits

----------------------------------------------------------------------------
(* Theorems *)

LEMMA InitHolds == Init => Inv
<1> SUFFICES ASSUME Init PROVE Inv
  OBVIOUS
<1>1. TypeOK
  <2>1. reset \in Reset /\ day \in 0..LastDay /\ failures \in 0..MaxFailures
    BY KothAssumption DEF Init, Reset, Hills
  <2> QED BY <2>1 DEF Init, TypeOK
<1>2. \A w \in Workers : JobOK(w)
  BY DEF Init, JobOK
<1>3. ResetOK /\ HillsLocked /\ OneKing /\ CreditsAreEarned
  BY DEF Init, ResetOK, HillsLocked, OneKing, IsKing, CreditsAreEarned
<1> QED BY <1>1, <1>2, <1>3 DEF Inv

\* The inductive invariant: a hill is had by one transaction at a time, which knows of its king
\* what it read, and has one king at most.
THEOREM KothInvariant == Spec => []Inv
<1>1. Inv /\ [Next]_kvars => Inv'
  BY TypeStep, JobStep, ResetHolds, LocksStep, ReignsStep, CreditsStep DEF Inv
<1> QED BY <1>1, InitHolds, PTL DEF Spec

\* Type correctness of the koth service.
THEOREM KothTypeCorrect == Spec => []TypeOK
<1>1. Inv => TypeOK
  BY DEF Inv
<1> QED BY <1>1, KothInvariant, PTL

\* A crown is paid to whoever took it, the end of a period to who was king then, once.
THEOREM CreditsAreAlwaysEarned == Spec => []CreditsAreEarned
<1>1. Inv => CreditsAreEarned
  BY DEF Inv
<1> QED BY <1>1, KothInvariant, PTL

----------------------------------------------------------------------------
(* The refinement *)

\* The row of the king is the king of the abstract hill, before a step and after it.
LEMMA KingIs ==
  ASSUME OneKing, NEW h \in Hills, NEW r \in Reigns, IsKing(r, h)
  PROVE  KingOf(h) = RowOf(r)
BY DEF KingOf, Vacant, OneKing

LEMMA KingWillBe ==
  ASSUME OneKing', NEW h \in Hills, NEW r \in Reigns, IsKing(r, h)'
  PROVE  KingOf(h)' = RowOf(r)'
<1>1. \A q \in Reigns : IsKing(q, h)' => q = r
  BY DEF OneKing
<1>2. (CHOOSE q \in Reigns : IsKing(q, h))' = r
  BY <1>1
<1> QED BY <1>2 DEF KingOf, Vacant

LEMMA OtherKings ==
  ASSUME OneKing, OneKing', NEW h, OtherHills(h), NEW g \in Hills \ {h}
  PROVE  KingOf(g)' = KingOf(g)
<1>1. CASE \E r \in Reigns : IsKing(r, g)
  <2>1. PICK r \in Reigns : IsKing(r, g)
    BY <1>1
  <2>2. IsKing(r, g)' /\ reigns'[r] = reigns[r]
    BY <2>1 DEF OtherHills
  <2> QED BY <2>1, <2>2, KingIs, KingWillBe DEF RowOf
<1>2. CASE Vacant(g)
  <2>1. Vacant(g)'
    BY <1>2 DEF OtherHills, Vacant
  <2> QED BY <1>2, <2>1 DEF KingOf
<1> QED BY <1>1, <1>2 DEF Vacant

\* The champions are those whose reign the reset ended.
IsChampion(r) == reigns[r] # None /\ reigns[r].fate = "reset"

LEMMA ChampionsKept ==
  ASSUME ReignsKept, \A r \in Reigns : IsChampion(r)' => IsChampion(r)
  PROVE  Champions' = Champions
<1>1. \A r \in Reigns : IsChampion(r) => IsChampion(r)' /\ RowOf(r)' = RowOf(r)
  BY DEF ReignsKept, IsChampion, RowOf
<1>2. Champions = {RowOf(r) : r \in {q \in Reigns : IsChampion(q)}}
  BY DEF Champions, IsChampion
<1>3. Champions' = {RowOf(r)' : r \in {q \in Reigns : IsChampion(q)'}}
  BY DEF Champions, IsChampion
<1> QED BY <1>1, <1>2, <1>3

LEMMA RowTypes ==
  ASSUME NEW r \in Reigns, reigns[r] \in Reign
  PROVE  RowOf(r) \in [id : Reigns, user : Users, blink : 0..MaxMs] /\ RowOf(r) # None
BY NoneIsNoReign DEF RowOf, Reign

LEMMA SeedImplements ==
  ASSUME Inv, NEW h \in Hills, NEW ms \in 0..MaxMs, NEW c \in Clips, Seed(h, ms, c)
  PROVE  Abstract!Next
<1> DEFINE new == NewReign(h, Owner, c, ms, day, "seeded")
           king == [g \in Hills |-> KingOf(g)]
<1>1. PICK r \in Reigns :
        /\ reigns[r] = None
        /\ reigns' = [reigns EXCEPT ![r] = new]
        /\ new \in Reign
  BY Seeding
<1> DEFINE k == [id |-> r, user |-> Owner, blink |-> ms]
<1>2. ReignsKept /\ OtherHills(h) /\ OneKing /\ OneKing' /\ reigns \in [Reigns -> Reign \cup {None}]
  BY SeedChanges DEF Inv, TypeOK
<1>3. /\ reigns'[r] = new /\ \A q \in Reigns \ {r} : reigns'[q] = reigns[q]
      /\ new # None /\ new.hill = h /\ new.user = Owner /\ new.blink = ms /\ new.fate = "reigns"
  BY <1>1, <1>2, NoneIsNoReign DEF NewReign
<1> HIDE DEF new
<1>4. KingOf(h)' = k
  <2>1. IsKing(r, h)'
    BY <1>3 DEF IsKing
  <2>2. RowOf(r)' = k
    BY <1>3 DEF RowOf
  <2> QED BY <1>2, <2>1, <2>2, KingWillBe
<1>5. KingOf(h) = None
  BY DEF Seed, KingOf
<1>6. \A g \in Hills \ {h} : KingOf(g)' = KingOf(g)
  BY <1>2, OtherKings
<1>7. king' = [king EXCEPT ![h] = k]
  BY <1>4, <1>6
<1>8. Champions' = Champions
  <2>1. \A q \in Reigns : IsChampion(q)' => IsChampion(q)
    BY <1>3 DEF IsChampion
  <2> QED BY <1>2, <2>1, ChampionsKept
<1>9. k \in [id : Reigns, user : Users, blink : 0..MaxMs]
  BY KothAssumption
<1>10. Abstract!Seed(h, k)
  BY <1>5, <1>7, <1>8 DEF Abstract!Seed
<1> QED BY <1>9, <1>10 DEF Abstract!Next

LEMMA CrownImplements ==
  ASSUME Inv, NEW w \in Workers, Crown(w)
  PROVE  Abstract!Next
<1> DEFINE j == job[w]
           new == NewReign(j.hill, j.user, j.clip, j.ms, j.since, "won")
           king == [g \in Hills |-> KingOf(g)]
<1>1. PICK r \in Reigns :
        /\ reigns[r] = None /\ r # j.king /\ new \in Reign
        /\ reigns' = [[reigns EXCEPT ![j.king].fate = "deposed"] EXCEPT ![r] = new]
  BY Crowning
<1> DEFINE k == [id |-> r, user |-> j.user, blink |-> j.ms]
<1>2. /\ ReignsKept /\ OtherHills(j.hill) /\ OneKing /\ OneKing'
      /\ reigns \in [Reigns -> Reign \cup {None}]
  BY CrownChanges DEF Inv, TypeOK
<1>3. /\ j.hill \in Hills /\ j.user \in Users /\ j.ms \in 0..MaxMs
      /\ j.king \in Reigns /\ reigns[j.king] \in Reign
      /\ IsKing(j.king, j.hill) /\ j.ms >= reigns[j.king].blink
  BY Crowning DEF Job, Crown, Inv, JobOK
<1>4. /\ reigns'[r] = new /\ new # None /\ new.hill = j.hill /\ new.user = j.user
      /\ new.blink = j.ms /\ new.fate = "reigns"
      /\ reigns'[j.king].fate = "deposed"
      /\ \A q \in Reigns \ {r, j.king} : reigns'[q] = reigns[q]
  BY <1>1, <1>2, <1>3, NoneIsNoReign DEF NewReign, Reign
<1>h. PICK h \in Hills : h = j.hill
  BY <1>3
<1>k. PICK c \in [id : Reigns, user : Users, blink : 0..MaxMs] : c = k
  BY <1>3
<1> HIDE DEF new, j, k
<1>5. KingOf(h)' = c
  <2>2. IsKing(r, h)'
    BY <1>4, <1>h DEF IsKing
  <2>3. RowOf(r)' = c
    BY <1>4, <1>k DEF RowOf, k
  <2> QED BY <1>2, <1>h, <2>2, <2>3, KingWillBe
<1>6. KingOf(h) = RowOf(j.king) /\ RowOf(j.king) # None
  BY <1>2, <1>3, <1>h, KingIs, RowTypes
<1>7. \A g \in Hills \ {h} : KingOf(g)' = KingOf(g)
  BY <1>2, <1>h, OtherKings
<1>8. king' = [king EXCEPT ![h] = c]
  BY <1>5, <1>7
<1>9. Champions' = Champions
  <2>1. \A q \in Reigns : IsChampion(q)' => IsChampion(q)
    BY <1>4 DEF IsChampion
  <2> QED BY <1>2, <2>1, ChampionsKept
<1>10. king[h] # None /\ c.id # king[h].id /\ c.blink >= king[h].blink
  BY <1>1, <1>3, <1>4, <1>6, <1>k DEF RowOf, k
<1>11. Abstract!Crown(h, c)
  BY <1>8, <1>9, <1>10 DEF Abstract!Crown
<1> QED BY <1>11 DEF Abstract!Next

LEMMA CloseImplements ==
  ASSUME Inv, CloseStale
  PROVE  Abstract!Next
<1> DEFINE king == [g \in Hills |-> KingOf(g)]
<1>1. PICK h \in Hills : h = reset.hill
  BY DEF Inv, TypeOK, Reset
<1>2. PICK k \in Reigns : k = reset.king
  BY Closing
<1>3. /\ reigns[k] \in Reign /\ IsKing(k, h)
      /\ reigns' = [reigns EXCEPT ![k].fate = "reset"]
      /\ reigns \in [Reigns -> Reign \cup {None}]
  BY <1>1, <1>2, Closing DEF Inv, TypeOK, IsStale
<1>4. ReignsKept /\ OtherHills(h) /\ OneKing /\ OneKing'
  BY <1>1, CloseChanges DEF Inv
<1>5. reigns'[k].fate = "reset" /\ \A q \in Reigns \ {k} : reigns'[q] = reigns[q]
  BY <1>3 DEF Reign
<1>6. KingOf(h) = RowOf(k) /\ RowOf(k) # None
  BY <1>3, <1>4, KingIs, RowTypes
<1>7. KingOf(h)' = None
  <2>1. \A q \in Reigns : ~IsKing(q, h)'
    BY <1>3, <1>4, <1>5 DEF IsKing, OneKing
  <2> QED BY <2>1 DEF KingOf, Vacant
<1>8. \A g \in Hills \ {h} : KingOf(g)' = KingOf(g)
  BY <1>4, OtherKings
<1>9. king' = [king EXCEPT ![h] = None]
  BY <1>7, <1>8
<1>10. Champions' = Champions \cup {RowOf(k)}
  <2>1. \A q \in Reigns : IsChampion(q)' <=> IsChampion(q) \/ q = k
    BY <1>3, <1>4, <1>5 DEF IsChampion, IsKing, ReignsKept
  <2>2. \A q \in Reigns : IsChampion(q) \/ q = k => RowOf(q)' = RowOf(q)
    BY <1>3, <1>4 DEF IsChampion, IsKing, ReignsKept, RowOf
  <2>3. Champions = {RowOf(q) : q \in {p \in Reigns : IsChampion(p)}}
    BY DEF Champions, IsChampion
  <2>4. Champions' = {RowOf(q)' : q \in {p \in Reigns : IsChampion(p)'}}
    BY DEF Champions, IsChampion
  <2> QED BY <2>1, <2>2, <2>3, <2>4
<1>11. Abstract!EndPeriod(h)
  BY <1>6, <1>9, <1>10 DEF Abstract!EndPeriod
<1> QED BY <1>11 DEF Abstract!Next

LEMMA HillFirst == Init => Abstract!Init
<1>1. Init => \A h \in Hills : Vacant(h)
  BY DEF Init, Vacant, IsKing
<1>2. Init => Champions = {}
  BY DEF Init, Champions
<1> QED BY <1>1, <1>2 DEF Abstract!Init, KingOf

LEMMA HillStill ==
  ASSUME reigns' = reigns
  PROVE  UNCHANGED <<[h \in Hills |-> KingOf(h)], Champions>>
BY DEF KingOf, Vacant, IsKing, RowOf, Champions

LEMMA HillStep ==
  ASSUME Inv, [Next]_kvars
  PROVE  [Abstract!Next]_<<[h \in Hills |-> KingOf(h)], Champions>>
BY HillStill, SeedImplements, CrownImplements, CloseImplements, OthersKeepReigns

\* The interleaved transactions of challenges and resets implement the hill, in which a king
\* falls in one step to somebody who lasted as long, or to the end of his period.
THEOREM KothImplementsHill == Spec => ImplementsHill
<1>1. Inv /\ [Next]_kvars => [Abstract!Next]_<<[h \in Hills |-> KingOf(h)], Champions>>
  BY HillStep
<1> QED
  BY HillFirst, <1>1, KothInvariant, PTL DEF Spec, ImplementsHill, Abstract!Spec, Abstract!hvars

=========================================================================
