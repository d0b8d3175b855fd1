--------------------------- MODULE ServicesProofs ---------------------------
(***************************************************************************)
(* Theorems about the small services and about the life of a process, for  *)
(* any number of goroutines, of users and of faults. The ratings have a    *)
(* module of proofs of their own.                                          *)
(***************************************************************************)
EXTENDS MCServices, RatingsProofs

----------------------------------------------------------------------------
(* The ranked hill *)

\* The rank of a hold is one of the ranks there are.
LEMMA RankIsRanking ==
  ASSUME RanksAssumption, NEW h \in HoldTimes \cup {0}
  PROVE  ComputeRank(h) \in Ranking
<1> DEFINE met == {i \in DOMAIN Thresholds : h >= Thresholds[i]}
<1>0. Thresholds \in Seq(Int)
  BY DEF RanksAssumption
<1>1. Len(Thresholds) \in Nat /\ DOMAIN Thresholds = 1..Len(Thresholds)
  BY <1>0
<1>2. IsFiniteSet(1..Len(Thresholds)) /\ Cardinality(1..Len(Thresholds)) = Len(Thresholds)
  <2>1. PICK n \in Nat : n = Len(Thresholds)
    BY <1>1
  <2>2. IsFiniteSet(1..n) /\ Cardinality(1..n) = IF 1 > n THEN 0 ELSE n - 1 + 1
    BY FS_Interval
  <2>3. Cardinality(1..n) = n
    BY <2>2
  <2> QED  BY <2>1, <2>2, <2>3
<1>3. met \in SUBSET (1..Len(Thresholds))
  BY <1>1
<1>4. IsFiniteSet(met) /\ Cardinality(met) <= Len(Thresholds)
  BY <1>2, <1>3, FS_Subset
<1>5. Cardinality(met) \in Nat
  BY <1>4, FS_CardinalityType
<1> QED  BY <1>1, <1>4, <1>5 DEF ComputeRank, Ranking

\* What is known of a request in each phase.
AttemptOK(w) ==
  /\ kphase[w] # "idle" => attempt[w].user \in Climbers
  /\ kphase[w] = "credit" => Achieved(w) <= hillRanks[RowFor(w)].rank

RanksInv ==
  /\ RanksTypeOK
  /\ faults \in Nat
  /\ \A w \in Workers : AttemptOK(w)
  /\ BestRankKept

\* Only BestRankKept's own terms matter to it.
RowOK(ud) ==
  /\ told[ud] <= hillRanks[ud].rank
  /\ hillRanks[ud].rank > 0 => hillRanks[ud].rank = ComputeRank(hillRanks[ud].hold)
  /\ faults = 0 /\ hillRanks[ud].rank > 0 =>
       \/ [user |-> ud[1], day |-> ud[2], rank |-> hillRanks[ud].rank] \in paid
       \/ \E w \in Workers :
            kphase[w] = "credit" /\ RowFor(w) = ud /\ Achieved(w) = hillRanks[ud].rank

PaidOK(c) == c.rank <= hillRanks[<<c.user, c.day>>].rank

LEMMA BestRankKeptParts ==
  BestRankKept <=> (\A ud \in Climbers \X Days : RowOK(ud)) /\ \A c \in paid : PaidOK(c)
BY DEF BestRankKept, RowOK, PaidOK

LEMMA RanksInitInv ==
  ASSUME RanksAssumption, RanksInit, faults = 0
  PROVE  RanksInv
<1>1. 0 \in Ranking
  BY RankIsRanking DEF Ranking, RanksAssumption
<1>2. NoAttempt \in Attempt
  BY DEF NoAttempt, Attempt, RanksAssumption
<1>3. RanksTypeOK
  BY <1>1, <1>2 DEF RanksTypeOK, RanksInit, RanksAssumption
<1>4. \A w \in Workers : AttemptOK(w)
  BY DEF RanksInit, AttemptOK
<1>5. \A ud \in Climbers \X Days : RowOK(ud)
  BY DEF RanksInit, RowOK
<1>6. \A c \in paid : PaidOK(c)
  BY DEF RanksInit
<1> QED  BY <1>3, <1>4, <1>5, <1>6, BestRankKeptParts DEF RanksInv

\* A step of the type invariant, action by action.
LEMMA RanksTypeStep ==
  ASSUME RanksAssumption, RequestsAssumption, RanksInv, [RanksNext]_<<ranksVars, faults>>
  PROVE  RanksTypeOK' /\ faults' \in Nat
<1> USE DEF RanksInv
<1>1. NoAttempt \in Attempt
  BY DEF NoAttempt, Attempt, RanksAssumption
<1>a. ASSUME NEW w \in Workers
      PROVE  /\ attempt[w] \in Attempt
             /\ attempt[w].held \in HoldTimes \cup {0}
             /\ Achieved(w) \in Ranking
             /\ kphase[w] # "idle" => RowFor(w) \in Climbers \X Days
  <2>1. attempt[w] \in Attempt
    BY DEF RanksTypeOK
  <2>2. attempt[w].held \in HoldTimes \cup {0} /\ attempt[w].day \in Days
    BY <2>1 DEF Attempt
  <2>3. Achieved(w) \in Ranking
    BY <2>2, RankIsRanking DEF Achieved
  <2>4. kphase[w] # "idle" => RowFor(w) \in Climbers \X Days
    BY <2>2 DEF RowFor, AttemptOK
  <2> QED  BY <2>1, <2>2, <2>3, <2>4
<1>b. ASSUME NEW ud \in Climbers \X Days, NEW r \in Ranking, Answer(ud, r)
      PROVE  told' \in [Climbers \X Days -> Ranking]
  BY <1>b DEF Answer, RanksTypeOK
<1>c. ASSUME NEW w \in Workers, EndAttempt(w)
      PROVE  /\ kphase' \in [Workers -> {"idle", "read", "upsert", "credit"}]
             /\ attempt' \in [Workers -> Attempt]
  BY <1>c, <1>1 DEF EndAttempt, RanksTypeOK
<1>d. Fault => faults' \in Nat
  BY DEF Fault
<1>2. ASSUME NEW w \in Workers, NEW u \in Climbers, NEW h \in HoldTimes, SubmitAttempt(w, u, h)
      PROVE  RanksTypeOK' /\ faults' \in Nat
  <2>1. [user |-> u, day |-> today, held |-> h] \in Attempt
    BY DEF Attempt, RanksTypeOK
  <2>2. attempts' \in 0..MaxAttempts
    BY <1>2 DEF SubmitAttempt, RanksTypeOK, RanksAssumption
  <2> QED  BY <1>2, <2>1, <2>2 DEF SubmitAttempt, RanksTypeOK
<1>3. ASSUME NEW w \in Workers, GetRank(w)
      PROVE  RanksTypeOK' /\ faults' \in Nat
  <2>1. RowFor(w) \in Climbers \X Days
    BY <1>3, <1>a DEF GetRank
  <2>2. hillRanks[RowFor(w)].rank \in Ranking
    BY <2>1 DEF RanksTypeOK
  <2>3. CASE Achieved(w) > hillRanks[RowFor(w)].rank
    BY <1>3, <2>3 DEF GetRank, RanksTypeOK
  <2>4. CASE ~(Achieved(w) > hillRanks[RowFor(w)].rank)
    <3>1. Answer(RowFor(w), hillRanks[RowFor(w)].rank) /\ EndAttempt(w)
          /\ UNCHANGED <<today, hillRanks, paid, attempts, faults>>
      BY <1>3, <2>4 DEF GetRank
    <3>2. told' \in [Climbers \X Days -> Ranking]
      BY <3>1, <2>1, <2>2, <1>b
    <3> QED  BY <3>1, <3>2, <1>c DEF RanksTypeOK
  <2> QED  BY <2>3, <2>4
<1>4. ASSUME NEW w \in Workers, UpsertRank(w)
      PROVE  RanksTypeOK' /\ faults' \in Nat
  <2> DEFINE up == [hillRanks EXCEPT ![RowFor(w)] = Upserted(@, Achieved(w), attempt[w].held)]
  <2>1. RowFor(w) \in Climbers \X Days
    BY <1>4, <1>a DEF UpsertRank
  <2>2. Upserted(hillRanks[RowFor(w)], Achieved(w), attempt[w].held)
          \in [rank : Ranking, hold : HoldTimes \cup {0}]
    BY <2>1, <1>a DEF Upserted, RanksTypeOK
  <2>3. up \in [Climbers \X Days -> [rank : Ranking, hold : HoldTimes \cup {0}]]
    BY <2>1, <2>2 DEF RanksTypeOK
  <2>4. hillRanks' \in {hillRanks, up} /\ UNCHANGED <<today, paid, told, attempts>>
    BY <1>4 DEF UpsertRank
  <2>5. faults' \in Nat
    BY <1>4, <1>d DEF UpsertRank
  <2>6. /\ kphase' \in [Workers -> {"idle", "read", "upsert", "credit"}]
        /\ attempt' \in [Workers -> Attempt]
    BY <1>4, <1>c DEF UpsertRank, RanksTypeOK
  <2> HIDE DEF up
  <2> QED  BY <2>3, <2>4, <2>5, <2>6 DEF RanksTypeOK
<1>5. ASSUME NEW w \in Workers, CreditRankUp(w)
      PROVE  RanksTypeOK' /\ faults' \in Nat
  <2> DEFINE c == [user |-> attempt[w].user, day |-> attempt[w].day, rank |-> Achieved(w)]
  <2>1. /\ RowFor(w) \in Climbers \X Days
        /\ attempt[w].user \in Climbers /\ attempt[w].day \in Days /\ Achieved(w) \in Ranking
    BY <1>5, <1>a DEF CreditRankUp, RowFor
  <2>2. c \in [user : Climbers, day : Days, rank : Ranking]
    BY <2>1
  <2>3. paid' \in {paid, paid \cup {c}} /\ faults' \in Nat
    BY <1>5, <1>d DEF CreditRankUp
  <2>4. told' \in [Climbers \X Days -> Ranking]
    BY <1>5, <2>1, <1>b DEF CreditRankUp
  <2>5. EndAttempt(w) /\ UNCHANGED <<today, hillRanks, attempts>>
    BY <1>5 DEF CreditRankUp
  <2> HIDE DEF c
  <2> QED  BY <2>2, <2>3, <2>4, <2>5, <1>c DEF RanksTypeOK
<1>6. ASSUME NEW w \in Workers, AbortAttempt(w)
      PROVE  RanksTypeOK' /\ faults' \in Nat
  BY <1>6, <1>c, <1>d DEF AbortAttempt, RanksTypeOK
<1>7. ASSUME NEW u \in Climbers, Me(u)
      PROVE  RanksTypeOK' /\ faults' \in Nat
  <2>1. <<u, today>> \in Climbers \X Days
    BY DEF RanksTypeOK
  <2>2. hillRanks[<<u, today>>].rank \in Ranking
    BY <2>1 DEF RanksTypeOK
  <2>3. told' \in [Climbers \X Days -> Ranking]
    BY <1>7, <2>1, <2>2, <1>b DEF Me
  <2> QED  BY <1>7, <2>3 DEF Me, RanksTypeOK
<1>8. CASE Midnight
  BY <1>8 DEF Midnight, RanksTypeOK
<1>9. CASE UNCHANGED <<ranksVars, faults>>
  BY <1>9 DEF ranksVars, RanksTypeOK
<1> QED  BY <1>2, <1>3, <1>4, <1>5, <1>6, <1>7, <1>8, <1>9 DEF RanksNext

\* What the steps below need of a request, once.
LEMMA RequestTypes ==
  ASSUME RanksAssumption, RanksInv, NEW w \in Workers
  PROVE  /\ attempt[w] \in Attempt
         /\ Achieved(w) \in Ranking
         /\ kphase[w] # "idle" => RowFor(w) \in Climbers \X Days
         /\ kphase[w] # "idle" => RowFor(w) = <<attempt[w].user, attempt[w].day>>
         /\ kphase[w] # "idle" => attempt[w].user \in Climbers /\ attempt[w].day \in Days
<1>1. attempt[w] \in Attempt
  BY DEF RanksInv, RanksTypeOK
<1>2. attempt[w].held \in HoldTimes \cup {0} /\ attempt[w].day \in Days
  BY <1>1 DEF Attempt
<1>3. Achieved(w) \in Ranking
  BY <1>2, RankIsRanking DEF Achieved
<1>4. kphase[w] # "idle" => attempt[w].user \in Climbers
  BY DEF RanksInv, AttemptOK
<1> QED  BY <1>1, <1>2, <1>3, <1>4 DEF RowFor

LEMMA RankRowTypes ==
  ASSUME RanksInv, NEW ud \in Climbers \X Days
  PROVE  hillRanks[ud].rank \in Ranking /\ hillRanks[ud].hold \in HoldTimes \cup {0} /\ told[ud] \in Ranking
BY DEF RanksInv, RanksTypeOK

\* A request that leaves the others and the rows alone leaves what is known of the others.
LEMMA OtherRanksKept ==
  ASSUME RanksInv, NEW w \in Workers, NEW v \in Workers, v # w,
         kphase'[v] = kphase[v], attempt'[v] = attempt[v], hillRanks' = hillRanks
  PROVE  AttemptOK(v)'
BY DEF RanksInv, AttemptOK, Achieved, RowFor

LEMMA EndedIsOK ==
  ASSUME RanksInv, NEW w \in Workers, EndAttempt(w), hillRanks' = hillRanks
  PROVE  \A v \in Workers : AttemptOK(v)'
<1>1. kphase'[w] = "idle"
  BY DEF EndAttempt, RanksInv, RanksTypeOK
<1>2. \A v \in Workers : v # w => kphase'[v] = kphase[v] /\ attempt'[v] = attempt[v]
  BY DEF EndAttempt, RanksInv, RanksTypeOK
<1>3. AttemptOK(w)'
  BY <1>1 DEF AttemptOK
<1> QED  BY <1>2, <1>3, OtherRanksKept

\* A request that has not changed its row, and is not about to pay for it, can come and go.
LEMMA RowKept ==
  ASSUME RanksInv, hillRanks' = hillRanks, paid \subseteq paid', faults' \in {faults, faults + 1},
         NEW ud \in Climbers \X Days,
         told'[ud] <= hillRanks[ud].rank,
         \A w \in Workers : kphase[w] = "credit" /\ RowFor(w) = ud =>
           \/ kphase'[w] = "credit" /\ attempt'[w] = attempt[w]
           \/ faults' # 0
           \/ [user |-> ud[1], day |-> ud[2], rank |-> Achieved(w)] \in paid'
  PROVE  RowOK(ud)'
<1>1. RowOK(ud)
  BY BestRankKeptParts DEF RanksInv
<1>2. told'[ud] <= hillRanks'[ud].rank
  OBVIOUS
<1>3. hillRanks'[ud].rank > 0 => hillRanks'[ud].rank = ComputeRank(hillRanks'[ud].hold)
  BY <1>1 DEF RowOK
<1>4. ASSUME faults' = 0, hillRanks'[ud].rank > 0
      PROVE  \/ [user |-> ud[1], day |-> ud[2], rank |-> hillRanks'[ud].rank] \in paid'
             \/ \E w \in Workers :
                  kphase'[w] = "credit" /\ RowFor(w)' = ud /\ Achieved(w)' = hillRanks'[ud].rank
  <2>1. faults = 0
    BY <1>4 DEF RanksInv
  <2>2. CASE [user |-> ud[1], day |-> ud[2], rank |-> hillRanks[ud].rank] \in paid
    BY <2>2
  <2>3. CASE \E w \in Workers :
               kphase[w] = "credit" /\ RowFor(w) = ud /\ Achieved(w) = hillRanks[ud].rank
    <3>1. PICK w \in Workers : kphase[w] = "credit" /\ RowFor(w) = ud /\ Achieved(w) = hillRanks[ud].rank
      BY <2>3
    <3>2. CASE kphase'[w] = "credit" /\ attempt'[w] = attempt[w]
      BY <3>1, <3>2 DEF RowFor, Achieved
    <3>3. CASE [user |-> ud[1], day |-> ud[2], rank |-> Achieved(w)] \in paid'
      BY <3>1, <3>3
    <3> QED  BY <1>4, <3>1, <3>2, <3>3
  <2> QED  BY <1>1, <1>4, <2>1, <2>2, <2>3 DEF RowOK
<1> QED  BY <1>2, <1>3, <1>4 DEF RowOK

\* Nobody is told of more than is on record.
LEMMA AnswerIsOnRecord ==
  ASSUME RanksAssumption, RanksInv, NEW ud \in Climbers \X Days, NEW r \in Int,
         Answer(ud, r), r <= hillRanks[ud].rank
  PROVE  \A x \in Climbers \X Days : told'[x] <= hillRanks[x].rank
<1>1. \A x \in Climbers \X Days : told[x] <= hillRanks[x].rank
  BY BestRankKeptParts DEF RanksInv, RowOK
<1>2. told \in [Climbers \X Days -> Ranking]
  BY DEF RanksInv, RanksTypeOK
<1>3. \A x \in Climbers \X Days : x # ud => told'[x] = told[x]
  BY <1>2 DEF Answer
<1>4. told'[ud] \in {r, told[ud]}
  BY <1>2 DEF Answer
<1> QED  BY <1>1, <1>3, <1>4

\* The best rank is kept by every step.
LEMMA RanksStepInv ==
  ASSUME RanksAssumption, RequestsAssumption, RanksInv, [RanksNext]_<<ranksVars, faults>>
  PROVE  RanksInv'
<1>0. RanksTypeOK' /\ faults' \in Nat
  BY RanksTypeStep
<1>t. \A ud \in Climbers \X Days : told[ud] <= hillRanks[ud].rank
  BY BestRankKeptParts DEF RanksInv, RowOK
<1>p. \A c \in paid : PaidOK(c)
  BY BestRankKeptParts DEF RanksInv
<1>r. Ranking \subseteq Int
  BY DEF Ranking, RanksAssumption
<1>h. \A ud \in Climbers \X Days : hillRanks[ud].rank \in Int /\ told[ud] \in Int
  BY <1>r, RankRowTypes
<1>q. ASSUME hillRanks' = hillRanks, paid' = paid
      PROVE  \A c \in paid' : PaidOK(c)'
  BY <1>q, <1>p DEF PaidOK
<1>k. ASSUME \A w \in Workers : AttemptOK(w)',
             \A ud \in Climbers \X Days : RowOK(ud)',
             \A c \in paid' : PaidOK(c)'
      PROVE  RanksInv'
  <2>1. BestRankKept'
    BY <1>k DEF BestRankKept, RowOK, PaidOK
  <2> QED  BY <1>0, <1>k, <2>1 DEF RanksInv
<1>1. ASSUME NEW w \in Workers, NEW u \in Climbers, NEW h \in HoldTimes, SubmitAttempt(w, u, h)
      PROVE  RanksInv'
  <2>1. /\ kphase[w] = "idle" /\ kphase'[w] = "read" /\ attempt'[w].user = u
        /\ \A v \in Workers : v # w => kphase'[v] = kphase[v] /\ attempt'[v] = attempt[v]
        /\ UNCHANGED <<hillRanks, paid, told, faults>>
    BY <1>1 DEF SubmitAttempt, RanksInv, RanksTypeOK
  <2>2. AttemptOK(w)'
    BY <2>1 DEF AttemptOK
  <2>3. \A v \in Workers : AttemptOK(v)'
    BY <2>1, <2>2, OtherRanksKept
  <2>4. \A v \in Workers : kphase[v] = "credit" => kphase'[v] = "credit" /\ attempt'[v] = attempt[v]
    BY <2>1
  <2>5. \A ud \in Climbers \X Days : RowOK(ud)'
    BY <2>1, <2>4, <1>t, RowKept
  <2> QED  BY <2>1, <2>3, <2>5, <1>q, <1>k
<1>2. ASSUME NEW w \in Workers, GetRank(w)
      PROVE  RanksInv'
  <2>0. kphase[w] = "read" /\ UNCHANGED <<hillRanks, paid, faults>>
    BY <1>2 DEF GetRank
  <2>1. CASE Achieved(w) > hillRanks[RowFor(w)].rank
    <3>1. /\ kphase'[w] = "upsert" /\ attempt' = attempt /\ told' = told
          /\ \A v \in Workers : v # w => kphase'[v] = kphase[v]
      BY <1>2, <2>1 DEF GetRank, RanksInv, RanksTypeOK
    <3>2. AttemptOK(w)'
      BY <3>1, <2>0 DEF AttemptOK, RanksInv
    <3>3. \A v \in Workers : AttemptOK(v)'
      BY <3>1, <3>2, <2>0, OtherRanksKept
    <3>4. \A v \in Workers : kphase[v] = "credit" => kphase'[v] = "credit" /\ attempt'[v] = attempt[v]
      BY <3>1, <2>0
    <3>5. \A ud \in Climbers \X Days : RowOK(ud)'
      BY <3>1, <3>4, <2>0, <1>t, RowKept
    <3> QED  BY <3>3, <3>5, <2>0, <1>q, <1>k
  <2>2. CASE ~(Achieved(w) > hillRanks[RowFor(w)].rank)
    <3>1. Answer(RowFor(w), hillRanks[RowFor(w)].rank) /\ EndAttempt(w)
      BY <1>2, <2>2 DEF GetRank
    <3>2. \A v \in Workers : kphase[v] = "credit" => kphase'[v] = "credit" /\ attempt'[v] = attempt[v]
      BY <3>1, <2>0 DEF EndAttempt, RanksInv, RanksTypeOK
    <3>3. \A ud \in Climbers \X Days : told'[ud] <= hillRanks[ud].rank
      <4>1. RowFor(w) \in Climbers \X Days /\ hillRanks[RowFor(w)].rank \in Int
        BY <2>0, RequestTypes, <1>h
      <4>2. hillRanks[RowFor(w)].rank <= hillRanks[RowFor(w)].rank
        BY <4>1
      <4> QED  BY <3>1, <4>1, <4>2, AnswerIsOnRecord
    <3>4. \A ud \in Climbers \X Days : RowOK(ud)'
      BY <3>2, <3>3, <2>0, RowKept
    <3> QED  BY <3>1, <3>4, <2>0, EndedIsOK, <1>q, <1>k
  <2> QED  BY <2>1, <2>2
<1>3. ASSUME NEW w \in Workers, UpsertRank(w)
      PROVE  RanksInv'
  <2> DEFINE me == RowFor(w)
             new == Upserted(hillRanks[me], Achieved(w), attempt[w].held)
             up == [hillRanks EXCEPT ![me] = new]
  <2>1. /\ kphase[w] = "upsert" /\ me \in Climbers \X Days
        /\ hillRanks' \in {hillRanks, up} /\ UNCHANGED <<paid, told>>
    BY <1>3, RequestTypes DEF UpsertRank
  <2>2. Achieved(w) \in Int
    BY RequestTypes, <1>r
  <2>3. /\ new.rank >= Achieved(w) /\ new.rank >= hillRanks[me].rank /\ new.rank \in Int
        /\ (new = hillRanks[me] \/ (new.rank = Achieved(w) /\ new.hold = attempt[w].held))
    BY <2>1, <2>2, <1>h DEF Upserted
  <2>4. up[me] = new /\ \A ud \in Climbers \X Days : ud # me => up[ud] = hillRanks[ud]
    BY <2>1 DEF RanksInv, RanksTypeOK
  <2>5. \A ud \in Climbers \X Days : hillRanks'[ud].rank >= hillRanks[ud].rank /\ hillRanks'[ud].rank \in Int
    <3> HIDE DEF up, new, me
    <3>1. CASE hillRanks' = hillRanks
      BY <3>1, <1>h
    <3>2. CASE hillRanks' = up
      <4> SUFFICES ASSUME NEW ud \in Climbers \X Days
                   PROVE  up[ud].rank >= hillRanks[ud].rank /\ up[ud].rank \in Int
        BY <3>2
      <4>1. CASE ud = me
        BY <4>1, <2>3, <2>4
      <4>2. CASE ud # me
        BY <4>2, <2>4, <1>h
      <4> QED  BY <4>1, <4>2
    <3> QED  BY <2>1, <3>1, <3>2
  <2>6. \A c \in paid' : PaidOK(c)'
    <3>1. paid' = paid /\ paid \subseteq [user : Climbers, day : Days, rank : Ranking]
      BY <2>1 DEF RanksInv, RanksTypeOK
    <3>2. \A c \in paid : c.user \in Climbers /\ c.day \in Days /\ c.rank \in Int
      BY <3>1, <1>r
    <3> HIDE DEF up, new, me
    <3> SUFFICES ASSUME NEW c \in paid  PROVE c.rank <= hillRanks'[<<c.user, c.day>>].rank
      BY <3>1 DEF PaidOK
    <3>3. <<c.user, c.day>> \in Climbers \X Days
      BY <3>2
    <3> QED  BY <3>2, <3>3, <2>5, <1>p, <1>h DEF PaidOK
  <2>7. \A ud \in Climbers \X Days :
          hillRanks'[ud].rank > 0 => hillRanks'[ud].rank = ComputeRank(hillRanks'[ud].hold)
    <3>1. \A ud \in Climbers \X Days :
            hillRanks[ud].rank > 0 => hillRanks[ud].rank = ComputeRank(hillRanks[ud].hold)
      BY BestRankKeptParts DEF RanksInv, RowOK
    <3>2. Achieved(w) = ComputeRank(attempt[w].held)
      BY DEF Achieved
    <3>3. new.rank > 0 => new.rank = ComputeRank(new.hold)
      BY <3>1, <3>2, <2>1, <2>3
    <3> HIDE DEF up, new, me
    <3>4. CASE hillRanks' = hillRanks
      BY <3>1, <3>4
    <3>5. CASE hillRanks' = up
      <4> SUFFICES ASSUME NEW ud \in Climbers \X Days
                   PROVE  up[ud].rank > 0 => up[ud].rank = ComputeRank(up[ud].hold)
        BY <3>5
      <4>1. CASE ud = me
        BY <4>1, <3>3, <2>4
      <4>2. CASE ud # me
        BY <4>2, <3>1, <2>4
      <4> QED  BY <4>1, <4>2
    <3> QED  BY <2>1, <3>4, <3>5
  <2>8. \A ud \in Climbers \X Days : told'[ud] <= hillRanks'[ud].rank
    BY <2>1, <2>5, <1>t, <1>h
  <2>9. CASE hillRanks' = up /\ kphase' = [kphase EXCEPT ![w] = "credit"] /\ UNCHANGED <<attempt, faults>>
    <3>1. kphase'[w] = "credit" /\ \A v \in Workers : v # w => kphase'[v] = kphase[v]
      BY <2>9 DEF RanksInv, RanksTypeOK
    <3>2. \A v \in Workers : RowFor(v)' = RowFor(v) /\ Achieved(v)' = Achieved(v)
      BY <2>9 DEF RowFor, Achieved
    <3>3. hillRanks'[me] = new
      BY <2>4, <2>9
    <3>4. AttemptOK(w)'
      <4>1. attempt'[w].user \in Climbers
        BY <2>1, <2>9, RequestTypes
      <4> QED  BY <4>1, <3>2, <3>3, <2>3 DEF AttemptOK
    <3>5. ASSUME NEW v \in Workers, v # w
          PROVE  AttemptOK(v)'
      <4>1. AttemptOK(v)
        BY DEF RanksInv
      <4>2. kphase[v] = "credit" => RowFor(v) \in Climbers \X Days /\ Achieved(v) \in Int
        BY RequestTypes, <1>r
      <4> HIDE DEF up, new, me
      <4>3. kphase'[v] = "credit" => Achieved(v)' <= hillRanks'[RowFor(v)].rank
        BY <4>1, <4>2, <3>1, <3>2, <3>5, <2>5, <1>h DEF AttemptOK
      <4> QED  BY <4>1, <4>3, <3>1, <3>2, <3>5, <2>9 DEF AttemptOK
    <3>6. \A v \in Workers : AttemptOK(v)'
      BY <3>4, <3>5
    <3>7. ASSUME NEW ud \in Climbers \X Days
          PROVE  RowOK(ud)'
      <4>1. RowOK(ud)
        BY BestRankKeptParts DEF RanksInv
      <4>2. CASE hillRanks'[ud] = hillRanks[ud]
        <5> HIDE DEF up, new, me
        <5>1. \A v \in Workers : kphase[v] = "credit" => kphase'[v] = "credit"
          BY <3>1, <2>1
        <5> QED  BY <4>1, <4>2, <5>1, <2>1, <2>7, <2>8, <2>9, <3>2 DEF RowOK
      <4>3. CASE hillRanks'[ud] # hillRanks[ud]
        <5>1. ud = me /\ new # hillRanks[me]
          BY <4>3, <2>4, <2>9
        <5>2. hillRanks'[ud].rank = Achieved(w)'
          BY <5>1, <2>3, <3>2, <3>3
        <5>3. kphase'[w] = "credit" /\ RowFor(w)' = ud /\ Achieved(w)' = hillRanks'[ud].rank
          BY <5>1, <5>2, <3>1, <3>2
        <5> HIDE DEF up, new, me
        <5> QED  BY <5>3, <2>7, <2>8 DEF RowOK
      <4> QED  BY <4>2, <4>3
    <3> QED  BY <3>6, <3>7, <2>6, <1>k
  <2>10. CASE Fault /\ EndAttempt(w)
    <3>1. faults' # 0
      BY <2>10 DEF Fault, RanksInv
    <3>2. /\ kphase'[w] = "idle"
          /\ \A v \in Workers : v # w => kphase'[v] = kphase[v] /\ attempt'[v] = attempt[v]
      BY <2>10 DEF EndAttempt, RanksInv, RanksTypeOK
    <3>3. ASSUME NEW v \in Workers, v # w
          PROVE  AttemptOK(v)'
      <4>1. AttemptOK(v) /\ RowFor(v)' = RowFor(v) /\ Achieved(v)' = Achieved(v)
        BY <3>2, <3>3 DEF RanksInv, RowFor, Achieved
      <4>2. kphase[v] = "credit" => RowFor(v) \in Climbers \X Days /\ Achieved(v) \in Int
        BY RequestTypes, <1>r
      <4> HIDE DEF up, new, me
      <4>3. kphase'[v] = "credit" => Achieved(v)' <= hillRanks'[RowFor(v)].rank
        BY <4>1, <4>2, <3>2, <3>3, <2>5, <1>h DEF AttemptOK
      <4> QED  BY <4>1, <4>3, <3>2, <3>3 DEF AttemptOK
    <3>4. \A v \in Workers : AttemptOK(v)'
      BY <3>2, <3>3 DEF AttemptOK
    <3>5. \A ud \in Climbers \X Days : RowOK(ud)'
      BY <3>1, <2>7, <2>8 DEF RowOK
    <3> QED  BY <3>4, <3>5, <2>6, <1>k
  <2> QED  BY <1>3, <2>9, <2>10 DEF UpsertRank
<1>4. ASSUME NEW w \in Workers, CreditRankUp(w)
      PROVE  RanksInv'
  <2> DEFINE c == [user |-> attempt[w].user, day |-> attempt[w].day, rank |-> Achieved(w)]
  <2>1. /\ kphase[w] = "credit" /\ UNCHANGED <<hillRanks>> /\ EndAttempt(w)
        /\ Answer(RowFor(w), Achieved(w))
        /\ \/ paid' = paid \cup {c} /\ UNCHANGED faults
           \/ paid' \in {paid, paid \cup {c}} /\ Fault
    BY <1>4 DEF CreditRankUp
  <2>2. /\ RowFor(w) = <<attempt[w].user, attempt[w].day>> /\ RowFor(w) \in Climbers \X Days
        /\ Achieved(w) \in Int /\ Achieved(w) <= hillRanks[RowFor(w)].rank
    BY <2>1, RequestTypes, <1>r DEF RanksInv, AttemptOK
  <2>3. \A ud \in Climbers \X Days : told'[ud] <= hillRanks[ud].rank
    BY <2>1, <2>2, AnswerIsOnRecord
  <2>4. PaidOK(c)
    BY <2>2 DEF PaidOK
  <2>5. \A d \in paid' : PaidOK(d)'
    BY <2>1, <2>4, <1>p DEF PaidOK
  <2>6. faults' \in {faults, faults + 1} /\ paid \subseteq paid' /\ (faults' = 0 => c \in paid')
    BY <2>1 DEF Fault, RanksInv
  <2>7. \A v \in Workers : v # w => kphase'[v] = kphase[v] /\ attempt'[v] = attempt[v]
    BY <2>1 DEF EndAttempt, RanksInv, RanksTypeOK
  <2>8. ASSUME NEW ud \in Climbers \X Days, NEW v \in Workers, kphase[v] = "credit", RowFor(v) = ud
        PROVE  \/ kphase'[v] = "credit" /\ attempt'[v] = attempt[v]
               \/ faults' # 0
               \/ [user |-> ud[1], day |-> ud[2], rank |-> Achieved(v)] \in paid'
    <3>1. CASE v # w
      BY <3>1, <2>7, <2>8
    <3>2. CASE v = w
      <4>1. ud[1] = attempt[w].user /\ ud[2] = attempt[w].day
        BY <3>2, <2>2, <2>8
      <4> QED  BY <3>2, <4>1, <2>6
    <3> QED  BY <3>1, <3>2
  <2> HIDE DEF c
  <2>9. \A ud \in Climbers \X Days : RowOK(ud)'
    BY <2>1, <2>3, <2>6, <2>8, RowKept
  <2> QED  BY <2>1, <2>5, <2>9, EndedIsOK, <1>k
<1>5. ASSUME NEW w \in Workers, AbortAttempt(w)
      PROVE  RanksInv'
  <2>1. EndAttempt(w) /\ UNCHANGED <<hillRanks, paid, told>> /\ faults' = faults + 1 /\ faults' # 0
    BY <1>5 DEF AbortAttempt, Fault, RanksInv
  <2>2. \A ud \in Climbers \X Days : RowOK(ud)'
    BY <2>1, <1>t, RowKept
  <2> QED  BY <2>1, <2>2, EndedIsOK, <1>q, <1>k
<1>6. ASSUME NEW u \in Climbers, Me(u)
      PROVE  RanksInv'
  <2>1. /\ UNCHANGED <<hillRanks, kphase, attempt, paid, faults>>
        /\ Answer(<<u, today>>, hillRanks[<<u, today>>].rank)
        /\ <<u, today>> \in Climbers \X Days
    BY <1>6 DEF Me, RanksInv, RanksTypeOK
  <2>2. \A ud \in Climbers \X Days : told'[ud] <= hillRanks[ud].rank
    <3>1. hillRanks[<<u, today>>].rank \in Int
      BY <2>1, <1>h
    <3>2. hillRanks[<<u, today>>].rank <= hillRanks[<<u, today>>].rank
      BY <3>1
    <3> QED  BY <2>1, <3>1, <3>2, AnswerIsOnRecord
  <2>3. \A ud \in Climbers \X Days : RowOK(ud)'
    BY <2>1, <2>2, RowKept
  <2>4. \A w \in Workers : AttemptOK(w)'
    BY <2>1 DEF AttemptOK, Achieved, RowFor, RanksInv
  <2> QED  BY <2>1, <2>3, <2>4, <1>q, <1>k
<1>7. CASE Midnight \/ UNCHANGED <<ranksVars, faults>>
  <2>1. UNCHANGED <<hillRanks, kphase, attempt, paid, told, faults>>
    BY <1>7 DEF Midnight, ranksVars
  <2>2. \A ud \in Climbers \X Days : RowOK(ud)'
    BY <2>1, <1>t, RowKept
  <2>3. \A w \in Workers : AttemptOK(w)'
    BY <2>1 DEF AttemptOK, Achieved, RowFor, RanksInv
  <2> QED  BY <2>1, <2>2, <2>3, <1>q, <1>k
<1> QED  BY <1>1, <1>2, <1>3, <1>4, <1>5, <1>6, <1>7 DEF RanksNext

\* Any number of attempts of any number of players, over any number of midnights: the rank on
\* record is the best anybody was told of or paid for (SubmitAttempt and Me of rank_service.go).
THEOREM BestRankIsKept ==
  ASSUME RanksAssumption, RequestsAssumption
  PROVE  RanksSpec => []BestRankKept
<1>1. RanksInit /\ faults = 0 => RanksInv
  BY RanksInitInv
<1>2. RanksInv /\ [RanksNext]_<<ranksVars, faults>> => RanksInv'
  BY RanksStepInv
<1>3. RanksInv => BestRankKept
  BY DEF RanksInv
<1> QED  BY <1>1, <1>2, <1>3, PTL DEF RanksSpec

----------------------------------------------------------------------------
(* The life of a process *)

\* What the two properties need of the types.
AppTypes ==
  /\ app \in Apps
  /\ stage \in {"down", "open", "run", "closing"}
  /\ opened \in Nat /\ opened <= Len(Opens[app])
  /\ cancelled \in BOOLEAN
  /\ server \in {"none", "serving", "draining", "returned"}
  /\ ticker \in {"none", "ready", "broken", "running", "returned"}
  /\ handler \in [Workers -> {"none", "request", "socket", "leaving"}]
  /\ entries \subseteq Workers
  /\ excused \subseteq entries

\* Run is in one place at a time, with what it opened until then.
StageOK ==
  /\ stage \in {"down", "open"} => server = "none"
  /\ stage = "run" => opened = Len(Opens[app]) /\ server # "none"
  /\ stage = "closing" => server \in {"none", "returned"}
  /\ ticker = "running" => stage = "run"
  /\ ticker \in {"ready", "running"} => app \in Tickers
  /\ app = "koth" /\ server = "returned" /\ ticker = "running" => cancelled

\* Only a service with websockets has entries, and what is left without a client is excused.
EntriesOK ==
  /\ app \notin Sockets => entries = {} /\ \A w \in Workers : handler[w] \in {"none", "request"}
  /\ app \in Sockets => \A w \in Workers : handler[w] # "request"
  /\ opened = 0 => excused = entries

AppInv == AppTypes /\ StageOK /\ EntriesOK /\ NoGhostWhileServing

LEMMA OpensTypes ==
  ASSUME NEW a \in Apps
  PROVE  /\ Len(Opens[a]) \in Nat
         /\ a \in Sockets => Opens[a] = <<"redis">> /\ Len(Opens[a]) = 1
<1>1. Apps = {"auth", "health", "koth", "matchmaking", "media", "ratings", "reports", "signaling", "store"}
  BY DEF Apps, Settings
<1> QED
  BY <1>1 DEF Opens, Sockets, AuthOpens, HealthOpens, KothOpens, MatchmakingOpens, MediaOpens,
     RatingsOpens, ReportsOpens, SignalingOpens, StoreOpens

LEMMA AppInitInv ==
  ASSUME AppInit
  PROVE  AppInv
<1>0. app \in Apps /\ 0 <= Len(Opens[app])
  BY OpensTypes DEF AppInit
<1>1. AppTypes
  BY <1>0 DEF AppInit, AppTypes
<1>2. StageOK /\ EntriesOK /\ NoGhostWhileServing
  BY DEF AppInit, StageOK, EntriesOK, NoGhostWhileServing
<1> QED  BY <1>1, <1>2 DEF AppInv

\* Steps that touch neither the entries nor who serves them.
LEMMA EntriesKept ==
  ASSUME AppInv, app' = app, UNCHANGED <<handler, entries, excused>>,
         opened' = 0 => opened = 0
  PROVE  EntriesOK' /\ NoGhostWhileServing'
BY DEF AppInv, EntriesOK, NoGhostWhileServing

\* Steps that touch neither Run nor its workers.
LEMMA StageKept ==
  ASSUME AppInv, UNCHANGED <<app, stage, opened, cancelled, server, ticker>>
  PROVE  StageOK'
BY DEF AppInv, StageOK

\* The process dies: what is left in Redis is excused.
LEMMA DiesInv ==
  ASSUME AppInv, Dies
  PROVE  AppInv'
<1>0. app' = app /\ app \in Apps /\ 0 <= Len(Opens[app])
  BY OpensTypes DEF AppInv, AppTypes, Dies
<1>1. AppTypes'
  BY <1>0 DEF AppInv, AppTypes, Dies
<1>2. StageOK'
  BY DEF Dies, StageOK
<1>3. EntriesOK' /\ NoGhostWhileServing'
  BY DEF AppInv, AppTypes, EntriesOK, NoGhostWhileServing, Dies
<1> QED  BY <1>1, <1>2, <1>3 DEF AppInv

\* Start and end of the process and of its workers.
LEMMA AppRunInv ==
  ASSUME AppInv, StartWorkers \/ OpenDependency \/ Signal \/ ListenFails \/ BeginShutdown
                 \/ ShutdownReturns \/ TickerStops \/ RunReturns \/ CloseClient
  PROVE  AppInv'
<1>l. app \in Apps /\ Len(Opens[app]) \in Nat
  BY OpensTypes DEF AppInv, AppTypes
<1>1. CASE OpenDependency
  <2>1. /\ stage = "open" /\ opened < Len(Opens[app])
        /\ \/ opened' = opened + 1 /\ stage' = stage
           \/ opened' = opened /\ stage' = "closing"
        /\ UNCHANGED <<app, cancelled, server, ticker, handler, entries, excused>>
    BY <1>1 DEF OpenDependency
  <2>2. AppTypes'
    BY <2>1, <1>l DEF AppInv, AppTypes
  <2>3. StageOK'
    BY <2>1 DEF AppInv, StageOK
  <2>4. EntriesOK' /\ NoGhostWhileServing'
    BY <2>1, EntriesKept DEF AppInv, AppTypes
  <2> QED  BY <2>2, <2>3, <2>4 DEF AppInv
<1>2. CASE StartWorkers
  <2>1. /\ stage = "open" /\ opened = Len(Opens[app]) /\ stage' = "run" /\ server' = "serving"
        /\ ticker' = IF ticker = "ready" THEN "running" ELSE ticker
        /\ UNCHANGED <<app, opened, cancelled, handler, entries, excused>>
    BY <1>2 DEF StartWorkers
  <2>2. AppTypes'
    BY <2>1 DEF AppInv, AppTypes
  <2>3. StageOK'
    BY <2>1 DEF AppInv, StageOK
  <2> QED  BY <2>1, <2>2, <2>3, EntriesKept DEF AppInv
<1>3. CASE Signal
  <2>1. /\ cancelled' = TRUE
        /\ UNCHANGED <<app, stage, opened, server, ticker, handler, entries, excused>>
    BY <1>3 DEF Signal
  <2>2. AppTypes' /\ StageOK'
    BY <2>1 DEF AppInv, AppTypes, StageOK
  <2> QED  BY <2>1, <2>2, EntriesKept DEF AppInv
<1>w. WorkerReturns => /\ cancelled' \in BOOLEAN
                       /\ cancelled => cancelled'
                       /\ app = "koth" => cancelled'
  BY DEF AppInv, AppTypes, WorkerReturns, CancelsOthers
<1>4. CASE ListenFails \/ ShutdownReturns
  <2>1. /\ server \in {"serving", "draining"} /\ server' = "returned" /\ WorkerReturns
        /\ UNCHANGED <<app, stage, opened, ticker, handler, entries, excused>>
    BY <1>4 DEF ListenFails, ShutdownReturns
  <2>2. AppTypes' /\ StageOK'
    BY <2>1, <1>w DEF AppInv, AppTypes, StageOK
  <2> QED  BY <2>1, <2>2, EntriesKept DEF AppInv
<1>5. CASE BeginShutdown
  <2>1. /\ server = "serving" /\ server' = "draining"
        /\ UNCHANGED <<app, stage, opened, cancelled, ticker, handler, entries, excused>>
    BY <1>5 DEF BeginShutdown
  <2>2. AppTypes' /\ StageOK'
    BY <2>1 DEF AppInv, AppTypes, StageOK
  <2> QED  BY <2>1, <2>2, EntriesKept DEF AppInv
<1>6. CASE TickerStops
  <2>1. /\ ticker = "running" /\ ticker' = "returned" /\ WorkerReturns
        /\ UNCHANGED <<app, stage, opened, server, handler, entries, excused>>
    BY <1>6 DEF TickerStops
  <2>2. AppTypes' /\ StageOK'
    BY <2>1, <1>w DEF AppInv, AppTypes, StageOK
  <2> QED  BY <2>1, <2>2, EntriesKept DEF AppInv
<1>7. CASE RunReturns
  <2>1. /\ stage = "run" /\ server = "returned" /\ ticker \in {"none", "returned"} /\ stage' = "closing"
        /\ UNCHANGED <<app, opened, cancelled, server, ticker, handler, entries, excused>>
    BY <1>7 DEF RunReturns
  <2>2. AppTypes' /\ StageOK'
    BY <2>1 DEF AppInv, AppTypes, StageOK
  <2> QED  BY <2>1, <2>2, EntriesKept DEF AppInv
<1>8. CASE CloseClient
  <2>1. /\ stage = "closing" /\ opened > 0 /\ opened' = opened - 1
        /\ excused' = IF Opens[app][opened] = "redis" THEN entries ELSE excused
        /\ UNCHANGED <<app, stage, cancelled, server, ticker, handler, entries>>
    BY <1>8 DEF CloseClient
  <2>2. AppTypes'
    BY <2>1, <1>l DEF AppInv, AppTypes
  <2>3. StageOK'
    BY <2>1 DEF AppInv, StageOK
  <2>4. app \in Sockets => excused' = entries
    <3> SUFFICES ASSUME app \in Sockets  PROVE Opens[app][opened] = "redis"
      BY <2>1
    <3>1. Opens[app] = <<"redis">> /\ opened \in Nat /\ opened <= 1
      BY <1>l, OpensTypes DEF AppInv, AppTypes
    <3>2. opened = 1
      BY <3>1, <2>1
    <3> QED  BY <3>1, <3>2
  <2>5. app \notin Sockets => excused' = {} /\ entries = {}
    BY <2>1 DEF AppInv, AppTypes, EntriesOK
  <2>6. EntriesOK'
    BY <2>1, <2>4, <2>5 DEF AppInv, EntriesOK
  <2>7. NoGhostWhileServing'
    BY <2>1, <2>4, <2>5 DEF NoGhostWhileServing
  <2> QED  BY <2>2, <2>3, <2>6, <2>7 DEF AppInv
<1> QED  BY <1>1, <1>2, <1>3, <1>4, <1>5, <1>6, <1>7, <1>8

\* Requests and websockets.
LEMMA AppSocketInv ==
  ASSUME AppInv, NEW w \in Workers, NEW v \in Workers,
         \/ Accept(w) \/ Respond(w) \/ Enter(w) \/ ReadFailed(w) \/ LeaveQueue(w)
         \/ ExpireRoom(w) \/ Pair(v, w)
  PROVE  AppInv'
<1> USE DEF AppInv
<1>k. UNCHANGED <<app, stage, opened, cancelled, server, ticker>>
  BY DEF Accept, Respond, Enter, ReadFailed, LeaveQueue, ExpireRoom, Pair
<1>s. StageOK'
  BY <1>k, StageKept
<1>1. CASE Accept(w)
  <2>1. /\ handler[w] = "none"
        /\ handler' = [handler EXCEPT ![w] = IF app \in Sockets THEN "socket" ELSE "request"]
        /\ UNCHANGED <<entries, excused>>
    BY <1>1 DEF Accept
  <2>2. AppTypes'
    BY <2>1, <1>k DEF AppTypes
  <2>3. EntriesOK' /\ NoGhostWhileServing'
    BY <2>1, <1>k DEF AppTypes, EntriesOK, NoGhostWhileServing
  <2> QED  BY <1>s, <2>2, <2>3
<1>2. CASE Respond(w)
  <2>1. handler[w] = "request" /\ handler' = [handler EXCEPT ![w] = "none"] /\ UNCHANGED <<entries, excused>>
    BY <1>2 DEF Respond
  <2>2. AppTypes'
    BY <2>1, <1>k DEF AppTypes
  <2>3. EntriesOK' /\ NoGhostWhileServing'
    BY <2>1, <1>k DEF AppTypes, EntriesOK, NoGhostWhileServing
  <2> QED  BY <1>s, <2>2, <2>3
<1>3. CASE Enter(w)
  <2>1. /\ handler[w] = "socket" /\ opened > 0
        /\ entries' = entries \cup {w} /\ excused' = excused \ {w} /\ handler' = handler
    BY <1>3 DEF Enter
  <2>2. AppTypes'
    BY <2>1, <1>k DEF AppTypes
  <2>3. EntriesOK' /\ NoGhostWhileServing'
    BY <2>1, <1>k DEF AppTypes, EntriesOK, NoGhostWhileServing
  <2> QED  BY <1>s, <2>2, <2>3
<1>4. CASE ReadFailed(w)
  <2>1. handler[w] = "socket" /\ handler' = [handler EXCEPT ![w] = "leaving"] /\ UNCHANGED <<entries, excused>>
    BY <1>4 DEF ReadFailed
  <2>2. AppTypes'
    BY <2>1, <1>k DEF AppTypes
  <2>3. EntriesOK' /\ NoGhostWhileServing'
    BY <2>1, <1>k DEF AppTypes, EntriesOK, NoGhostWhileServing
  <2> QED  BY <1>s, <2>2, <2>3
<1>5. CASE LeaveQueue(w)
  <2>1. /\ handler[w] = "leaving" /\ handler' = [handler EXCEPT ![w] = "none"]
        /\ \/ entries' = entries \ {w} /\ excused' = excused \ {w}
           \/ opened = 0 /\ entries' = entries /\ excused' = excused
           \/ opened > 0 /\ excused' = excused \cup (entries \cap {w}) /\ entries' = entries
    BY <1>5 DEF LeaveQueue, LeaveWorks, AppTypes
  <2>2. AppTypes'
    BY <2>1, <1>k DEF AppTypes
  <2>3. EntriesOK'
    BY <2>1, <1>k DEF AppTypes, EntriesOK
  <2>4. NoGhostWhileServing'
    BY <2>1, <1>k DEF AppTypes, EntriesOK, NoGhostWhileServing
  <2> QED  BY <1>s, <2>2, <2>3, <2>4
<1>6. CASE ExpireRoom(w) \/ Pair(v, w)
  <2>1. /\ \E S : entries' = entries \ S /\ excused' = excused \ S
        /\ handler' = handler
    BY <1>6 DEF ExpireRoom, Pair
  <2>2. AppTypes'
    BY <2>1, <1>k DEF AppTypes
  <2>3. EntriesOK' /\ NoGhostWhileServing'
    BY <2>1, <1>k DEF AppTypes, EntriesOK, NoGhostWhileServing
  <2> QED  BY <1>s, <2>2, <2>3
<1> QED  BY <1>1, <1>2, <1>3, <1>4, <1>5, <1>6

LEMMA AppStepInv ==
  ASSUME AppInv, [AppNext]_<<appVars, faults>>
  PROVE  AppInv'
<1>1. ASSUME NEW source \in Sources, NEW odd \in DOMAIN Settings[app], NEW raw \in Raws,
             LoadConfig(source, odd, raw)
      PROVE  AppInv'
  <2>1. /\ stage = "down" /\ stage' \in {"down", "open"}
        /\ \/ ticker' = ticker
           \/ ticker' \in {"none", "ready", "broken"} /\ (ticker' = "ready" => app \in Tickers)
        /\ UNCHANGED <<app, opened, cancelled, server, handler, entries, excused>>
    BY <1>1 DEF LoadConfig
  <2>2. AppTypes' /\ StageOK'
    BY <2>1 DEF AppInv, AppTypes, StageOK
  <2> QED  BY <2>1, <2>2, EntriesKept DEF AppInv
<1>2. ASSUME UNCHANGED <<appVars, faults>>
      PROVE  AppInv'
  BY <1>2 DEF appVars, AppInv, AppTypes, StageOK, EntriesOK, NoGhostWhileServing
<1>3. ASSUME Exit \/ TickerPanics \/ Kill
      PROVE  AppInv'
  BY <1>3, DiesInv DEF Exit, TickerPanics, Kill
<1> QED  BY <1>1, <1>2, <1>3, AppRunInv, AppSocketInv DEF AppNext

\* Any service, any number of goroutines, faults and restarts: workers run on open clients, and
\* one that returned has told the others, in every service but matchmaking (runWorkers).
THEOREM ShutdownIsAlwaysOrderly == AppSpec => []ShutdownIsOrderly
<1>1. AppInit /\ faults = 0 => AppInv
  BY AppInitInv
<1>2. AppInv /\ [AppNext]_<<appVars, faults>> => AppInv'
  BY AppStepInv
<1>3. AppInv => ShutdownIsOrderly
  BY DEF AppInv, AppTypes, StageOK, ShutdownIsOrderly, Tickers
<1> QED  BY <1>1, <1>2, <1>3, PTL DEF AppSpec

\* And nobody is left in the queue or in a room whom no goroutine serves, while Redis answers
\* (leaveWithFreshCtx and leaveOnDisconnect).
THEOREM NobodyIsLeftBehind == AppSpec => []NoGhostWhileServing
<1>1. AppInit /\ faults = 0 => AppInv
  BY AppInitInv
<1>2. AppInv /\ [AppNext]_<<appVars, faults>> => AppInv'
  BY AppStepInv
<1>3. AppInv => NoGhostWhileServing
  BY DEF AppInv
<1> QED  BY <1>1, <1>2, <1>3, PTL DEF AppSpec

----------------------------------------------------------------------------
(* Accounts and sessions *)

GoogleAccount == [sub : STRING, email : STRING]

\* The user with this id is the one of the account the code was issued for.
IsOwner(id, code) == id \in DOMAIN userRows /\ userRows[id].sub = GoogleUser[code].sub

AccountsTypes ==
  /\ userRows \in Seq(GoogleAccount)
  /\ sessions \in [1..MaxSessions -> Nat \cup {None}]
  /\ granted \in Seq(Codes) /\ Len(granted) <= MaxSessions
  /\ aphase \in [Workers -> {"idle", "upsert", "create"}]
  /\ login \in [Workers -> [code : Codes \cup {None}, id : Nat]]

OneUserPerAccount == \A i, j \in DOMAIN userRows : userRows[i].sub = userRows[j].sub => i = j

LoginOK(w) ==
  /\ aphase[w] # "idle" => login[w].code \in Codes
  /\ aphase[w] = "create" => IsOwner(login[w].id, login[w].code)

SessionsOK ==
  /\ \A s \in DOMAIN granted : sessions[s] # None => IsOwner(sessions[s], granted[s])
  /\ \A s \in 1..MaxSessions : s > Len(granted) => sessions[s] = None

AccountsInv ==
  /\ AccountsTypes
  /\ OneUserPerAccount
  /\ \A w \in Workers : LoginOK(w)
  /\ SessionsOK
  /\ consents \subseteq DOMAIN userRows

\* An upsert keeps every user and the account of each, and gives the new one a single user.
LEMMA UpsertKeepsUsers ==
  ASSUME AccountsInv, NEW g \in GoogleAccount
  PROVE  /\ WithAccount(g) \in Seq(GoogleAccount)
         /\ DOMAIN userRows \subseteq DOMAIN WithAccount(g)
         /\ \A i \in DOMAIN userRows : WithAccount(g)[i].sub = userRows[i].sub
         /\ \A i, j \in DOMAIN WithAccount(g) : WithAccount(g)[i].sub = WithAccount(g)[j].sub => i = j
<1> USE DEF AccountsInv, AccountsTypes, OneUserPerAccount
<1>1. CASE \E i \in DOMAIN userRows : userRows[i].sub = g.sub
  <2> DEFINE rows == [i \in DOMAIN userRows |-> IF userRows[i].sub = g.sub THEN g ELSE userRows[i]]
  <2>1. WithAccount(g) = rows
    BY <1>1 DEF WithAccount
  <2>2. Len(userRows) \in Nat /\ DOMAIN userRows = 1..Len(userRows)
    BY DEF AccountsTypes
  <2>3. \A i \in DOMAIN userRows : userRows[i] \in GoogleAccount
    BY <2>2
  <2>4. rows \in [1..Len(userRows) -> GoogleAccount]
    BY <2>2, <2>3
  <2>5. rows \in Seq(GoogleAccount)
    BY <2>2, <2>4
  <2>6. \A i \in DOMAIN userRows : rows[i].sub = userRows[i].sub
    OBVIOUS
  <2>7. DOMAIN rows = DOMAIN userRows
    OBVIOUS
  <2> HIDE DEF rows
  <2> QED  BY <2>1, <2>5, <2>6, <2>7
<1>2. CASE ~\E i \in DOMAIN userRows : userRows[i].sub = g.sub
  <2>1. WithAccount(g) = Append(userRows, g)
    BY <1>2 DEF WithAccount
  <2>2. /\ Append(userRows, g) \in Seq(GoogleAccount)
        /\ DOMAIN Append(userRows, g) = 1..(Len(userRows) + 1)
        /\ DOMAIN userRows = 1..Len(userRows) /\ Len(userRows) \in Nat
        /\ \A i \in DOMAIN userRows : Append(userRows, g)[i] = userRows[i]
        /\ Append(userRows, g)[Len(userRows) + 1] = g
    OBVIOUS
  <2> QED  BY <1>2, <2>1, <2>2
<1> QED  BY <1>1, <1>2

\* What the properties need goes over when users are only added.
LEMMA OwnersKept ==
  ASSUME AccountsInv, DOMAIN userRows \subseteq DOMAIN userRows',
         \A i \in DOMAIN userRows : userRows'[i].sub = userRows[i].sub,
         NEW id, NEW code, IsOwner(id, code)
  PROVE  IsOwner(id, code)'
BY DEF IsOwner

LEMMA LoginEnds ==
  ASSUME AccountsAssumption, AccountsInv, NEW w \in Workers, EndLogin(w),
         DOMAIN userRows \subseteq DOMAIN userRows',
         \A i \in DOMAIN userRows : userRows'[i].sub = userRows[i].sub
  PROVE  /\ aphase' \in [Workers -> {"idle", "upsert", "create"}]
         /\ login' \in [Workers -> [code : Codes \cup {None}, id : Nat]]
         /\ \A v \in Workers : LoginOK(v)'
<1>1. /\ aphase' \in [Workers -> {"idle", "upsert", "create"}]
      /\ login' \in [Workers -> [code : Codes \cup {None}, id : Nat]]
  BY DEF AccountsInv, AccountsTypes, EndLogin, NoLogin
<1>2. aphase'[w] = "idle"
  BY DEF AccountsInv, AccountsTypes, EndLogin
<1>3. \A v \in Workers : v # w => aphase'[v] = aphase[v] /\ login'[v] = login[v]
  BY DEF AccountsInv, AccountsTypes, EndLogin
<1>4. ASSUME NEW v \in Workers, v # w
      PROVE  LoginOK(v)'
  BY <1>3, <1>4, OwnersKept DEF AccountsInv, LoginOK
<1> QED  BY <1>1, <1>2, <1>4 DEF LoginOK

LEMMA AccountsStepInv ==
  ASSUME AccountsAssumption, AccountsInv, [AccountsNext]_<<accountsVars, faults>>
  PROVE  AccountsInv'
<1>t. AccountsTypes /\ OneUserPerAccount /\ SessionsOK /\ consents \subseteq DOMAIN userRows
  BY DEF AccountsInv
<1>1. ASSUME NEW w \in Workers, NEW code \in Codes, ExchangeCode(w, code)
      PROVE  AccountsInv'
  <2>1. UNCHANGED <<userRows, consents, sessions, granted>>
    BY <1>1 DEF ExchangeCode
  <2>2. CASE aphase' = [aphase EXCEPT ![w] = "upsert"] /\ login' = [login EXCEPT ![w].code = code]
    <3>1. /\ aphase' \in [Workers -> {"idle", "upsert", "create"}]
          /\ login' \in [Workers -> [code : Codes \cup {None}, id : Nat]]
          /\ aphase'[w] = "upsert" /\ login'[w].code = code
      <4>1. login \in [Workers -> [code : Codes \cup {None}, id : Nat]]
            /\ aphase \in [Workers -> {"idle", "upsert", "create"}]
        BY <1>t DEF AccountsTypes
      <4>2. [login[w] EXCEPT !.code = code] = [code |-> code, id |-> login[w].id]
        BY <4>1
      <4>3. login' = [login EXCEPT ![w] = [code |-> code, id |-> login[w].id]]
        BY <2>2, <4>2
      <4>4. [code |-> code, id |-> login[w].id] \in [code : Codes \cup {None}, id : Nat]
        BY <4>1
      <4> QED  BY <2>2, <4>1, <4>3, <4>4
    <3>2. \A v \in Workers : v # w => aphase'[v] = aphase[v] /\ login'[v] = login[v]
      BY <2>2, <1>t DEF AccountsTypes
    <3>3. \A v \in Workers : LoginOK(v)'
      BY <2>1, <3>1, <3>2 DEF AccountsInv, LoginOK, IsOwner
    <3> QED
      BY <2>1, <3>1, <3>3, <1>t DEF AccountsInv, AccountsTypes, OneUserPerAccount, SessionsOK, IsOwner
  <2>3. CASE UNCHANGED <<aphase, login>>
    BY <2>1, <2>3
    DEF AccountsInv, AccountsTypes, OneUserPerAccount, SessionsOK, IsOwner, LoginOK
  <2> QED  BY <1>1, <2>2, <2>3 DEF ExchangeCode
<1>2. ASSUME NEW w \in Workers, UpsertByGoogleSub(w)
      PROVE  AccountsInv'
  <2>1. PICK g : g = GoogleUser[login[w].code]
    OBVIOUS
  <2>2. aphase[w] = "upsert" /\ login[w].code \in Codes /\ g \in GoogleAccount
    BY <1>2, <2>1 DEF UpsertByGoogleSub, AccountsInv, LoginOK, AccountsAssumption, GoogleAccount
  <2>3. UNCHANGED <<consents, sessions, granted>> /\ userRows' \in {userRows, WithAccount(g)}
    BY <1>2, <2>1 DEF UpsertByGoogleSub
  <2>4. /\ userRows' \in Seq(GoogleAccount)
        /\ DOMAIN userRows \subseteq DOMAIN userRows'
        /\ \A i \in DOMAIN userRows : userRows'[i].sub = userRows[i].sub
        /\ OneUserPerAccount'
    <3>1. CASE userRows' = userRows
      BY <3>1, <1>t DEF OneUserPerAccount, AccountsTypes
    <3>2. CASE userRows' = WithAccount(g)
      BY <3>2, <2>2, UpsertKeepsUsers DEF OneUserPerAccount
    <3> QED  BY <2>3, <3>1, <3>2
  <2>5. SessionsOK' /\ consents' \subseteq DOMAIN userRows'
    BY <2>3, <2>4, <1>t DEF SessionsOK, IsOwner
  <2>6. CASE Fault /\ EndLogin(w)
    BY <2>3, <2>4, <2>5, <2>6, <1>t, LoginEnds DEF AccountsInv, AccountsTypes
  <2>7. CASE /\ userRows' = WithAccount(g)
             /\ \E i \in DOMAIN WithAccount(g) : WithAccount(g)[i] = g /\ login' = [login EXCEPT ![w].id = i]
             /\ aphase' = [aphase EXCEPT ![w] = "create"]
    <3>1. PICK i \in DOMAIN userRows' : userRows'[i] = g /\ login' = [login EXCEPT ![w].id = i]
      BY <2>7
    <3>2. i \in Nat
      BY <2>4
    <3>3. /\ aphase' \in [Workers -> {"idle", "upsert", "create"}]
          /\ login' \in [Workers -> [code : Codes \cup {None}, id : Nat]]
          /\ login'[w].id = i /\ login'[w].code = login[w].code
      <4>1. login \in [Workers -> [code : Codes \cup {None}, id : Nat]]
            /\ aphase \in [Workers -> {"idle", "upsert", "create"}]
        BY <1>t DEF AccountsTypes
      <4>2. [login[w] EXCEPT !.id = i] = [code |-> login[w].code, id |-> i]
        BY <4>1
      <4>3. login' = [login EXCEPT ![w] = [code |-> login[w].code, id |-> i]]
        BY <3>1, <4>2
      <4>4. [code |-> login[w].code, id |-> i] \in [code : Codes \cup {None}, id : Nat]
        BY <4>1, <3>2
      <4> QED  BY <2>7, <4>1, <4>3, <4>4
    <3>4. \A v \in Workers : v # w => aphase'[v] = aphase[v] /\ login'[v] = login[v]
      BY <2>7, <3>1, <1>t DEF AccountsTypes
    <3>5. LoginOK(w)'
      BY <2>1, <2>2, <3>1, <3>3 DEF LoginOK, IsOwner
    <3>6. ASSUME NEW v \in Workers, v # w
          PROVE  LoginOK(v)'
      BY <2>4, <3>4, <3>6, OwnersKept DEF AccountsInv, LoginOK
    <3> QED  BY <2>3, <2>4, <2>5, <3>3, <3>5, <3>6, <1>t DEF AccountsInv, AccountsTypes
  <2> QED  BY <1>2, <2>1, <2>6, <2>7 DEF UpsertByGoogleSub
<1>3. ASSUME NEW w \in Workers, CreateSession(w)
      PROVE  AccountsInv'
  <2>1. /\ aphase[w] = "create" /\ Len(granted) < MaxSessions /\ EndLogin(w)
        /\ UNCHANGED <<userRows, consents>>
    BY <1>3 DEF CreateSession
  <2>2. CASE UNCHANGED <<granted, sessions>>
    BY <2>1, <2>2, <1>t, LoginEnds
    DEF AccountsInv, AccountsTypes, OneUserPerAccount, SessionsOK, IsOwner
  <2>3. CASE /\ granted' = Append(granted, login[w].code)
             /\ sessions' = [sessions EXCEPT ![Len(granted) + 1] = login[w].id]
    <3>1. PICK n \in Nat : n = Len(granted)
      BY <1>t DEF AccountsTypes
    <3>2. login[w].code \in Codes /\ login[w].id \in Nat /\ IsOwner(login[w].id, login[w].code)
      BY <2>1, <1>t DEF AccountsInv, AccountsTypes, LoginOK
    <3>3. /\ granted' \in Seq(Codes) /\ Len(granted') = n + 1 /\ DOMAIN granted' = 1..(n + 1)
          /\ DOMAIN granted = 1..n /\ granted'[n + 1] = login[w].code
          /\ \A s \in 1..n : granted'[s] = granted[s]
      BY <2>3, <3>1, <3>2, <1>t DEF AccountsTypes
    <3>4. n + 1 \in 1..MaxSessions
      BY <2>1, <3>1 DEF AccountsAssumption
    <3>5. /\ sessions' \in [1..MaxSessions -> Nat \cup {None}]
          /\ sessions'[n + 1] = login[w].id
          /\ \A s \in 1..MaxSessions : s # n + 1 => sessions'[s] = sessions[s]
      BY <2>3, <3>1, <3>2, <3>4, <1>t DEF AccountsTypes
    <3>6. \A s \in DOMAIN granted' : sessions'[s] # None => IsOwner(sessions'[s], granted'[s])
      <4> SUFFICES ASSUME NEW s \in 1..(n + 1), sessions'[s] # None
                   PROVE  IsOwner(sessions'[s], granted'[s])
        BY <3>3
      <4>1. CASE s = n + 1
        BY <4>1, <3>2, <3>3, <3>5, <2>1 DEF IsOwner
      <4>2. CASE s # n + 1
        <5>1. s \in 1..n /\ s \in 1..MaxSessions
          BY <4>2, <3>4
        <5>2. sessions'[s] = sessions[s] /\ granted'[s] = granted[s] /\ IsOwner(sessions[s], granted[s])
          BY <5>1, <4>2, <3>3, <3>5, <1>t DEF SessionsOK
        <5> QED  BY <5>2, <2>1 DEF IsOwner
      <4> QED  BY <4>1, <4>2
    <3>7. \A s \in 1..MaxSessions : s > n + 1 => sessions'[s] = None
      BY <3>1, <3>5, <1>t DEF SessionsOK
    <3>8. SessionsOK'
      BY <2>1, <3>3, <3>6, <3>7 DEF SessionsOK, IsOwner
    <3>9. AccountsTypes' /\ \A v \in Workers : LoginOK(v)'
      BY <2>1, <3>3, <3>4, <3>5, <1>t, LoginEnds DEF AccountsTypes, AccountsAssumption
    <3> QED  BY <2>1, <3>8, <3>9, <1>t DEF AccountsInv, OneUserPerAccount
  <2> QED  BY <1>3, <2>2, <2>3 DEF CreateSession
<1>4. ASSUME NEW s \in 1..MaxSessions, SessionEnds(s)
      PROVE  AccountsInv'
  <2>1. /\ sessions' = [sessions EXCEPT ![s] = None]
        /\ UNCHANGED <<userRows, consents, granted, aphase, login>>
    BY <1>4 DEF SessionEnds
  <2>2. AccountsTypes'
    BY <2>1, <1>t DEF AccountsTypes
  <2>3. \A x \in 1..MaxSessions : sessions'[x] \in {sessions[x], None}
    BY <2>1, <1>t DEF AccountsTypes
  <2>4. DOMAIN granted \subseteq 1..MaxSessions
    BY <1>t DEF AccountsTypes, AccountsAssumption
  <2>5. SessionsOK'
    BY <2>1, <2>3, <2>4, <1>t DEF SessionsOK, IsOwner
  <2>6. \A w \in Workers : LoginOK(w)'
    BY <2>1 DEF AccountsInv, LoginOK, IsOwner
  <2> QED  BY <2>1, <2>2, <2>5, <2>6, <1>t DEF AccountsInv, OneUserPerAccount
<1>5. ASSUME NEW s \in 1..MaxSessions, SubmitConsent(s)
      PROVE  AccountsInv'
  <2>1. /\ Authenticate(s) # None /\ consents' = consents \cup {SessionUser(s)}
        /\ UNCHANGED <<userRows, sessions, granted, aphase, login>>
    BY <1>5 DEF SubmitConsent, RequireAuth
  <2>2. SessionUser(s) \in DOMAIN userRows
    BY <2>1 DEF Authenticate, GetByID
  <2>3. \A w \in Workers : LoginOK(w)'
    BY <2>1 DEF AccountsInv, LoginOK, IsOwner
  <2> QED
    BY <2>1, <2>2, <2>3, <1>t DEF AccountsInv, AccountsTypes, OneUserPerAccount, SessionsOK, IsOwner
<1>6. ASSUME NEW w \in Workers, AbortLogin(w)
      PROVE  AccountsInv'
  BY <1>6, <1>t, LoginEnds
  DEF AbortLogin, AccountsInv, AccountsTypes, OneUserPerAccount, SessionsOK, IsOwner
<1>7. CASE UNCHANGED <<accountsVars, faults>>
  BY <1>7
  DEF accountsVars, AccountsInv, AccountsTypes, OneUserPerAccount, SessionsOK, IsOwner, LoginOK
<1> QED  BY <1>1, <1>2, <1>3, <1>4, <1>5, <1>6, <1>7 DEF AccountsNext

\* Any number of logins of any accounts at a time, whatever their emails were: one user for each
\* account, and a cookie stands for the account whose login set it.
THEOREM SessionIsAlwaysOwners ==
  ASSUME AccountsAssumption
  PROVE  AccountsSpec => []SessionIsOwners
<1>1. AccountsInit => AccountsInv
  BY DEF AccountsInit, AccountsInv, AccountsTypes, OneUserPerAccount, LoginOK, SessionsOK, NoLogin,
     AccountsAssumption
<1>2. AccountsInv /\ [AccountsNext]_<<accountsVars, faults>> => AccountsInv'
  BY AccountsStepInv
<1>3. AccountsInv => SessionIsOwners
  <2> SUFFICES ASSUME AccountsInv  PROVE SessionIsOwners
    OBVIOUS
  <2>1. \A i \in DOMAIN userRows : userRows[i] \in GoogleAccount
    BY DEF AccountsInv, AccountsTypes
  <2>2. ASSUME NEW s \in DOMAIN granted, sessions[s] # None
        PROVE  Authenticate(s) # None /\ Authenticate(s).sub = GoogleUser[granted[s]].sub
    <3>1. IsOwner(sessions[s], granted[s])
      BY <2>2 DEF AccountsInv, SessionsOK
    <3>2. Authenticate(s) = userRows[sessions[s]] /\ sessions[s] \in DOMAIN userRows
      BY <3>1 DEF IsOwner, Authenticate, SessionUser, GetByID
    <3>3. Authenticate(s) # None
      BY <3>2, <2>1 DEF AccountsAssumption, GoogleAccount
    <3> QED  BY <3>1, <3>2, <3>3 DEF IsOwner
  <2> QED  BY <2>2 DEF SessionIsOwners, AccountsInv, OneUserPerAccount
<1> QED  BY <1>1, <1>2, <1>3, PTL DEF AccountsSpec

----------------------------------------------------------------------------
(* The configuration of a process *)

\* What a setting of kind s becomes, or the error that ends the process.
Becomes(s, source, raw) == IF s[source][raw] \in Refused[s.need] THEN "error" ELSE s[source][raw]

\* It is one of the outcomes, and when it was left out or no number, not a zero and not nothing.
Sound(s) == \A source \in Sources, raw \in Raws : Becomes(s, source, raw) \in Outcomes
Firm(s) ==
  \A source \in Sources, raw \in {"unset", "malformed"} :
    Becomes(s, source, raw) \in {"error", "default", "good", "shorter"}

LEMMA RefusedBy ==
  /\ Refused["any"] = {} /\ Refused["given"] = {"empty"} /\ Refused["nonzero"] = {"zero"}
  /\ Refused["positive"] = {"zero", "negative"}
  /\ Refused["belowPvP"] = {"zero", "negative", "excessive"}
  /\ Refused["ascending"] = {"empty", "excessive"}
BY DEF Refused

\* A setting is sound and firm when what was written for it is, in either place.
LEMMA SettingIs ==
  ASSUME NEW env, NEW file, NEW need
  PROVE  /\ Setting(env, file, need).need = need
         /\ Setting(env, file, need)["env"] = env
         /\ Setting(env, file, need)["file"] = file
BY DEF Setting

LEMMA KindsOfTexts ==
  /\ Sound(Required) /\ Firm(Required) /\ Sound(Defaulted) /\ Firm(Defaulted)
  /\ Sound(Optional) /\ Sound(FileOnly) /\ Firm(FileOnly)
<1> USE RefusedBy, SettingIs DEF Sound, Firm, Becomes, Text, Sources, Raws, Outcomes
<1>1. Sound(Required) /\ Firm(Required)
  BY DEF Required
<1>2. Sound(Defaulted) /\ Firm(Defaulted)
  BY DEF Defaulted
<1>3. Sound(Optional)
  BY DEF Optional
<1>4. Sound(FileOnly) /\ Firm(FileOnly)
  BY DEF FileOnly
<1> QED BY <1>1, <1>2, <1>3, <1>4

LEMMA NumberIs ==
  ASSUME NEW unset, NEW malformed, NEW zero
  PROVE  /\ Number(unset, malformed, zero)["unset"] = unset
         /\ Number(unset, malformed, zero)["malformed"] = malformed
         /\ Number(unset, malformed, zero)["zero"] = zero
         /\ \A r \in {"negative", "excessive", "good"} : Number(unset, malformed, zero)[r] = r
BY DEF Number, Raws

\* Of a number, what it becomes when it is left out, is no number or is zero decides.
LEMMA NumberSetting ==
  ASSUME NEW s, NEW e1, NEW e2, NEW e3, NEW f1, NEW f2, NEW f3, NEW need,
         s = Setting(Number(e1, e2, e3), Number(f1, f2, f3), need)
  PROVE  /\ {e1, e2, e3, f1, f2, f3} \subseteq Outcomes => Sound(s)
         /\ {e1, e2, f1, f2} \subseteq Refused[need] \cup {"error", "default", "good", "shorter"} => Firm(s)
<1>1. s.need = need /\ s["env"] = Number(e1, e2, e3) /\ s["file"] = Number(f1, f2, f3)
  BY SettingIs
<1>2. Raws = {"unset", "malformed", "zero"} \cup {"negative", "excessive", "good"} /\ Sources = {"env", "file"}
  BY DEF Raws, Sources
<1>3. ASSUME {e1, e2, e3, f1, f2, f3} \subseteq Outcomes
      PROVE  Sound(s)
  <2>1. {"negative", "excessive", "good", "error"} \subseteq Outcomes
    BY DEF Outcomes, Raws
  <2>2. ASSUME NEW source \in Sources, NEW raw \in Raws
        PROVE  s[source][raw] \in Outcomes
    BY <1>1, <1>2, <1>3, <2>1, <2>2, NumberIs
  <2> QED BY <2>1, <2>2 DEF Sound, Becomes
<1>4. ASSUME {e1, e2, f1, f2} \subseteq Refused[need] \cup {"error", "default", "good", "shorter"}
      PROVE  Firm(s)
  <2>1. ASSUME NEW source \in Sources, NEW raw \in {"unset", "malformed"}
        PROVE  s[source][raw] \in {e1, e2, f1, f2}
    BY <1>1, <1>2, <2>1, NumberIs
  <2> QED BY <1>1, <1>4, <2>1 DEF Firm, Becomes
<1> QED BY <1>3, <1>4

LEMMA KindsOfNumbers ==
  /\ Sound(Lenient) /\ Firm(Lenient) /\ Sound(Pairing) /\ Firm(Pairing)
  /\ Sound(Term) /\ Firm(Term) /\ Sound(UploadLimit) /\ Firm(UploadLimit)
  /\ Sound(Grants) /\ Firm(Grants) /\ Sound(Amounts) /\ Sound(SessionTTL) /\ Firm(SessionTTL)
  /\ Sound(Interval) /\ Firm(Interval)
  /\ Sound(Points("belowPvP")) /\ Firm(Points("belowPvP"))
  /\ Sound(Points("positive")) /\ Firm(Points("positive"))
  /\ Sound(RankThresholds) /\ Firm(RankThresholds) /\ Sound(Cooldown) /\ Firm(Cooldown)
  /\ Sound(Recording) /\ Firm(Recording)
<1>o. {"zero", "good", "error", "empty", "default", "shorter"} \subseteq Outcomes
  BY DEF Outcomes, Raws
<1>1. Sound(Lenient) /\ Firm(Lenient)
  BY <1>o, NumberSetting, RefusedBy DEF Lenient
<1>2. Sound(Pairing) /\ Firm(Pairing)
  BY <1>o, NumberSetting, RefusedBy DEF Pairing
<1>3. Sound(Term) /\ Firm(Term)
  BY <1>o, NumberSetting, RefusedBy DEF Term
<1>4. Sound(UploadLimit) /\ Firm(UploadLimit)
  BY <1>o, NumberSetting, RefusedBy DEF UploadLimit
<1>5. Sound(Grants) /\ Firm(Grants)
  BY <1>o, NumberSetting, RefusedBy DEF Grants
<1>6. Sound(Amounts)
  BY <1>o, NumberSetting, RefusedBy DEF Amounts
<1>7. Sound(SessionTTL) /\ Firm(SessionTTL)
  BY <1>o, NumberSetting, RefusedBy DEF SessionTTL
<1>8. Sound(Interval) /\ Firm(Interval)
  BY <1>o, NumberSetting, RefusedBy DEF Interval
<1>9. Sound(RankThresholds) /\ Firm(RankThresholds)
  BY <1>o, NumberSetting, RefusedBy DEF RankThresholds
<1>10. Sound(Points("belowPvP")) /\ Firm(Points("belowPvP"))
  BY <1>o, NumberSetting, RefusedBy DEF Points
<1>11. Sound(Points("positive")) /\ Firm(Points("positive"))
  BY <1>o, NumberSetting, RefusedBy DEF Points
<1>12. {"default", "error", "negative", "excessive", "good"} \subseteq Outcomes
  BY DEF Outcomes, Raws
<1>13. ASSUME NEW s, s.need = "any", \A r \in Raws : s["env"][r] = "default",
              \A r \in Raws : s["file"][r] \in {"default", "error", "negative", "excessive", "good"},
              \A r \in {"unset", "malformed"} : s["file"][r] \in {"default", "error"}
       PROVE  Sound(s) /\ Firm(s)
  <2>1. \A source \in Sources, raw \in Raws : Becomes(s, source, raw) = s[source][raw]
    BY <1>13, RefusedBy DEF Becomes
  <2>2. Sources = {"env", "file"} /\ {"unset", "malformed"} \subseteq Raws
    BY DEF Sources, Raws
  <2>3. Sound(s)
    BY <1>12, <1>13, <2>1, <2>2 DEF Sound
  <2>4. Firm(s)
    BY <1>13, <2>1, <2>2 DEF Firm
  <2> QED BY <2>3, <2>4
<1>14. Sound(Cooldown) /\ Firm(Cooldown)
  <2>1. Cooldown.need = "any" /\ \A r \in Raws : Cooldown["env"][r] = "default"
    BY SettingIs DEF Cooldown
  <2>2. /\ \A r \in Raws : Cooldown["file"][r] \in {"default", "error", "good", "excessive"}
        /\ \A r \in {"unset", "malformed"} : Cooldown["file"][r] \in {"default", "error"}
    <3> PICK f : f = [r \in Raws |-> CASE r = "malformed" -> "error" [] r = "good" -> "good"
                                       [] r = "excessive" -> r [] OTHER -> "default"]
      OBVIOUS
    <3>1. Cooldown["file"] = f
      BY SettingIs DEF Cooldown
    <3>2. \A r \in Raws : f[r] \in {"default", "error", "good", "excessive"}
      OBVIOUS
    <3>3. \A r \in {"unset", "malformed"} : f[r] \in {"default", "error"}
      BY DEF Raws
    <3> QED BY <3>1, <3>2, <3>3
  <2> QED BY <1>13, <2>1, <2>2
<1>15. Sound(Recording) /\ Firm(Recording)
  <2>1. Recording.need = "any" /\ \A r \in Raws : Recording["env"][r] = "default"
    BY SettingIs DEF Recording
  <2>2. Recording["file"] = Number("default", "error", "default")
    BY SettingIs DEF Recording
  <2>3. /\ \A r \in Raws : Recording["file"][r] \in {"default", "error", "negative", "excessive", "good"}
        /\ \A r \in {"unset", "malformed"} : Recording["file"][r] \in {"default", "error"}
    BY <2>2, NumberIs DEF Raws
  <2> QED BY <1>13, <2>1, <2>3
<1> QED
  BY <1>1, <1>2, <1>3, <1>4, <1>5, <1>6, <1>7, <1>8, <1>9, <1>10, <1>11, <1>14, <1>15, Zenon

\* So is every setting, but for those a service may lack.
LEMMA SettingsAreFirm ==
  ASSUME NEW a \in Apps, NEW odd \in DOMAIN Settings[a]
  PROVE  Sound(Settings[a][odd]) /\ (odd \in MayLack \/ Firm(Settings[a][odd]))
<1> USE KindsOfTexts, KindsOfNumbers DEF MayLack
<1>1. Apps = {"auth", "health", "koth", "matchmaking", "media", "ratings", "reports", "signaling", "store"}
  BY DEF Apps, Settings
<1>2. /\ Settings["auth"] = AuthSettings /\ Settings["health"] = HealthSettings
      /\ Settings["koth"] = KothSettings /\ Settings["matchmaking"] = MatchmakingSettings
      /\ Settings["media"] = MediaSettings /\ Settings["ratings"] = RatingsSettings
      /\ Settings["reports"] = ReportsSettings /\ Settings["signaling"] = SignalingSettings
      /\ Settings["store"] = StoreSettings
  BY DEF Settings
<1>3. CASE a \in {"auth", "health"}
  BY <1>2, <1>3 DEF AuthSettings, HealthSettings
<1>4. CASE a = "koth"
  BY <1>2, <1>4 DEF KothSettings
<1>5. CASE a = "matchmaking"
  BY <1>2, <1>5 DEF MatchmakingSettings
<1>6. CASE a = "media"
  BY <1>2, <1>6 DEF MediaSettings
<1>7. CASE a = "ratings"
  BY <1>2, <1>7 DEF RatingsSettings
<1>8. CASE a = "reports"
  BY <1>2, <1>8 DEF ReportsSettings
<1>9. CASE a = "signaling"
  BY <1>2, <1>9 DEF SignalingSettings
<1>10. CASE a = "store"
  BY <1>2, <1>10 DEF StoreSettings
<1> QED BY <1>1, <1>3, <1>4, <1>5, <1>6, <1>7, <1>8, <1>9, <1>10, Zenon

\* An award of koth that is not below that of a battle, or thresholds that do not ascend, end it.
LEMMA ExcessIsRefused ==
  ASSUME NEW source \in Sources, NEW odd \in {"win_amount", "rank_amount", "thresholds"}
  PROVE  Load("koth", source, odd, "excessive") = "error"
<1>1. Settings["koth"] = KothSettings
  BY DEF Settings
<1>2. /\ KothSettings["win_amount"] = Points("belowPvP") /\ KothSettings["rank_amount"] = Points("belowPvP")
      /\ KothSettings["thresholds"] = RankThresholds
  BY DEF KothSettings
<1>3. Becomes(Points("belowPvP"), source, "excessive") = "error"
  BY RefusedBy, SettingIs DEF Becomes, Points, Number, Raws, Sources
<1>4. Becomes(RankThresholds, source, "excessive") = "error"
  BY RefusedBy, SettingIs DEF Becomes, RankThresholds, Number, Raws, Sources
<1>5. Becomes(Settings["koth"][odd], source, "excessive") = "error"
  BY <1>1, <1>2, <1>3, <1>4
<1> QED BY <1>5 DEF Load, Becomes

\* What a process has just loaded is what its configuration becomes.
LoadedOK ==
  loaded # None =>
    \E source \in Sources, odd \in DOMAIN Settings[app], raw \in Raws :
      loaded = [source |-> source, odd |-> odd, raw |-> raw, value |-> Load(app, source, odd, raw)]

LEMMA LoadedStep ==
  ASSUME LoadedOK, [AppNext]_<<appVars, faults>>
  PROVE  LoadedOK'
<1>1. ASSUME NEW source \in Sources, NEW odd \in DOMAIN Settings[app], NEW raw \in Raws,
             LoadConfig(source, odd, raw)
      PROVE  LoadedOK'
  BY <1>1 DEF LoadConfig, LoadedOK
<1>2. CASE loaded' = None
  BY <1>2 DEF LoadedOK
<1>3. CASE UNCHANGED <<appVars, faults>>
  BY <1>3 DEF appVars, LoadedOK
<1> QED BY <1>1, <1>2, <1>3 DEF AppNext

\* Whichever setting of whichever service is left out or malformed, in the environment or in the
\* file, the service does not run with a zero or with nothing for it (config.go of each service).
THEOREM AlwaysServesAsConfigured == AppSpec => []ServesAsConfigured
<1>1. AppInit => app \in Apps /\ LoadedOK
  BY DEF AppInit, LoadedOK
<1>2. AppInv /\ LoadedOK /\ [AppNext]_<<appVars, faults>> => AppInv' /\ LoadedOK'
  BY AppStepInv, LoadedStep
<1>3. AppInv /\ LoadedOK => ServesAsConfigured
  <2> SUFFICES ASSUME AppInv, LoadedOK, loaded # None, loaded.value # "error"
               PROVE  /\ loaded.raw \in {"unset", "malformed"} /\ loaded.odd \notin MayLack =>
                           loaded.value \in {"default", "good", "shorter"}
                      /\ app = "koth" /\ loaded.raw = "excessive" =>
                           loaded.odd \notin {"win_amount", "rank_amount", "thresholds"}
    BY DEF ServesAsConfigured
  <2>1. PICK source \in Sources, odd \in DOMAIN Settings[app], raw \in Raws :
          loaded = [source |-> source, odd |-> odd, raw |-> raw, value |-> Load(app, source, odd, raw)]
    BY DEF LoadedOK
  <2>2. /\ loaded.source = source /\ loaded.odd = odd /\ loaded.raw = raw
        /\ loaded.value = Load(app, source, odd, raw) /\ app \in Apps
    BY <2>1 DEF AppInv, AppTypes
  <2>3. loaded.value = Becomes(Settings[app][odd], source, raw)
    BY <2>2 DEF Load, Becomes
  <2>4. odd \in MayLack \/ Firm(Settings[app][odd])
    BY <2>2, SettingsAreFirm
  <2>5. ASSUME raw \in {"unset", "malformed"}, odd \notin MayLack
        PROVE  loaded.value \in {"error", "default", "good", "shorter"}
    BY <2>3, <2>4, <2>5 DEF Firm
  <2>6. ASSUME app = "koth", raw = "excessive", odd \in {"win_amount", "rank_amount", "thresholds"}
        PROVE  loaded.value = "error"
    BY <2>2, <2>6, ExcessIsRefused
  <2> QED BY <2>2, <2>5, <2>6
<1>4. AppInit /\ faults = 0 => AppInv
  BY AppInitInv
<1> QED BY <1>1, <1>2, <1>3, <1>4, PTL DEF AppSpec

----------------------------------------------------------------------------
(* Reports *)

\* What is known of a request in each phase.
ReportOK(w) ==
  /\ pphase[w] \in CheatPhases => report[w] \in CheatReport
  /\ pphase[w] = "cooldown" => WasDue(report[w].reported)
  /\ pphase[w] = "storeRecording" => bug[w] \in 1..MaxReports
  /\ pphase[w] = "insertBug" => bug[w] \in recordings \cup {0}

Asks(w, u) == pphase[w] \in CheatPhases /\ report[w].reported = u
IsDue(u) == CountRecent(cheatReports, u) >= Threshold
CooldownDue(u) == IsDue(u) => u \in served \/ \E w \in Workers : Asks(w, u)
Recorded(n) == n \in bugReports \/ \E w \in Workers : pphase[w] = "insertBug" /\ bug[w] = n

ReportsInv ==
  /\ ReportsTypeOK
  /\ faults \in Nat
  /\ \A w \in Workers : ReportOK(w)
  /\ faults = 0 => \A u \in Players : CooldownDue(u)
  /\ \A u \in cooldown : WasDue(u)
  /\ bugReports \ {0} \subseteq recordings
  /\ faults = 0 => \A n \in recordings : Recorded(n)

\* The reports about somebody can be counted, and the recent ones are among them.
LEMMA AboutCounts ==
  ASSUME NEW rows \in Seq(CheatReport), NEW u
  PROVE  /\ IsFiniteSet(About(rows, u)) /\ Cardinality(About(rows, u)) \in Nat
         /\ CountRecent(rows, u) \in Nat /\ CountRecent(rows, u) <= Cardinality(About(rows, u))
<1> DEFINE recent == {i \in About(rows, u) : rows[i].match \in Recent(rows, u)}
<1>1. IsFiniteSet(1..Len(rows))
  BY FS_Interval
<1>2. About(rows, u) \in SUBSET (1..Len(rows))
  BY DEF About
<1>3. IsFiniteSet(About(rows, u)) /\ Cardinality(About(rows, u)) \in Nat
  BY <1>1, <1>2, FS_Subset, FS_CardinalityType
<1>4. recent \in SUBSET About(rows, u)
  OBVIOUS
<1>5. /\ IsFiniteSet(recent) /\ Cardinality(recent) <= Cardinality(About(rows, u))
      /\ Cardinality(recent) \in Nat
  <2> HIDE DEF recent
  <2> QED BY <1>3, <1>4, FS_Subset, FS_CardinalityType
<1> QED BY <1>3, <1>5 DEF CountRecent

\* A row about somebody else changes nothing in what is counted about u.
LEMMA OthersRow ==
  ASSUME NEW rows \in Seq(CheatReport), NEW r \in CheatReport, NEW u, u # r.reported
  PROVE  CountRecent(Append(rows, r), u) = CountRecent(rows, u)
<1> DEFINE more == Append(rows, r)
           later(i) == {rows[j].match : j \in {k \in About(rows, u) : k > i}}
           laterNow(i) == {more[j].match : j \in {k \in About(rows, u) : k > i}}
<1>1. /\ DOMAIN rows = 1..Len(rows) /\ DOMAIN more = 1..(Len(rows) + 1)
      /\ \A i \in 1..Len(rows) : more[i] = rows[i]
      /\ more[Len(rows) + 1] = r
  OBVIOUS
<1>2. About(more, u) = About(rows, u)
  <2>1. \A i \in 1..(Len(rows) + 1) : i # Len(rows) + 1 => i \in 1..Len(rows)
    OBVIOUS
  <2> HIDE DEF more
  <2> QED BY <1>1, <2>1 DEF About
<1>3. \A i \in About(rows, u) : more[i] = rows[i]
  BY <1>1 DEF About
<1>4. \A i \in About(rows, u) : later(i) = laterNow(i)
  <2> HIDE DEF more
  <2> QED BY <1>3
<1>5. Recent(rows, u) = {m \in Matches : \E i \in About(rows, u) :
                           rows[i].match = m /\ Cardinality(later(i) \ {m}) < LastNMatches}
  BY DEF Recent
<1>6. Recent(more, u) = {m \in Matches : \E i \in About(rows, u) :
                           more[i].match = m /\ Cardinality(laterNow(i) \ {m}) < LastNMatches}
  BY <1>2 DEF Recent
<1> HIDE DEF more, later, laterNow
<1>7. \A m, i : i \in About(rows, u) => /\ rows[i].match = m <=> more[i].match = m
                                        /\ later(i) \ {m} = laterNow(i) \ {m}
  BY <1>3, <1>4
<1>8. Recent(more, u) = Recent(rows, u)
  <2>1. \A m \in Matches :
          (\E i \in About(rows, u) :
             rows[i].match = m /\ Cardinality(later(i) \ {m}) < LastNMatches)
            <=> (\E i \in About(rows, u) :
                   more[i].match = m /\ Cardinality(laterNow(i) \ {m}) < LastNMatches)
    BY <1>7
  <2> QED BY <1>5, <1>6, <2>1
<1>9. PICK R : R = Recent(rows, u) /\ R = Recent(more, u)
  BY <1>8
<1>10. {i \in About(rows, u) : rows[i].match \in R} = {i \in About(rows, u) : more[i].match \in R}
  BY <1>3
<1>11. /\ CountRecent(rows, u) = Cardinality({i \in About(rows, u) : rows[i].match \in R})
       /\ CountRecent(more, u) = Cardinality({i \in About(rows, u) : more[i].match \in R})
  BY <1>2, <1>9 DEF CountRecent
<1>12. CountRecent(more, u) = CountRecent(rows, u)
  BY <1>10, <1>11
<1> QED BY <1>12 DEF more

\* A count that was made stays one that was made: no row is deleted or changed.
LEMMA WasDueStays ==
  ASSUME ReportsTypeOK, NEW r \in CheatReport, cheatReports' = Append(cheatReports, r), NEW u, WasDue(u)
  PROVE  WasDue(u)'
<1> PICK len \in Nat : len = Len(cheatReports)
  BY DEF ReportsTypeOK
<1>1. PICK n \in 0..len : CountRecent([i \in 1..n |-> cheatReports[i]], u) >= Threshold
  BY DEF WasDue
<1>2. Len(cheatReports') = len + 1 /\ \A i \in 1..len : cheatReports'[i] = cheatReports[i]
  BY DEF ReportsTypeOK
<1>3. n \in 0..Len(cheatReports')
  BY <1>2
<1>4. [i \in 1..n |-> cheatReports'[i]] = [i \in 1..n |-> cheatReports[i]]
  <2>1. \A i \in 1..n : cheatReports'[i] = cheatReports[i]
    BY <1>2
  <2> QED BY <2>1
<1>5. PICK rows : /\ rows = [i \in 1..n |-> cheatReports[i]]
                  /\ rows = [i \in 1..n |-> cheatReports'[i]]
  BY <1>4
<1>6. CountRecent(rows, u) >= Threshold
  BY <1>1, <1>5
<1>7. CountRecent([i \in 1..n |-> cheatReports'[i]], u) >= Threshold
  BY <1>5, <1>6
<1> QED BY <1>3, <1>7 DEF WasDue

\* Whoever is due now was due.
LEMMA DueNow ==
  ASSUME ReportsTypeOK, NEW u, IsDue(u)
  PROVE  WasDue(u)
<1> PICK len \in Nat : len = Len(cheatReports) /\ DOMAIN cheatReports = 1..len
  BY DEF ReportsTypeOK
<1>1. [i \in 1..len |-> cheatReports[i]] = cheatReports
  BY DEF ReportsTypeOK
<1>2. len \in 0..Len(cheatReports)
  OBVIOUS
<1>3. CountRecent([i \in 1..len |-> cheatReports[i]], u) >= Threshold
  BY <1>1 DEF IsDue
<1> QED BY <1>2, <1>3 DEF WasDue

\* What is known of a request whose rows are still there.
LEMMA ReportKept ==
  ASSUME NEW v, ReportOK(v), pphase'[v] = pphase[v], report'[v] = report[v], bug'[v] = bug[v],
         UNCHANGED cheatReports, recordings \subseteq recordings'
  PROVE  ReportOK(v)'
<1>1. PICK u : u = report[v].reported /\ u = report'[v].reported
  OBVIOUS
<1>2. WasDue(u) => WasDue(u)'
  BY DEF WasDue
<1> QED BY <1>1, <1>2 DEF ReportOK, WasDue

\* A step of one request that changes no table leaves the others as they were.
LEMMA ReportsFrame ==
  ASSUME ReportsInv, NEW w \in Workers, ReportsTypeOK', faults' \in Nat, ReportOK(w)',
         \A v \in Workers \ {w} : pphase'[v] = pphase[v] /\ report'[v] = report[v] /\ bug'[v] = bug[v],
         UNCHANGED <<cheatReports, cooldown, served, bugReports, recordings>>,
         faults' = 0 =>
           /\ faults = 0 /\ pphase[w] # "insertBug"
           /\ \A u \in Players : Asks(w, u) => Asks(w, u)' \/ ~IsDue(u)
  PROVE  ReportsInv'
<1>1. \A v \in Workers : ReportOK(v)'
  BY ReportKept DEF ReportsInv
<1>2. ASSUME faults' = 0, NEW u \in Players
      PROVE  CooldownDue(u)'
  <2>1. (IsDue(u)' <=> IsDue(u)) /\ CooldownDue(u)
    BY <1>2 DEF ReportsInv, IsDue
  <2>2. \A v \in Workers \ {w} : Asks(v, u) => Asks(v, u)'
    BY DEF Asks
  <2> QED BY <1>2, <2>1, <2>2 DEF CooldownDue
<1>3. \A u \in cooldown' : WasDue(u)'
  BY DEF ReportsInv, WasDue
<1>4. faults' = 0 => \A n \in recordings' : Recorded(n)'
  BY DEF ReportsInv, Recorded
<1> QED BY <1>1, <1>2, <1>3, <1>4 DEF ReportsInv

LEMMA ReportEnds ==
  ASSUME ReportsAssumption, ReportsTypeOK, NEW w \in Workers, EndReport(w)
  PROVE  /\ pphase' \in [Workers -> CheatPhases \cup BugPhases \cup {"idle"}]
         /\ report' \in [Workers -> CheatReport \cup {None}]
         /\ bug' \in [Workers -> 0..MaxReports]
         /\ pphase'[w] = "idle" /\ ReportOK(w)'
         /\ \A v \in Workers \ {w} : pphase'[v] = pphase[v] /\ report'[v] = report[v] /\ bug'[v] = bug[v]
<1>1. 0 \in 0..MaxReports
  BY DEF ReportsAssumption
<1>2. /\ pphase' \in [Workers -> CheatPhases \cup BugPhases \cup {"idle"}]
      /\ report' \in [Workers -> CheatReport \cup {None}]
      /\ bug' \in [Workers -> 0..MaxReports]
      /\ pphase'[w] = "idle"
      /\ \A v \in Workers \ {w} : pphase'[v] = pphase[v] /\ report'[v] = report[v] /\ bug'[v] = bug[v]
  BY <1>1 DEF ReportsTypeOK, EndReport
<1> QED BY <1>2 DEF ReportOK, CheatPhases

LEMMA ReportProceeds ==
  ASSUME ReportsTypeOK, NEW w \in Workers, NEW p \in CheatPhases \cup BugPhases, Proceed(w, p)
  PROVE  /\ pphase' \in [Workers -> CheatPhases \cup BugPhases \cup {"idle"}]
         /\ report' = report /\ bug' = bug
         /\ pphase'[w] = p
         /\ \A v \in Workers \ {w} : pphase'[v] = pphase[v] /\ report'[v] = report[v] /\ bug'[v] = bug[v]
BY DEF ReportsTypeOK, Proceed

\* A fault is counted, and there is none without one.
LEMMA FaultCounts ==
  ASSUME faults \in Nat, Fault \/ UNCHANGED faults
  PROVE  faults' \in Nat /\ (faults' = 0 => faults = 0 /\ UNCHANGED faults) /\ (Fault => faults' # 0)
BY DEF Fault

LEMMA ReportsBegin ==
  ASSUME ReportsAssumption, ReportsInv, NEW w \in Workers,
         (\E r \in CheatReport : ReportCheat(w, r)) \/ ReportBug(w)
  PROVE  ReportsInv'
<1>1. ASSUME NEW p, NEW r, NEW n, Begin(w, p, r, n),
             UNCHANGED <<cheatReports, cooldown, served, bugReports, recordings, faults>>,
             \/ p = "upsert" /\ r \in CheatReport /\ n = 0
             \/ p = "storeRecording" /\ r = None /\ n = requests + 1
             \/ p = "insertBug" /\ r = None /\ n = 0
      PROVE  ReportsInv'
  <2>1. requests \in Nat /\ requests < MaxReports /\ requests' = requests + 1 /\ ReportsTypeOK
    BY <1>1 DEF Begin, ReportsInv, ReportsTypeOK
  <2>2. requests' \in 0..MaxReports /\ n \in 0..MaxReports /\ (p = "storeRecording" => n \in 1..MaxReports)
    BY <1>1, <2>1 DEF ReportsAssumption
  <2>3. pphase[w] = "idle" /\ pphase'[w] = p /\ report'[w] = r /\ bug'[w] = n
    BY <1>1, <2>1 DEF Begin, ReportsTypeOK
  <2>4. \A v \in Workers \ {w} : pphase'[v] = pphase[v] /\ report'[v] = report[v] /\ bug'[v] = bug[v]
    BY <1>1, <2>1 DEF Begin, ReportsTypeOK
  <2>5. /\ pphase' \in [Workers -> CheatPhases \cup BugPhases \cup {"idle"}]
        /\ report' \in [Workers -> CheatReport \cup {None}]
        /\ bug' \in [Workers -> 0..MaxReports]
    BY <1>1, <2>1, <2>2 DEF Begin, ReportsTypeOK, CheatPhases, BugPhases
  <2>6. ReportsTypeOK'
    BY <1>1, <2>1, <2>2, <2>5 DEF ReportsTypeOK
  <2>7. ReportOK(w)'
    BY <1>1, <2>2, <2>3 DEF ReportOK, CheatPhases
  <2>8. \A u \in Players : ~Asks(w, u)
    BY <2>3 DEF Asks, CheatPhases
  <2> QED BY <1>1, <2>3, <2>4, <2>6, <2>7, <2>8, ReportsFrame DEF ReportsInv
<1>2. CASE \E r \in CheatReport : ReportCheat(w, r)
  BY <1>1, <1>2 DEF ReportCheat
<1>3. CASE ReportBug(w)
  BY <1>1, <1>3 DEF ReportBug
<1> QED BY <1>2, <1>3

LEMMA ReportsUpsert ==
  ASSUME ReportsAssumption, ReportsInv, NEW w \in Workers, UpsertCheatReport(w)
  PROVE  ReportsInv'
<1> PICK r : r = report[w]
  OBVIOUS
<1>1. /\ pphase[w] = "upsert" /\ r \in CheatReport /\ ReportsTypeOK /\ r.reported \in Players
      /\ UNCHANGED <<cooldown, bugReports, recordings, requests>>
  BY DEF UpsertCheatReport, ReportsInv, ReportOK, CheatPhases, CheatReport
<1>2. faults' \in Nat /\ (faults' = 0 => faults = 0 /\ Proceed(w, "count"))
  BY FaultCounts DEF UpsertCheatReport, ReportsInv
<1>3. Proceed(w, "count") \/ EndReport(w)
  BY DEF UpsertCheatReport
<1>4. /\ pphase' \in [Workers -> CheatPhases \cup BugPhases \cup {"idle"}]
      /\ report' \in [Workers -> CheatReport \cup {None}]
      /\ bug' \in [Workers -> 0..MaxReports]
      /\ pphase'[w] \in {"count", "idle"} /\ (pphase'[w] = "count" => report'[w] = r)
      /\ \A v \in Workers \ {w} : pphase'[v] = pphase[v] /\ report'[v] = report[v] /\ bug'[v] = bug[v]
  <2>1. CASE Proceed(w, "count")
    <3>1. "count" \in CheatPhases \cup BugPhases
      BY DEF CheatPhases
    <3> QED BY <1>1, <2>1, <3>1, ReportProceeds DEF ReportsTypeOK
  <2>2. CASE EndReport(w)
    BY <1>1, <2>2, ReportEnds
  <2> QED BY <1>3, <2>1, <2>2
<1>5. ReportOK(w)'
  BY <1>1, <1>4 DEF ReportOK, CheatPhases
<1>6. CASE UNCHANGED <<cheatReports, served>>
  <2>1. ReportsTypeOK'
    BY <1>1, <1>4, <1>6 DEF ReportsTypeOK
  <2>2. faults' = 0 => pphase[w] # "insertBug" /\ \A u \in Players : Asks(w, u) => Asks(w, u)'
    <3>1. faults' = 0 => pphase'[w] = "count" /\ report'[w] = r
      <4>1. "count" \in CheatPhases \cup BugPhases
        BY DEF CheatPhases
      <4> QED BY <1>1, <1>2, <4>1, ReportProceeds
    <3> QED BY <1>1, <3>1 DEF Asks, CheatPhases
  <2> QED BY <1>1, <1>2, <1>4, <1>5, <1>6, <2>1, <2>2, ReportsFrame
<1>7. CASE cheatReports' = Append(cheatReports, r) /\ served' = served \ {r.reported}
  <2>1. cheatReports' \in Seq(CheatReport) /\ served' \in SUBSET Players
    BY <1>1, <1>7 DEF ReportsTypeOK
  <2>2. ReportsTypeOK'
    BY <1>1, <1>4, <2>1 DEF ReportsTypeOK
  <2>3. ASSUME NEW u, u # r.reported
        PROVE  IsDue(u)' <=> IsDue(u)
    <3>1. CountRecent(Append(cheatReports, r), u) = CountRecent(cheatReports, u)
      BY <1>1, <2>3, OthersRow DEF ReportsTypeOK
    <3> QED BY <1>7, <3>1 DEF IsDue
  <2>4. ASSUME NEW u, WasDue(u)
        PROVE  WasDue(u)'
    BY <1>1, <1>7, <2>4, WasDueStays
  <2>5. ASSUME NEW v \in Workers
        PROVE  ReportOK(v)'
    <3>1. CASE v # w
      <4>1. PICK u : u = report[v].reported /\ u = report'[v].reported
        BY <1>4, <3>1
      <4>2. pphase[v] = "cooldown" => WasDue(u)'
        BY <2>4, <4>1 DEF ReportsInv, ReportOK
      <4> QED BY <1>1, <1>4, <3>1, <4>1, <4>2 DEF ReportsInv, ReportOK, WasDue
    <3> QED BY <1>5, <3>1
  <2>6. ASSUME faults' = 0, NEW u \in Players
        PROVE  CooldownDue(u)'
    <3>1. pphase'[w] = "count" /\ report'[w] = r
      <4>1. "count" \in CheatPhases \cup BugPhases
        BY DEF CheatPhases
      <4> QED BY <1>1, <1>2, <2>6, <4>1, ReportProceeds
    <3>2. CASE u = r.reported
      BY <3>1, <3>2 DEF CooldownDue, Asks, CheatPhases
    <3>3. CASE u # r.reported
      <4>1. CooldownDue(u) /\ (IsDue(u)' <=> IsDue(u))
        BY <1>2, <2>3, <2>6, <3>3 DEF ReportsInv
      <4>2. \A v \in Workers : Asks(v, u) => Asks(v, u)'
        BY <1>4, <3>3 DEF Asks
      <4> QED BY <1>7, <3>3, <4>1, <4>2 DEF CooldownDue
    <3> QED BY <3>2, <3>3
  <2>7. faults' = 0 => \A n \in recordings' : Recorded(n)'
    BY <1>1, <1>2, <1>4 DEF ReportsInv, Recorded
  <2> QED BY <1>1, <1>2, <2>2, <2>4, <2>5, <2>6, <2>7 DEF ReportsInv
<1> QED BY <1>6, <1>7 DEF UpsertCheatReport, Upsert

LEMMA ReportsCount ==
  ASSUME ReportsAssumption, ReportsInv, NEW w \in Workers, CountRecentCheatReports(w)
  PROVE  ReportsInv'
<1> PICK u : u = report[w].reported
  OBVIOUS
<1>1. /\ pphase[w] = "count" /\ ReportsTypeOK /\ report[w] \in CheatReport /\ faults \in Nat
      /\ UNCHANGED <<cheatReports, cooldown, served, bugReports, recordings, requests>>
  BY DEF CountRecentCheatReports, ReportsInv, ReportOK, CheatPhases
<1>2. CASE Enough(CountRecent(cheatReports, u)) /\ Proceed(w, "cooldown") /\ UNCHANGED faults
  <2>1. WasDue(u)
    BY <1>1, <1>2, DueNow DEF Enough, IsDue
  <2>2. "cooldown" \in CheatPhases \cup BugPhases
    BY DEF CheatPhases
  <2>3. /\ pphase' \in [Workers -> CheatPhases \cup BugPhases \cup {"idle"}]
        /\ report' = report /\ bug' = bug
        /\ pphase'[w] = "cooldown"
        /\ \A v \in Workers \ {w} : pphase'[v] = pphase[v] /\ report'[v] = report[v] /\ bug'[v] = bug[v]
    BY <1>1, <1>2, <2>2, ReportProceeds
  <2>4. ReportsTypeOK'
    BY <1>1, <2>3 DEF ReportsTypeOK
  <2>5. ReportOK(w)'
    <3>1. WasDue(u)' /\ u = report'[w].reported
      BY <1>1, <2>1, <2>3 DEF WasDue
    <3> QED BY <1>1, <2>3, <3>1 DEF ReportOK, CheatPhases, WasDue
  <2>6. \A x \in Players : Asks(w, x) => Asks(w, x)'
    BY <2>3 DEF Asks, CheatPhases
  <2> QED BY <1>1, <1>2, <2>3, <2>4, <2>5, <2>6, ReportsFrame
<1>3. CASE EndReport(w) /\ ((~Enough(CountRecent(cheatReports, u)) /\ UNCHANGED faults) \/ Fault)
  <2>1. faults' \in Nat /\ (faults' = 0 => faults = 0 /\ ~Enough(CountRecent(cheatReports, u)))
    BY <1>1, <1>3, FaultCounts
  <2>2. /\ pphase' \in [Workers -> CheatPhases \cup BugPhases \cup {"idle"}]
        /\ report' \in [Workers -> CheatReport \cup {None}]
        /\ bug' \in [Workers -> 0..MaxReports]
        /\ pphase'[w] = "idle" /\ ReportOK(w)'
        /\ \A v \in Workers \ {w} : pphase'[v] = pphase[v] /\ report'[v] = report[v] /\ bug'[v] = bug[v]
    BY <1>1, <1>3, ReportEnds
  <2>3. ReportsTypeOK'
    BY <1>1, <2>2 DEF ReportsTypeOK
  <2>4. faults' = 0 => \A x \in Players : Asks(w, x) => ~IsDue(x)
    BY <2>1 DEF Asks, Enough, IsDue
  <2> QED BY <1>1, <2>1, <2>2, <2>3, <2>4, ReportsFrame
<1> QED BY <1>2, <1>3 DEF CountRecentCheatReports

LEMMA ReportsCooldown ==
  ASSUME ReportsAssumption, ReportsInv, NEW w \in Workers, SetCooldown(w)
  PROVE  ReportsInv'
<1> PICK u : u = report[w].reported
  OBVIOUS
<1>1. /\ pphase[w] = "cooldown" /\ ReportsTypeOK /\ u \in Players /\ WasDue(u) /\ faults \in Nat
      /\ EndReport(w) /\ UNCHANGED <<cheatReports, bugReports, recordings, requests>>
  BY DEF SetCooldown, ReportsInv, ReportOK, CheatPhases, CheatReport
<1>2. /\ pphase' \in [Workers -> CheatPhases \cup BugPhases \cup {"idle"}]
      /\ report' \in [Workers -> CheatReport \cup {None}]
      /\ bug' \in [Workers -> 0..MaxReports]
      /\ pphase'[w] = "idle" /\ ReportOK(w)'
      /\ \A v \in Workers \ {w} : pphase'[v] = pphase[v] /\ report'[v] = report[v] /\ bug'[v] = bug[v]
  BY <1>1, ReportEnds
<1>3. CASE Fault /\ UNCHANGED <<cooldown, served>>
  <2>1. faults' \in Nat /\ faults' # 0
    BY <1>1, <1>3, FaultCounts
  <2>2. ReportsTypeOK'
    BY <1>1, <1>2, <1>3 DEF ReportsTypeOK
  <2> QED BY <1>1, <1>2, <1>3, <2>1, <2>2, ReportsFrame
<1>4. CASE cooldown' = cooldown \cup {u} /\ served' = served \cup {u} /\ UNCHANGED faults
  <2>1. cooldown' \in SUBSET Players /\ served' \in SUBSET Players
    BY <1>1, <1>4 DEF ReportsTypeOK
  <2>2. ReportsTypeOK'
    BY <1>1, <1>2, <2>1 DEF ReportsTypeOK
  <2>3. \A v \in Workers : ReportOK(v)'
    BY <1>1, <1>2, <1>4, ReportKept DEF ReportsInv
  <2>4. ASSUME faults' = 0, NEW x \in Players
        PROVE  CooldownDue(x)'
    <3>1. CooldownDue(x) /\ (IsDue(x)' <=> IsDue(x))
      BY <1>1, <1>4, <2>4 DEF ReportsInv, IsDue
    <3>2. x # u => \A v \in Workers : Asks(v, x) => Asks(v, x)'
      BY <1>2 DEF Asks
    <3> QED BY <1>4, <3>1, <3>2 DEF CooldownDue
  <2>5. \A x \in cooldown' : WasDue(x)'
    BY <1>1, <1>4 DEF ReportsInv, WasDue
  <2>6. faults' = 0 => \A n \in recordings' : Recorded(n)'
    BY <1>1, <1>2, <1>4 DEF ReportsInv, Recorded
  <2> QED BY <1>1, <1>4, <2>2, <2>3, <2>4, <2>5, <2>6 DEF ReportsInv
<1> QED BY <1>3, <1>4 DEF SetCooldown

LEMMA ReportsBugs ==
  ASSUME ReportsAssumption, ReportsInv, NEW w \in Workers, StoreRecording(w) \/ InsertBugReport(w)
  PROVE  ReportsInv'
<1>1. /\ ReportsTypeOK /\ pphase[w] \in BugPhases /\ UNCHANGED <<cheatReports, cooldown, served, requests>>
      /\ pphase[w] = "storeRecording" => bug[w] \in 1..MaxReports
      /\ faults' \in Nat /\ (faults' = 0 => faults = 0)
      /\ pphase[w] \notin CheatPhases
  BY FaultCounts DEF StoreRecording, InsertBugReport, ReportsInv, ReportOK, BugPhases, CheatPhases
<1>2. ASSUME recordings \subseteq recordings', recordings' \in SUBSET (1..MaxReports),
             bugReports' \in SUBSET (0..MaxReports), bugReports' \ {0} \subseteq recordings',
             pphase' \in [Workers -> CheatPhases \cup BugPhases \cup {"idle"}],
             report' \in [Workers -> CheatReport \cup {None}],
             bug' \in [Workers -> 0..MaxReports], ReportOK(w)',
             \A v \in Workers \ {w} : pphase'[v] = pphase[v] /\ report'[v] = report[v] /\ bug'[v] = bug[v],
             faults' = 0 => \A n \in recordings' : Recorded(n)'
      PROVE  ReportsInv'
  <2>1. ReportsTypeOK'
    BY <1>1, <1>2 DEF ReportsTypeOK
  <2>2. \A v \in Workers : ReportOK(v)'
    BY <1>1, <1>2, ReportKept DEF ReportsInv
  <2>3. ASSUME faults' = 0, NEW u \in Players
        PROVE  CooldownDue(u)'
    <3>1. CooldownDue(u) /\ (IsDue(u)' <=> IsDue(u))
      BY <1>1, <2>3 DEF ReportsInv, IsDue
    <3>2. \A v \in Workers : Asks(v, u) => Asks(v, u)'
      BY <1>1, <1>2 DEF Asks
    <3> QED BY <1>1, <3>1, <3>2 DEF CooldownDue
  <2>4. \A u \in cooldown' : WasDue(u)'
    BY <1>1 DEF ReportsInv, WasDue
  <2> QED BY <1>1, <1>2, <2>1, <2>2, <2>3, <2>4 DEF ReportsInv
<1>3. CASE StoreRecording(w)
  <2>1. /\ pphase[w] = "storeRecording" /\ bugReports' = bugReports
        /\ recordings' \in {recordings, recordings \cup {bug[w]}}
    BY <1>3 DEF StoreRecording
  <2>2. CASE Fault /\ EndReport(w)
    <3>1. faults' # 0
      BY <1>1, <2>2, FaultCounts DEF ReportsInv
    <3>2. recordings \subseteq recordings' /\ recordings' \in SUBSET (1..MaxReports)
      BY <1>1, <2>1 DEF ReportsTypeOK
    <3>3. bugReports' \in SUBSET (0..MaxReports) /\ bugReports' \ {0} \subseteq recordings'
      BY <2>1, <3>2 DEF ReportsInv, ReportsTypeOK
    <3>4. /\ pphase' \in [Workers -> CheatPhases \cup BugPhases \cup {"idle"}]
          /\ report' \in [Workers -> CheatReport \cup {None}]
          /\ bug' \in [Workers -> 0..MaxReports] /\ ReportOK(w)'
          /\ \A v \in Workers \ {w} : pphase'[v] = pphase[v] /\ report'[v] = report[v] /\ bug'[v] = bug[v]
      BY <1>1, <2>2, ReportEnds
    <3> QED BY <1>2, <3>1, <3>2, <3>3, <3>4
  <2>3. CASE recordings' = recordings \cup {bug[w]} /\ Proceed(w, "insertBug")
    <3>1. "insertBug" \in CheatPhases \cup BugPhases
      BY DEF BugPhases
    <3>2. recordings \subseteq recordings' /\ recordings' \in SUBSET (1..MaxReports)
      BY <1>1, <2>1 DEF ReportsTypeOK
    <3>3. bugReports' \in SUBSET (0..MaxReports) /\ bugReports' \ {0} \subseteq recordings'
      BY <2>1, <3>2 DEF ReportsInv, ReportsTypeOK
    <3>4. /\ pphase' \in [Workers -> CheatPhases \cup BugPhases \cup {"idle"}]
          /\ report' = report /\ bug' = bug /\ pphase'[w] = "insertBug"
          /\ \A v \in Workers \ {w} : pphase'[v] = pphase[v] /\ report'[v] = report[v] /\ bug'[v] = bug[v]
      BY <1>1, <2>3, <3>1, ReportProceeds
    <3>5. ReportOK(w)'
      BY <2>3, <3>4 DEF ReportOK, CheatPhases
    <3>6. report' \in [Workers -> CheatReport \cup {None}] /\ bug' \in [Workers -> 0..MaxReports]
      BY <1>1, <3>4 DEF ReportsTypeOK
    <3>7. ASSUME faults' = 0, NEW n \in recordings'
          PROVE  Recorded(n)'
      <4>1. CASE n = bug[w]
        BY <3>4, <4>1 DEF Recorded
      <4>2. CASE n \in recordings
        <5>1. Recorded(n)
          BY <1>1, <3>7, <4>2 DEF ReportsInv
        <5> QED BY <2>1, <3>4, <5>1 DEF Recorded
      <4> QED BY <2>3, <3>7, <4>1, <4>2
    <3> QED BY <1>2, <3>2, <3>3, <3>4, <3>5, <3>6, <3>7
  <2> QED BY <1>3, <2>2, <2>3 DEF StoreRecording
<1>4. CASE InsertBugReport(w)
  <2>1. /\ pphase[w] = "insertBug" /\ recordings' = recordings /\ EndReport(w)
        /\ bugReports' \in {bugReports, bugReports \cup {bug[w]}}
        /\ Fault \/ (bugReports' = bugReports \cup {bug[w]} /\ UNCHANGED faults)
    BY <1>4 DEF InsertBugReport
  <2>2. bug[w] \in recordings \cup {0}
    BY <2>1 DEF ReportsInv, ReportOK
  <2>3. bug[w] \in 0..MaxReports /\ recordings \in SUBSET (1..MaxReports) /\ bugReports \in SUBSET (0..MaxReports)
    BY <1>1 DEF ReportsTypeOK
  <2>4. bugReports' \in SUBSET (0..MaxReports)
    BY <2>1, <2>3
  <2>5. bugReports' \ {0} \subseteq recordings'
    BY <2>1, <2>2 DEF ReportsInv
  <2>6. /\ pphase' \in [Workers -> CheatPhases \cup BugPhases \cup {"idle"}]
        /\ report' \in [Workers -> CheatReport \cup {None}]
        /\ bug' \in [Workers -> 0..MaxReports] /\ ReportOK(w)'
        /\ \A v \in Workers \ {w} : pphase'[v] = pphase[v] /\ report'[v] = report[v] /\ bug'[v] = bug[v]
    BY <1>1, <2>1, ReportEnds
  <2>7. ASSUME faults' = 0, NEW n \in recordings'
        PROVE  Recorded(n)'
    <3>1. bugReports' = bugReports \cup {bug[w]} /\ Recorded(n)
      BY <1>1, <2>1, <2>7, FaultCounts DEF ReportsInv
    <3> QED BY <2>6, <3>1 DEF Recorded
  <2> QED BY <1>2, <2>1, <2>3, <2>4, <2>5, <2>6, <2>7
<1> QED BY <1>3, <1>4

LEMMA ReportsStep ==
  ASSUME ReportsAssumption, ReportsInv, [ReportsNext]_<<reportsVars, faults>>
  PROVE  ReportsInv'
<1>1. ASSUME NEW w \in Workers, AbortReport(w)
      PROVE  ReportsInv'
  <2>1. /\ ReportsTypeOK /\ EndReport(w) /\ UNCHANGED <<cheatReports, cooldown, served, bugReports, recordings, requests>>
        /\ faults' \in Nat /\ faults' # 0
    BY <1>1, FaultCounts DEF AbortReport, ReportsInv
  <2>2. /\ pphase' \in [Workers -> CheatPhases \cup BugPhases \cup {"idle"}]
        /\ report' \in [Workers -> CheatReport \cup {None}]
        /\ bug' \in [Workers -> 0..MaxReports] /\ ReportOK(w)'
        /\ \A v \in Workers \ {w} : pphase'[v] = pphase[v] /\ report'[v] = report[v] /\ bug'[v] = bug[v]
    BY <2>1, ReportEnds
  <2>3. ReportsTypeOK'
    BY <2>1, <2>2 DEF ReportsTypeOK
  <2> QED BY <2>1, <2>2, <2>3, ReportsFrame
<1>2. ASSUME NEW u \in Players, CooldownEnds(u)
      PROVE  ReportsInv'
  <2>1. cooldown' \subseteq cooldown /\ UNCHANGED <<cheatReports, served, bugReports, recordings, pphase, report, bug, requests, faults>>
    BY <1>2 DEF CooldownEnds
  <2>2. ReportsTypeOK'
    BY <2>1 DEF ReportsInv, ReportsTypeOK
  <2>3. /\ \A w \in Workers : ReportOK(w)'
        /\ \A x \in cooldown' : WasDue(x)'
    BY <2>1, ReportKept DEF ReportsInv, WasDue
  <2>4. faults' = 0 => \A x \in Players : CooldownDue(x)'
    <3>1. \A x : IsDue(x)' <=> IsDue(x)
      BY <2>1 DEF IsDue
    <3>2. \A x, w : Asks(w, x)' <=> Asks(w, x)
      BY <2>1 DEF Asks
    <3> QED BY <2>1, <3>1, <3>2 DEF ReportsInv, CooldownDue
  <2>5. faults' = 0 => \A n \in recordings' : Recorded(n)'
    BY <2>1 DEF ReportsInv, Recorded
  <2> QED BY <2>1, <2>2, <2>3, <2>4, <2>5 DEF ReportsInv
<1>3. CASE UNCHANGED <<reportsVars, faults>>
  <2>1. UNCHANGED <<cheatReports, cooldown, served, bugReports, recordings, pphase, report, bug, requests, faults>>
    BY <1>3 DEF reportsVars
  <2>2. ReportsTypeOK' /\ faults' \in Nat /\ bugReports' \ {0} \subseteq recordings'
    BY <2>1 DEF ReportsInv, ReportsTypeOK
  <2>3. /\ \A w \in Workers : ReportOK(w)'
        /\ \A x \in cooldown' : WasDue(x)'
    BY <2>1, ReportKept DEF ReportsInv, WasDue
  <2>4. faults' = 0 => \A x \in Players : CooldownDue(x)'
    <3>1. \A x : IsDue(x)' <=> IsDue(x)
      BY <2>1 DEF IsDue
    <3>2. \A x, w : Asks(w, x)' <=> Asks(w, x)
      BY <2>1 DEF Asks
    <3> QED BY <2>1, <3>1, <3>2 DEF ReportsInv, CooldownDue
  <2>5. faults' = 0 => \A n \in recordings' : Recorded(n)'
    BY <2>1 DEF ReportsInv, Recorded
  <2> QED BY <2>2, <2>3, <2>4, <2>5 DEF ReportsInv
<1> QED
  BY <1>1, <1>2, <1>3, ReportsBegin, ReportsUpsert, ReportsCount, ReportsCooldown, ReportsBugs DEF ReportsNext

LEMMA ReportsInitInv ==
  ASSUME ReportsAssumption, ReportsInit, faults = 0
  PROVE  ReportsInv
<1>1. ReportsTypeOK /\ \A w \in Workers : ReportOK(w)
  BY DEF ReportsInit, ReportsTypeOK, ReportOK, CheatPhases, BugPhases, ReportsAssumption
<1>2. ASSUME NEW u \in Players
      PROVE  CooldownDue(u)
  <2>1. About(cheatReports, u) = {}
    BY DEF ReportsInit, About
  <2>2. CountRecent(cheatReports, u) = 0
    BY <2>1, FS_EmptySet DEF CountRecent
  <2> QED BY <2>2 DEF CooldownDue, IsDue, ReportsAssumption
<1> QED BY <1>1, <1>2 DEF ReportsInit, ReportsInv

\* Any number of requests at a time: whoever has enough recent reports had a cooldown begin after
\* the last of them, once nobody works on it, and nobody is in one who never had enough of them at
\* a time, whatever the threshold and the window; and a recording and its row belong together
\* (ReportCheat and ReportBug of reports_service.go).
THEOREM CooldownAlwaysFollows ==
  ASSUME ReportsAssumption
  PROVE  ReportsSpec => []CooldownFollowsReports
<1>1. ReportsInit /\ faults = 0 => ReportsInv
  BY ReportsInitInv
<1>2. ReportsInv /\ [ReportsNext]_<<reportsVars, faults>> => ReportsInv'
  BY ReportsStep
<1>3. ReportsInv => CooldownFollowsReports
  BY DEF ReportsInv, CooldownFollowsReports, CooldownDue, IsDue, Asks, Recorded
<1> QED BY <1>1, <1>2, <1>3, PTL DEF ReportsSpec

\* The window takes the matches a player was reported in. One at least as long as the threshold,
\* as the service's is (lastNMatches = 10, threshold 5), excludes nobody from a cooldown: that many
\* reports in all are that many recent ones (CountRecentCheatReports of cheat_repository.go).
THEOREM WindowIsIdle ==
  ASSUME ReportsAssumption, Threshold <= LastNMatches, NEW rows \in Seq(CheatReport), NEW u
  PROVE  CountRecent(rows, u) >= Threshold <=> Cardinality(About(rows, u)) >= Threshold
<1> DEFINE A == About(rows, u)
           counted == {i \in A : rows[i].match \in Recent(rows, u)}
           later(i) == {k \in A : k > i}
           matches(i) == {rows[j].match : j \in later(i)}
<1>1. /\ IsFiniteSet(A) /\ Cardinality(A) \in Nat /\ A \subseteq 1..Len(rows)
      /\ CountRecent(rows, u) \in Nat /\ CountRecent(rows, u) <= Cardinality(A)
      /\ Threshold \in Nat /\ LastNMatches \in Nat
  BY AboutCounts DEF About, ReportsAssumption
<1>2. CountRecent(rows, u) = Cardinality(counted) /\ counted \subseteq A
  BY DEF CountRecent
<1>3. \A i \in A : rows[i].match \in Matches
  <2>1. \A i \in A : i \in 1..Len(rows)
    BY DEF About
  <2>2. \A i \in 1..Len(rows) : rows[i] \in CheatReport
    OBVIOUS
  <2> QED BY <2>1, <2>2 DEF CheatReport
\* The latest report that is not counted is followed by counted ones of enough matches.
<1>4. ASSUME counted # A
      PROVE  CountRecent(rows, u) >= Threshold
  <2> DEFINE dropped == A \ counted
  <2>1. PICK i \in dropped : \A k \in dropped : k <= i
    <3>1. dropped # {} /\ dropped \in SUBSET Nat /\ IsFiniteSet(A) /\ dropped \in SUBSET A
      BY <1>1, <1>2, <1>4
    <3> HIDE DEF dropped, A
    <3>2. IsFiniteSet(dropped)
      BY <3>1, FS_Subset
    <3> QED BY <3>1, <3>2, HasLargest
  <2>2. later(i) \subseteq counted
    BY <1>1, <2>1
  <2>3. IsFiniteSet(later(i)) /\ Cardinality(later(i)) \in Nat
        /\ IsFiniteSet(counted) /\ Cardinality(counted) \in Nat
        /\ Cardinality(later(i)) <= Cardinality(counted)
    <3>1. IsFiniteSet(counted) /\ Cardinality(counted) \in Nat
      <4> HIDE DEF counted, A
      <4> QED BY <1>1, <1>2, FS_Subset, FS_CardinalityType
    <3> HIDE DEF later, counted
    <3> QED BY <2>2, <3>1, FS_Subset, FS_CardinalityType
  <2>4. /\ IsFiniteSet(matches(i)) /\ Cardinality(matches(i)) \in Nat
        /\ Cardinality(matches(i)) <= Cardinality(later(i))
    <3> DEFINE f == [j \in later(i) |-> rows[j].match]
    <3>1. f \in Surjection(later(i), matches(i))
      BY DEF Surjection
    <3> HIDE DEF f, later, matches
    <3> QED BY <2>3, <3>1, FS_Surjection, FS_CardinalityType
  <2>5. PICK m : m = rows[i].match /\ ~(Cardinality(matches(i) \ {m}) < LastNMatches)
    BY <1>3, <2>1 DEF Recent
  <2>6. /\ Cardinality(matches(i) \ {m}) \in Nat
        /\ Cardinality(matches(i) \ {m}) <= Cardinality(matches(i))
    <3> HIDE DEF matches
    <3> QED BY <2>4, FS_Subset, FS_CardinalityType
  <2> HIDE DEF A, counted, later, matches
  <2> QED BY <1>1, <1>2, <2>3, <2>4, <2>5, <2>6
<1>5. ASSUME counted = A
      PROVE  CountRecent(rows, u) = Cardinality(A)
  BY <1>2, <1>5
<1> QED BY <1>1, <1>4, <1>5

----------------------------------------------------------------------------
(* Clips *)

\* The object of the upload w serves; 0 for none.
Mine(w) == upload[w].object
Live(i) == status[i] # "absent"

\* The types, with no bound on conversions.
ClipsTypes ==
  /\ clips \in Seq(Clip) /\ Len(clips) <= MaxUploads
  /\ status \in [Ids -> {"absent", "none", "pending", "done", "failed"}]
  /\ webms \in SUBSET Objects
  /\ mp4s \in SUBSET Ids
  /\ cphase \in [Workers -> {"idle", "put", "create", "cleanup", "evict", "remove", "claim"}]
  /\ upload \in [Workers -> Upload]
  /\ asked \in [Workers -> Ids \cup {0}]
  /\ conversions \in SUBSET [clip : Ids, claim : Nat, stage : {"encode", "put", "done", "failed"}]
  /\ uploads \in 0..MaxUploads
  /\ claims \in Nat
  /\ unanswered \in SUBSET Objects
  /\ faults \in Nat

\* Every row has an object of its own, and so has every upload.
RowsOK ==
  /\ \A i, j \in DOMAIN clips : clips[i].object = clips[j].object => i = j
  /\ \A i \in DOMAIN clips : clips[i].object <= uploads
  /\ \A i \in Ids : Live(i) => i \in DOMAIN clips
NumbersOK ==
  /\ \A w \in Workers : Mine(w) <= uploads
  /\ \A v, w \in Workers : v # w /\ Mine(v) # 0 => Mine(v) # Mine(w)

Evicted(k) == \E i \in DOMAIN clips : clips[i].object = k /\ ~Live(i)
UploadOK(w) ==
  /\ cphase[w] \in {"put", "create", "cleanup", "evict", "remove"} =>
       upload[w].owner \in Owners /\ Mine(w) # 0
  /\ cphase[w] \in {"idle", "claim"} => upload[w] = NoUpload
  /\ cphase[w] # "remove" => upload[w].evicted = {}
  /\ cphase[w] \in {"put", "create"} => \A i \in DOMAIN clips : clips[i].object # Mine(w)
  /\ cphase[w] = "create" => Mine(w) \in webms
  /\ cphase[w] = "cleanup" => \A i \in DOMAIN clips : clips[i].object = Mine(w) => Mine(w) \in unanswered
  /\ \A k \in upload[w].evicted : Evicted(k)

\* The parts of ClipsMatchFiles.
LinksOK == \A i \in Ids : Live(i) /\ clips[i].object \notin unanswered => clips[i].object \in webms
Held(k) ==
  \/ \E i \in DOMAIN clips : clips[i].object = k /\ Live(i)
  \/ \E w \in Workers : cphase[w] = "create" /\ Mine(w) = k
  \/ \E w \in Workers : k \in upload[w].evicted
Newer(i) == {j \in DOMAIN clips : j > i /\ clips[j].owner = clips[i].owner}
EvictionsOK == \A i \in DOMAIN clips : ~Live(i) => Cardinality(Newer(i)) >= MaxClipsPerUser
Within(u) ==
  \/ Cardinality(ClipsOf(u)) <= MaxClipsPerUser
  \/ \E w \in Workers : cphase[w] = "evict" /\ upload[w].owner = u
FilesOK ==
  /\ RowsOK /\ NumbersOK /\ LinksOK /\ EvictionsOK
  /\ \A w \in Workers : UploadOK(w)
  /\ faults = 0 => \A k \in webms : Held(k)
  /\ faults = 0 => \A u \in Owners : Within(u)

\* Who works on which clip.
ConversionsOK ==
  /\ \A c, d \in conversions : c.clip = d.clip => c = d
  /\ \A c \in conversions : status[c.clip] \in {"pending", "absent"} /\ c.clip \in DOMAIN clips
  /\ \A c \in conversions : c.stage = "done" => c.clip \in mp4s
  /\ faults = 0 => \A i \in Ids : status[i] = "pending" => \E c \in conversions : c.clip = i
  /\ \A i \in Ids : status[i] = "done" => i \in mp4s

ClipsInv == ClipsTypes /\ FilesOK /\ ConversionsOK

\* Of finitely many numbers, no more than n have fewer than n others above them.
LEMMA TopFew ==
  ASSUME NEW S \in SUBSET Nat, IsFiniteSet(S), NEW n \in Nat
  PROVE  Cardinality({i \in S : ~(Cardinality({j \in S : j > i}) >= n)}) <= n
<1> DEFINE above(i) == {j \in S : j > i}
           T == {i \in S : ~(Cardinality(above(i)) >= n)}
<1>1. T \in SUBSET S /\ IsFiniteSet(T) /\ Cardinality(T) \in Nat
  <2>1. T \in SUBSET S
    OBVIOUS
  <2> HIDE DEF T
  <2> QED BY <2>1, FS_Subset, FS_CardinalityType
<1>2. CASE T = {}
  <2> HIDE DEF T, above
  <2>1. Cardinality(T) <= n
    BY <1>2, FS_EmptySet
  <2> QED BY <2>1 DEF T, above
<1>3. CASE T # {}
  <2>1. PICK M \in T : \A x \in T : x <= M
    <3> HIDE DEF T
    <3> QED BY <1>1, <1>3, HasLargest
  <2> DEFINE D == {M - x : x \in T}
  <2>2. M \in Nat /\ \A x \in T : x \in Nat /\ M - x \in Nat /\ M - x <= M
    BY <2>1
  <2>3. D \in SUBSET Nat /\ D # {} /\ \A d \in D : d <= M
    <3> HIDE DEF T
    <3> QED BY <1>3, <2>2
  <2>4. IsFiniteSet(D)
    <3> HIDE DEF D
    <3> QED BY <2>2, <2>3, FS_BoundedSetOfNaturals
  <2>5. PICK d \in D : \A x \in D : x <= d
    <3> HIDE DEF D
    <3> QED BY <2>3, <2>4, HasLargest
  <2>6. PICK m \in T : d = M - m
    <3> HIDE DEF T
    <3> QED BY <2>5
  <2>7. \A x \in T : m <= x
    <3> SUFFICES ASSUME NEW x \in T
                 PROVE  m <= x
      OBVIOUS
    <3>1. M - x <= M - m
      <4> HIDE DEF T
      <4> QED BY <2>5, <2>6
    <3> HIDE DEF T
    <3> QED BY <2>2, <3>1
  <2>8. m \in S /\ ~(Cardinality(above(m)) >= n)
    BY <2>6
  <2>9. T \ {m} \in SUBSET above(m)
    <3>1. ASSUME NEW x \in T \ {m}
          PROVE  x \in S /\ x > m
      <4>1. x \in S /\ x \in Nat /\ m \in Nat
        BY <3>1, <2>8
      <4>2. m <= x /\ x # m
        BY <2>7, <3>1
      <4> QED BY <4>1, <4>2
    <3> QED BY <3>1
  <2>10. IsFiniteSet(above(m)) /\ Cardinality(above(m)) \in Nat
    <3>1. above(m) \in SUBSET S
      OBVIOUS
    <3> HIDE DEF above
    <3> QED BY <3>1, FS_Subset, FS_CardinalityType
  <2> HIDE DEF T, above
  <2>11. Cardinality(T \ {m}) <= Cardinality(above(m))
    BY <2>9, <2>10, FS_Subset
  <2>12. Cardinality(T \ {m}) = Cardinality(T) - 1
    BY <1>1, <2>6, FS_RemoveElement
  <2>13. Cardinality(T) <= n
    BY <1>1, <2>8, <2>10, <2>11, <2>12
  <2> QED BY <2>13 DEF T, above
<1> QED BY <1>2, <1>3

\* Rows with objects of their own are no more than there are objects.
LEMMA RowsFit ==
  ASSUME NEW s \in Seq(Clip), NEW n \in Nat,
         \A i, j \in DOMAIN s : s[i].object = s[j].object => i = j,
         \A i \in DOMAIN s : s[i].object \in 1..n
  PROVE  Len(s) <= n
<1> DEFINE f == [i \in 1..Len(s) |-> s[i].object]
<1>1. PICK m \in Nat : m = Len(s) /\ DOMAIN s = 1..m
  OBVIOUS
<1>2. f \in Injection(1..m, 1..n)
  BY <1>1 DEF Injection, IsInjective
<1>3. IsFiniteSet(1..m) /\ IsFiniteSet(1..n) /\ Cardinality(1..m) = m /\ Cardinality(1..n) = n
  <2>1. /\ IsFiniteSet(1..m) /\ Cardinality(1..m) = (IF 1 > m THEN 0 ELSE m - 1 + 1)
        /\ IsFiniteSet(1..n) /\ Cardinality(1..n) = (IF 1 > n THEN 0 ELSE n - 1 + 1)
    BY FS_Interval
  <2> QED BY <2>1
<1>4. Cardinality(1..m) <= Cardinality(1..n)
  <2> HIDE DEF f
  <2> QED BY <1>2, <1>3, FS_Injection
<1> QED BY <1>1, <1>3, <1>4

\* The rows of a user can be counted.
LEMMA RowsCount ==
  ASSUME ClipsTypes, NEW T \in SUBSET DOMAIN clips
  PROVE  T \in SUBSET Nat /\ IsFiniteSet(T) /\ Cardinality(T) \in Nat
<1>1. PICK n \in Nat : DOMAIN clips = 1..n
  BY DEF ClipsTypes
<1>2. IsFiniteSet(1..n)
  BY FS_Interval
<1>3. IsFiniteSet(T)
  BY <1>1, <1>2, FS_Subset
<1> QED BY <1>1, <1>3, FS_CardinalityType

LEMMA RowIs ==
  ASSUME ClipsAssumption, ClipsTypes, NEW i \in DOMAIN clips
  PROVE  /\ clips[i] \in Clip /\ clips[i].owner \in Owners
         /\ clips[i].object \in Objects /\ clips[i].object \in Nat /\ clips[i].object # 0
<1>1. clips[i] \in Clip
  BY DEF ClipsTypes
<1>2. clips[i].owner \in Owners /\ clips[i].object \in 1..MaxUploads
  BY <1>1 DEF Clip, Objects
<1> QED BY <1>1, <1>2 DEF ClipsAssumption, Objects

\* A step of one upload that changes no row. What it deletes no row leads to, and nobody records.
LEMMA RowsStay ==
  ASSUME ClipsAssumption, ClipsInv, NEW w \in Workers, ClipsTypes',
         UNCHANGED <<clips, status, mp4s, conversions, unanswered>>,
         faults' = 0 => faults = 0, uploads <= uploads',
         cphase[w] = "evict" => faults' # 0,
         \A v \in Workers \ {w} : cphase'[v] = cphase[v] /\ upload'[v] = upload[v],
         UploadOK(w)',
         Mine(w)' <= uploads',
         Mine(w)' # 0 => \A v \in Workers \ {w} : Mine(v) # Mine(w)',
         \A k \in webms \ webms' :
           /\ \A i \in DOMAIN clips : clips[i].object = k => ~Live(i) \/ k \in unanswered
           /\ \A v \in Workers \ {w} : cphase[v] = "create" => Mine(v) # k,
         faults' = 0 => \A k \in webms' : Held(k)'
  PROVE  ClipsInv'
<1>1. uploads \in Nat /\ uploads' \in Nat /\ ClipsTypes
  BY DEF ClipsInv, ClipsTypes
<1>2. \A i \in DOMAIN clips : clips[i].object \in Nat
  BY <1>1, RowIs
<1>3. RowsOK'
  BY <1>1, <1>2 DEF ClipsInv, FilesOK, RowsOK, Live
<1>4. \A v \in Workers : Mine(v) \in Nat
  BY <1>1 DEF ClipsTypes, Upload, Mine
<1>5. \A v \in Workers \ {w} : Mine(v)' = Mine(v)
  BY DEF Mine
<1>6. NumbersOK'
  <2>1. \A v \in Workers : Mine(v)' <= uploads'
    BY <1>1, <1>4, <1>5 DEF ClipsInv, FilesOK, NumbersOK
  <2>2. ASSUME NEW v \in Workers, NEW x \in Workers, v # x, Mine(v)' # 0
        PROVE  Mine(v)' # Mine(x)'
    BY <1>5, <2>2 DEF ClipsInv, FilesOK, NumbersOK
  <2> QED BY <2>1, <2>2 DEF NumbersOK
<1>7. LinksOK'
  BY DEF ClipsInv, FilesOK, LinksOK, RowsOK, Live
<1>8. EvictionsOK'
  BY DEF ClipsInv, FilesOK, EvictionsOK, Newer, Live
<1>9. ASSUME NEW v \in Workers
      PROVE  UploadOK(v)'
  <2>1. CASE v # w
    <3>1. UploadOK(v) /\ Mine(v)' = Mine(v) /\ cphase'[v] = cphase[v] /\ upload'[v] = upload[v]
      BY <1>5, <2>1 DEF ClipsInv, FilesOK
    <3>2. cphase[v] = "create" => Mine(v) \in webms'
      BY <2>1, <3>1 DEF UploadOK
    <3>3. \A k : Evicted(k) => Evicted(k)'
      BY DEF Evicted, Live
    <3> QED BY <3>1, <3>2, <3>3 DEF UploadOK
  <2> QED BY <2>1
<1>10. ASSUME faults' = 0, NEW u \in Owners
       PROVE  Within(u)'
  <2>1. ClipsOf(u)' = ClipsOf(u) /\ Within(u)
    BY <1>10 DEF ClipsInv, FilesOK, ClipsOf, Owns
  <2>2. \A v \in Workers : cphase[v] = "evict" => cphase'[v] = "evict" /\ upload'[v] = upload[v]
    BY <1>10
  <2> QED BY <2>1, <2>2 DEF Within
<1>11. ConversionsOK'
  BY DEF ClipsInv, ConversionsOK
<1> QED BY <1>3, <1>6, <1>7, <1>8, <1>9, <1>10, <1>11 DEF ClipsInv, FilesOK

\* Who held an object holds it still, but for the upload that takes the step.
LEMMA HeldKept ==
  ASSUME NEW w \in Workers, UNCHANGED <<clips, status>>, NEW k, Held(k),
         cphase[w] # "create", k \notin upload[w].evicted,
         \A v \in Workers \ {w} : cphase'[v] = cphase[v] /\ upload'[v] = upload[v]
  PROVE  Held(k)'
BY DEF Held, Live, Mine

\* The locals of one request.
LEMMA UploadTypes ==
  ASSUME ClipsTypes, NEW w \in Workers, NEW p, Goto(w, p), NEW t \in Upload, upload' = [upload EXCEPT ![w] = t],
         p \in {"idle", "put", "create", "cleanup", "evict", "remove", "claim"}
  PROVE  /\ cphase' \in [Workers -> {"idle", "put", "create", "cleanup", "evict", "remove", "claim"}]
         /\ upload' \in [Workers -> Upload]
         /\ cphase'[w] = p /\ upload'[w] = t
         /\ \A v \in Workers \ {w} : cphase'[v] = cphase[v] /\ upload'[v] = upload[v]
BY DEF ClipsTypes, Goto

LEMMA NoUploadTypes ==
  ASSUME ClipsAssumption
  PROVE  NoUpload \in Upload /\ NoUpload.object = 0 /\ NoUpload.evicted = {} /\ NoUpload.owner = None
BY DEF ClipsAssumption, NoUpload, Upload

LEMMA UploadEnds ==
  ASSUME ClipsAssumption, ClipsTypes, NEW w \in Workers, EndUpload(w)
  PROVE  /\ cphase' \in [Workers -> {"idle", "put", "create", "cleanup", "evict", "remove", "claim"}]
         /\ upload' \in [Workers -> Upload]
         /\ cphase'[w] = "idle" /\ upload'[w] = NoUpload /\ Mine(w)' = 0 /\ UploadOK(w)'
         /\ \A v \in Workers \ {w} : cphase'[v] = cphase[v] /\ upload'[v] = upload[v]
<1>1. /\ cphase' \in [Workers -> {"idle", "put", "create", "cleanup", "evict", "remove", "claim"}]
      /\ upload' \in [Workers -> Upload]
      /\ cphase'[w] = "idle" /\ upload'[w] = NoUpload
      /\ \A v \in Workers \ {w} : cphase'[v] = cphase[v] /\ upload'[v] = upload[v]
  BY NoUploadTypes, UploadTypes DEF EndUpload
<1>2. Mine(w)' = 0
  BY <1>1, NoUploadTypes DEF Mine
<1>3. UploadOK(w)'
  BY <1>1, NoUploadTypes DEF UploadOK
<1> QED BY <1>1, <1>2, <1>3

\* What a request knows of its upload.
LEMMA UploadIs ==
  ASSUME ClipsInv, NEW w \in Workers
  PROVE  /\ ClipsTypes /\ UploadOK(w) /\ upload[w] \in Upload /\ faults \in Nat
         /\ upload[w].evicted \subseteq Objects
         /\ Mine(w) \in Nat /\ Mine(w) \in 0..MaxUploads /\ Mine(w) <= uploads /\ uploads \in Nat /\ uploads <= MaxUploads
         /\ \A v \in Workers \ {w} : Mine(w) # 0 => Mine(v) # Mine(w)
<1>1. ClipsTypes /\ UploadOK(w) /\ upload[w] \in Upload /\ uploads \in Nat /\ faults \in Nat
  BY DEF ClipsInv, ClipsTypes, FilesOK
<1>2. Mine(w) \in 0..MaxUploads /\ Mine(w) \in Nat /\ upload[w].evicted \subseteq Objects
  BY <1>1 DEF Upload, Mine, Objects
<1>3. uploads <= MaxUploads
  BY <1>1 DEF ClipsTypes
<1> QED BY <1>1, <1>2, <1>3 DEF ClipsInv, FilesOK, NumbersOK

LEMMA UploadMade ==
  ASSUME NEW x \in Owners \cup {None}, NEW y \in 0..MaxUploads, NEW z \in SUBSET Objects
  PROVE  [owner |-> x, object |-> y, evicted |-> z] \in Upload
BY DEF Upload

LEMMA UploadSet ==
  ASSUME NEW x, NEW y
  PROVE  [NoUpload EXCEPT !.owner = x, !.object = y] = [owner |-> x, object |-> y, evicted |-> {}]
<1> PICK t : t = [NoUpload EXCEPT !.owner = x, !.object = y]
  OBVIOUS
<1>1. t = [owner |-> x, object |-> y, evicted |-> {}]
  BY DEF NoUpload
<1> QED BY <1>1

LEMMA ClipsBegin ==
  ASSUME ClipsAssumption, ClipsInv, NEW w \in Workers, NEW u \in Owners, BeginUpload(w, u)
  PROVE  ClipsInv'
<1> PICK n : n = uploads + 1
  OBVIOUS
<1> PICK t : t = [owner |-> u, object |-> n, evicted |-> {}]
  OBVIOUS
<1>1. /\ cphase[w] = "idle" /\ uploads' = n /\ uploads < MaxUploads
      /\ upload' = [upload EXCEPT ![w] = [NoUpload EXCEPT !.owner = u, !.object = n]] /\ Goto(w, "put")
      /\ UNCHANGED <<clips, status, webms, mp4s, asked, conversions, claims, unanswered, faults>>
  BY DEF BeginUpload
<1>2. ClipsTypes /\ uploads \in Nat /\ n \in 0..MaxUploads /\ n \in Nat /\ n # 0
  BY <1>1, UploadIs DEF ClipsAssumption
<1>3. upload' = [upload EXCEPT ![w] = t]
  <2>1. [NoUpload EXCEPT !.owner = u, !.object = n] = t
    BY UploadSet
  <2> QED BY <1>1, <2>1
<1>4. t \in Upload /\ t.object = n /\ t.evicted = {} /\ t.owner = u
  <2>1. [owner |-> u, object |-> n, evicted |-> {}] \in Upload
    BY <1>2, UploadMade
  <2> QED BY <2>1
<1>5. /\ cphase' \in [Workers -> {"idle", "put", "create", "cleanup", "evict", "remove", "claim"}]
      /\ upload' \in [Workers -> Upload]
      /\ cphase'[w] = "put" /\ upload'[w] = t
      /\ \A v \in Workers \ {w} : cphase'[v] = cphase[v] /\ upload'[v] = upload[v]
  <2>1. ClipsTypes /\ Goto(w, "put") /\ t \in Upload /\ upload' = [upload EXCEPT ![w] = t]
    BY <1>1, <1>2, <1>3, <1>4
  <2> QED BY <2>1, UploadTypes
<1>6. ClipsTypes'
  BY <1>1, <1>2, <1>5 DEF ClipsTypes
<1>7. Mine(w)' = n
  BY <1>4, <1>5 DEF Mine
<1>8. \A v \in Workers : Mine(v) # n
  BY <1>2, UploadIs
<1>9. \A i \in DOMAIN clips : clips[i].object # n
  <2>1. \A i \in DOMAIN clips : clips[i].object \in Nat /\ clips[i].object <= uploads
    BY <1>2, RowIs DEF ClipsInv, FilesOK, RowsOK
  <2> QED BY <1>2, <2>1
<1>10. UploadOK(w)'
  BY <1>1, <1>2, <1>4, <1>5, <1>7, <1>9 DEF UploadOK
<1>11. upload[w].evicted = {}
  BY <1>1 DEF ClipsInv, FilesOK, UploadOK
<1>12. faults' = 0 => \A k \in webms' : Held(k)'
  BY <1>1, <1>5, <1>11, HeldKept DEF ClipsInv, FilesOK
<1> QED BY <1>1, <1>2, <1>5, <1>6, <1>7, <1>8, <1>10, <1>12, RowsStay

LEMMA ClipsPut ==
  ASSUME ClipsAssumption, ClipsInv, NEW w \in Workers, PutClip(w)
  PROVE  ClipsInv'
<1>1. /\ cphase[w] = "put" /\ webms' \in {webms, webms \cup {Mine(w)}}
      /\ UNCHANGED <<clips, status, mp4s, asked, conversions, uploads, claims, unanswered>>
  BY DEF PutClip, Mine
<1>2. /\ ClipsTypes /\ Mine(w) # 0 /\ Mine(w) \in Objects /\ upload[w].evicted = {} /\ upload[w].owner \in Owners
      /\ \A i \in DOMAIN clips : clips[i].object # Mine(w)
  BY <1>1, UploadIs DEF UploadOK, Objects
<1>3. webms \subseteq webms' /\ webms' \in SUBSET Objects
  BY <1>1, <1>2 DEF ClipsTypes
<1>4. CASE webms' = webms \cup {Mine(w)} /\ Goto(w, "create") /\ UNCHANGED <<upload, faults>>
  <2>1. /\ cphase' \in [Workers -> {"idle", "put", "create", "cleanup", "evict", "remove", "claim"}]
        /\ cphase'[w] = "create"
        /\ \A v \in Workers \ {w} : cphase'[v] = cphase[v] /\ upload'[v] = upload[v]
    BY <1>2, <1>4 DEF Goto, ClipsTypes
  <2>2. ClipsTypes'
    BY <1>1, <1>2, <1>3, <1>4, <2>1 DEF ClipsTypes
  <2>3. Mine(w)' = Mine(w) /\ upload'[w] = upload[w]
    BY <1>4 DEF Mine
  <2>4. UploadOK(w)'
    BY <1>1, <1>2, <1>4, <2>1, <2>3 DEF UploadOK
  <2>5. ASSUME faults' = 0, NEW k \in webms'
        PROVE  Held(k)'
    <3>1. CASE k = Mine(w)
      BY <2>1, <2>3, <3>1 DEF Held
    <3>2. CASE k \in webms
      BY <1>1, <1>2, <1>4, <2>1, <2>5, <3>2, HeldKept DEF ClipsInv, FilesOK
    <3> QED BY <1>4, <2>5, <3>1, <3>2
  <2> QED BY <1>1, <1>2, <1>3, <1>4, <2>1, <2>2, <2>3, <2>4, <2>5, UploadIs, RowsStay
<1>5. CASE Fault /\ EndUpload(w)
  <2>1. faults' # 0 /\ faults' \in Nat
    BY <1>2, <1>5, FaultCounts DEF ClipsTypes
  <2>2. /\ cphase' \in [Workers -> {"idle", "put", "create", "cleanup", "evict", "remove", "claim"}]
        /\ upload' \in [Workers -> Upload]
        /\ Mine(w)' = 0 /\ UploadOK(w)'
        /\ \A v \in Workers \ {w} : cphase'[v] = cphase[v] /\ upload'[v] = upload[v]
    BY <1>2, <1>5, UploadEnds
  <2>3. ClipsTypes'
    BY <1>1, <1>2, <1>3, <2>1, <2>2 DEF ClipsTypes
  <2> QED BY <1>1, <1>3, <2>1, <2>2, <2>3, UploadIs, RowsStay
<1> QED BY <1>4, <1>5 DEF PutClip, Mine

LEMMA ClipsCleanUp ==
  ASSUME ClipsAssumption, ClipsInv, NEW w \in Workers, CleanUp(w)
  PROVE  ClipsInv'
<1>1. /\ cphase[w] = "cleanup" /\ EndUpload(w) /\ webms' \in {webms, webms \ {Mine(w)}}
      /\ UNCHANGED <<clips, status, mp4s, asked, conversions, uploads, claims, unanswered>>
      /\ Fault \/ UNCHANGED faults
  BY DEF CleanUp, Mine
<1>2. /\ ClipsTypes /\ Mine(w) # 0 /\ upload[w].evicted = {} /\ faults \in Nat
      /\ \A i \in DOMAIN clips : clips[i].object = Mine(w) => Mine(w) \in unanswered
      /\ \A v \in Workers \ {w} : Mine(v) # Mine(w)
  BY <1>1, UploadIs DEF UploadOK
<1>3. faults' \in Nat /\ (faults' = 0 => faults = 0)
  BY <1>1, <1>2, FaultCounts
<1>4. /\ cphase' \in [Workers -> {"idle", "put", "create", "cleanup", "evict", "remove", "claim"}]
      /\ upload' \in [Workers -> Upload]
      /\ Mine(w)' = 0 /\ UploadOK(w)'
      /\ \A v \in Workers \ {w} : cphase'[v] = cphase[v] /\ upload'[v] = upload[v]
  BY <1>1, <1>2, UploadEnds
<1>5. ClipsTypes'
  BY <1>1, <1>2, <1>3, <1>4 DEF ClipsTypes
<1>6. webms \ webms' \subseteq {Mine(w)} /\ webms' \subseteq webms
  BY <1>1
<1>7. faults' = 0 => \A k \in webms' : Held(k)'
  BY <1>1, <1>2, <1>3, <1>4, <1>6, HeldKept DEF ClipsInv, FilesOK
<1> QED BY <1>1, <1>2, <1>3, <1>4, <1>5, <1>6, <1>7, UploadIs, RowsStay

LEMMA ClipsRemove ==
  ASSUME ClipsAssumption, ClipsInv, NEW w \in Workers, RemoveEvicted(w)
  PROVE  ClipsInv'
<1>1. /\ cphase[w] = "remove" /\ ClipsTypes /\ UploadOK(w) /\ faults \in Nat
      /\ UNCHANGED <<clips, status, mp4s, asked, conversions, uploads, claims, unanswered>>
  BY UploadIs DEF RemoveEvicted
<1>2. CASE upload[w].evicted = {} /\ EndUpload(w) /\ UNCHANGED <<webms, faults>>
  <2>1. /\ cphase' \in [Workers -> {"idle", "put", "create", "cleanup", "evict", "remove", "claim"}]
        /\ upload' \in [Workers -> Upload]
        /\ Mine(w)' = 0 /\ UploadOK(w)'
        /\ \A v \in Workers \ {w} : cphase'[v] = cphase[v] /\ upload'[v] = upload[v]
    BY <1>1, <1>2, UploadEnds
  <2>2. ClipsTypes'
    BY <1>1, <1>2, <2>1 DEF ClipsTypes
  <2>3. faults' = 0 => \A k \in webms' : Held(k)'
    BY <1>1, <1>2, <2>1, HeldKept DEF ClipsInv, FilesOK
  <2> QED BY <1>1, <1>2, <2>1, <2>2, <2>3, UploadIs, RowsStay
<1>3. ASSUME NEW k \in upload[w].evicted,
             upload' = [upload EXCEPT ![w].evicted = @ \ {k}], UNCHANGED cphase,
             \/ webms' = webms \ {k} /\ UNCHANGED faults
             \/ Fault /\ UNCHANGED webms
      PROVE  ClipsInv'
  <2> PICK t : t = [upload[w] EXCEPT !.evicted = @ \ {k}]
    OBVIOUS
  <2>1. /\ t \in Upload /\ t.owner = upload[w].owner /\ t.object = Mine(w)
        /\ t.evicted = upload[w].evicted \ {k}
    <3>1. upload[w] \in Upload
      BY UploadIs
    <3>2. t = [owner |-> upload[w].owner, object |-> upload[w].object, evicted |-> upload[w].evicted \ {k}]
      BY <3>1 DEF Upload
    <3> QED BY <3>1, <3>2 DEF Upload, Mine
  <2>2. upload' = [upload EXCEPT ![w] = t]
    BY <1>3
  <2>3. /\ upload' \in [Workers -> Upload] /\ upload'[w] = t
        /\ \A v \in Workers \ {w} : cphase'[v] = cphase[v] /\ upload'[v] = upload[v]
    BY <1>1, <1>3, <2>1, <2>2 DEF ClipsTypes
  <2>4. faults' \in Nat /\ (faults' = 0 => faults = 0 /\ webms' = webms \ {k})
    BY <1>1, <1>3, FaultCounts
  <2>5. webms' \subseteq webms /\ webms \ webms' \subseteq {k}
    BY <1>3
  <2>6. ClipsTypes'
    BY <1>1, <1>3, <2>3, <2>4, <2>5 DEF ClipsTypes
  <2>7. Mine(w)' = Mine(w) /\ cphase'[w] = "remove"
    BY <1>1, <1>3, <2>1, <2>3 DEF Mine
  <2>8. UploadOK(w)'
    <3>1. \A x \in upload'[w].evicted : Evicted(x)'
      BY <1>1, <2>1, <2>3 DEF UploadOK, Evicted, Live
    <3> QED BY <1>1, <2>1, <2>3, <2>7, <3>1 DEF UploadOK
  <2>9. Evicted(k)
    BY <1>1, <1>3 DEF UploadOK
  <2>10. \A i \in DOMAIN clips : clips[i].object = k => ~Live(i)
    BY <2>9 DEF Evicted, ClipsInv, FilesOK, RowsOK
  <2>11. \A v \in Workers : cphase[v] = "create" => Mine(v) # k
    BY <2>9 DEF Evicted, ClipsInv, FilesOK, UploadOK
  <2>12. ASSUME faults' = 0, NEW x \in webms'
         PROVE  Held(x)'
    <3>1. x # k /\ Held(x)
      BY <2>4, <2>12 DEF ClipsInv, FilesOK
    <3>2. CASE x \in upload[w].evicted
      <4>1. x \in upload'[w].evicted
        BY <2>1, <2>3, <3>1, <3>2
      <4> QED BY <4>1 DEF Held
    <3>3. CASE x \notin upload[w].evicted
      BY <1>1, <2>3, <3>1, <3>3, HeldKept
    <3> QED BY <3>2, <3>3
  <2> QED BY <1>1, <2>3, <2>4, <2>5, <2>6, <2>7, <2>8, <2>10, <2>11, <2>12, UploadIs, RowsStay
<1> QED BY <1>2, <1>3 DEF RemoveEvicted

\* A step of one upload that records a row.
LEMMA RowRecorded ==
  ASSUME ClipsAssumption, ClipsInv, NEW w \in Workers, InsertRow(w), cphase[w] = "create",
         faults' \in Nat, NEW p \in {"evict", "cleanup"}, Goto(w, p),
         unanswered' \in {unanswered, unanswered \cup {Mine(w)}}, p = "cleanup" => Mine(w) \in unanswered',
         faults' = 0 => faults = 0 /\ p = "evict",
         UNCHANGED <<webms, mp4s, upload, asked, conversions, uploads, claims>>
  PROVE  ClipsInv'
<1> DEFINE row == [object |-> Mine(w), owner |-> upload[w].owner]
<1>1. PICK n \in Nat : n = Len(clips) /\ DOMAIN clips = 1..n
  BY UploadIs DEF ClipsTypes
<1>2. /\ ClipsTypes /\ UploadOK(w) /\ Mine(w) # 0 /\ Mine(w) \in Objects /\ Mine(w) <= uploads
      /\ upload[w].owner \in Owners /\ Mine(w) \in webms /\ upload[w].evicted = {}
      /\ \A i \in DOMAIN clips : clips[i].object # Mine(w)
      /\ uploads \in Nat /\ uploads <= MaxUploads
  BY UploadIs DEF UploadOK, Objects
<1>3. row \in Clip
  BY <1>2 DEF Clip
<1>4. clips' = Append(clips, row) /\ status' = [status EXCEPT ![n + 1] = "none"]
  BY <1>1 DEF InsertRow, Mine
<1>5. /\ clips' \in Seq(Clip) /\ Len(clips') = n + 1 /\ DOMAIN clips' = 1..(n + 1)
      /\ \A i \in 1..n : clips'[i] = clips[i]
      /\ clips'[n + 1] = row
  <2> HIDE DEF row
  <2> QED BY <1>1, <1>2, <1>3, <1>4 DEF ClipsTypes
<1>6. /\ \A i \in 1..n : i \in 1..(n + 1) /\ i # n + 1
      /\ \A i \in 1..(n + 1) : i = n + 1 \/ i \in 1..n
      /\ n + 1 \in 1..(n + 1)
  BY <1>1
<1>7. clips'[n + 1].object = Mine(w) /\ clips'[n + 1].owner = upload[w].owner
  BY <1>5
<1> HIDE DEF row
<1>8. \A i, j \in 1..(n + 1) : clips'[i].object = clips'[j].object => i = j
  BY SMTT(60), <1>1, <1>2, <1>5, <1>6, <1>7 DEF ClipsInv, FilesOK, RowsOK
<1>9. \A i \in 1..(n + 1) : clips'[i].object \in 1..uploads /\ clips'[i].object <= uploads
  <2>1. \A i \in 1..n : clips[i].object \in Nat /\ clips[i].object # 0 /\ clips[i].object <= uploads
    BY <1>1, <1>2, RowIs DEF ClipsInv, FilesOK, RowsOK
  <2>2. \A i \in 1..n : clips'[i].object \in 1..uploads /\ clips'[i].object <= uploads
    BY <1>2, <1>5, <2>1
  <2>3. clips'[n + 1].object \in 1..uploads /\ clips'[n + 1].object <= uploads
    BY <1>2, <1>7 DEF Objects
  <2> QED BY <1>6, <2>2, <2>3
<1>10. n + 1 <= uploads /\ n + 1 \in Ids
  <2>1. Len(clips') <= uploads
    BY <1>2, <1>5, <1>8, <1>9, RowsFit
  <2> QED BY <1>1, <1>2, <1>5, <2>1 DEF Ids, ClipsAssumption
<1>11. ~Live(n + 1)
  BY <1>1, <1>10 DEF ClipsInv, FilesOK, RowsOK
<1>12. /\ status' \in [Ids -> {"absent", "none", "pending", "done", "failed"}]
       /\ status'[n + 1] = "none"
       /\ \A i \in Ids : i # n + 1 => status'[i] = status[i]
  BY <1>2, <1>4, <1>10 DEF ClipsTypes
<1>13. unanswered' \in SUBSET Objects
  BY <1>2 DEF ClipsTypes
<1>14. /\ cphase' \in [Workers -> {"idle", "put", "create", "cleanup", "evict", "remove", "claim"}]
       /\ cphase'[w] \in {"evict", "cleanup"}
       /\ cphase'[w] = "cleanup" => Mine(w) \in unanswered'
       /\ faults' = 0 => cphase'[w] = "evict"
       /\ \A v \in Workers \ {w} : cphase'[v] = cphase[v]
  BY <1>2 DEF ClipsTypes, Goto
<1>15. ClipsTypes'
  BY <1>2, <1>5, <1>10, <1>12, <1>13, <1>14 DEF ClipsTypes
<1>16. \A v \in Workers : Mine(v)' = Mine(v)
  BY DEF Mine
<1>17. RowsOK' /\ NumbersOK'
  <2>1. \A i \in Ids : Live(i)' => i \in DOMAIN clips'
    BY <1>1, <1>5, <1>6, <1>12 DEF ClipsInv, FilesOK, RowsOK, Live
  <2>2. NumbersOK'
    BY <1>16 DEF ClipsInv, FilesOK, NumbersOK
  <2> QED BY <1>5, <1>8, <1>9, <2>1, <2>2 DEF RowsOK
<1>18. LinksOK'
  <2> SUFFICES ASSUME NEW i \in Ids, Live(i)', clips'[i].object \notin unanswered'
               PROVE  clips'[i].object \in webms'
    BY DEF LinksOK
  <2>1. CASE i = n + 1
    BY <1>2, <1>7, <2>1
  <2>2. CASE i # n + 1
    <3>1. Live(i) /\ i \in 1..n
      BY <1>1, <1>12, <2>2 DEF Live, ClipsInv, FilesOK, RowsOK
    <3>2. clips'[i] = clips[i] /\ clips[i].object \notin unanswered
      BY <1>5, <3>1
    <3> QED BY <3>1, <3>2 DEF ClipsInv, FilesOK, LinksOK
  <2> QED BY <2>1, <2>2
<1>19. EvictionsOK'
  <2> SUFFICES ASSUME NEW i \in 1..(n + 1), ~Live(i)'
               PROVE  Cardinality(Newer(i)') >= MaxClipsPerUser
    BY <1>5 DEF EvictionsOK
  <2>1. i \in 1..n /\ i \in Ids /\ ~Live(i)
    <3>1. i \in 1..n
      BY <1>6, <1>12 DEF Live
    <3>2. i \in Ids
      BY <1>1, <1>2, <3>1 DEF Ids, ClipsTypes
    <3> QED BY <1>6, <1>12, <3>1, <3>2 DEF Live
  <2>2. PICK A, B : A = Newer(i) /\ B = Newer(i)'
    OBVIOUS
  <2>3. A \in SUBSET DOMAIN clips /\ B \in SUBSET DOMAIN clips'
    BY <2>2 DEF Newer
  <2>4. A \in SUBSET B
    BY <1>1, <1>5, <1>6, <2>1, <2>2 DEF Newer
  <2>5. IsFiniteSet(B)
    <3>1. B \in SUBSET (1..(n + 1)) /\ IsFiniteSet(1..(n + 1))
      <4>1. IsFiniteSet(1..(n + 1))
        BY <1>1, FS_Interval
      <4> QED BY <1>5, <2>3, <4>1
    <3> QED BY <3>1, FS_Subset
  <2>6. Cardinality(A) <= Cardinality(B) /\ Cardinality(A) \in Nat /\ Cardinality(B) \in Nat
    BY <2>4, <2>5, FS_Subset, FS_CardinalityType
  <2>7. Cardinality(A) >= MaxClipsPerUser
    BY <1>1, <2>1, <2>2 DEF ClipsInv, FilesOK, EvictionsOK
  <2>8. Cardinality(B) >= MaxClipsPerUser
    BY <2>6, <2>7 DEF ClipsAssumption
  <2> QED BY <2>2, <2>8
<1>20. ASSUME NEW v \in Workers
       PROVE  UploadOK(v)'
  <2>1. \A k : Evicted(k) => Evicted(k)'
    <3> SUFFICES ASSUME NEW k, NEW i \in 1..n, clips[i].object = k, ~Live(i)
                 PROVE  Evicted(k)'
      BY <1>1 DEF Evicted
    <3>1. i \in Ids
      BY <1>1, <1>2 DEF Ids, ClipsTypes
    <3>2. ~Live(i)' /\ clips'[i].object = k /\ i \in DOMAIN clips'
      BY <1>5, <1>6, <1>12, <3>1 DEF Live
    <3> QED BY <3>2 DEF Evicted
  <2>2. CASE v = w
    <3>1. cphase'[v] = "cleanup" => \A i \in DOMAIN clips' : clips'[i].object = Mine(v)' => Mine(v)' \in unanswered'
      BY <1>14, <1>16, <2>2
    <3> QED BY <1>2, <1>14, <1>16, <2>2, <3>1 DEF UploadOK
  <2>3. CASE v # w
    <3>1. UploadOK(v) /\ cphase'[v] = cphase[v] /\ upload'[v] = upload[v] /\ Mine(v)' = Mine(v)
      BY <1>14, <1>16, <2>3 DEF ClipsInv, FilesOK
    <3>2. Mine(w) # Mine(v)
      BY <1>2, <2>3 DEF ClipsInv, FilesOK, NumbersOK
    <3>3. \A i \in DOMAIN clips' : clips'[i].object = Mine(v) => i \in DOMAIN clips /\ clips[i].object = Mine(v)
      BY <1>1, <1>5, <1>6, <1>7, <3>2
    <3> QED BY <2>1, <3>1, <3>3 DEF UploadOK
  <2> QED BY <2>2, <2>3
<1>21. ASSUME faults' = 0, NEW k \in webms'
       PROVE  Held(k)'
  <2>1. CASE k = Mine(w)
    <3>1. Live(n + 1)' /\ n + 1 \in DOMAIN clips' /\ clips'[n + 1].object = k
      BY <1>5, <1>6, <1>7, <1>12, <2>1 DEF Live
    <3> QED BY <3>1 DEF Held
  <2>2. CASE k # Mine(w)
    <3>1. Held(k)
      BY <1>21 DEF ClipsInv, FilesOK
    <3>2. ASSUME NEW i \in 1..n, clips[i].object = k, Live(i)
          PROVE  Held(k)'
      <4>1. i \in Ids /\ i \in DOMAIN clips' /\ clips'[i].object = k
        BY <1>1, <1>2, <1>5, <1>6, <3>2 DEF Ids, ClipsTypes
      <4>2. Live(i)'
        BY <1>6, <1>12, <3>2, <4>1 DEF Live
      <4> QED BY <4>1, <4>2 DEF Held
    <3>3. ASSUME NEW v \in Workers, (cphase[v] = "create" /\ Mine(v) = k) \/ k \in upload[v].evicted
          PROVE  Held(k)'
      <4>1. v # w
        BY <1>2, <2>2, <3>3
      <4> QED BY <1>14, <1>16, <3>3, <4>1 DEF Held
    <3> QED BY <1>1, <3>1, <3>2, <3>3 DEF Held
  <2> QED BY <2>1, <2>2
<1>22. ASSUME faults' = 0, NEW u \in Owners
       PROVE  Within(u)'
  <2>1. CASE u = upload[w].owner
    BY <1>14, <1>22, <2>1 DEF Within
  <2>2. CASE u # upload[w].owner
    <3>1. ClipsOf(u)' = ClipsOf(u)
      <4>1. \A i \in 1..n : i \in Ids
        BY <1>1, <1>2 DEF Ids, ClipsTypes
      <4>2. \A i \in 1..n : Owns(u, i)' <=> Owns(u, i)
        BY <1>5, <1>6, <1>12, <4>1 DEF Owns
      <4>3. ~Owns(u, n + 1)'
        BY <1>7, <2>2 DEF Owns
      <4> QED BY <1>1, <1>5, <1>6, <4>2, <4>3 DEF ClipsOf
    <3>2. Within(u)
      BY <1>22 DEF ClipsInv, FilesOK
    <3>3. ASSUME NEW v \in Workers, cphase[v] = "evict", upload[v].owner = u
          PROVE  Within(u)'
      <4>1. cphase'[v] = "evict" /\ upload'[v].owner = u
        BY <1>14, <2>2, <3>3
      <4> QED BY <4>1 DEF Within
    <3> QED BY <3>1, <3>2, <3>3 DEF Within
  <2> QED BY <2>1, <2>2
<1>23. ConversionsOK'
  <2>1. \A c \in conversions : c.clip \in 1..n /\ c.clip \in Ids
    BY <1>1, <1>2 DEF ClipsInv, ConversionsOK, ClipsTypes, Ids
  <2>2. \A c \in conversions : status'[c.clip] = status[c.clip] /\ c.clip \in DOMAIN clips'
    BY <1>5, <1>6, <1>12, <2>1
  <2>3. \A i \in Ids : status'[i] \in {"pending", "done"} => status[i] = status'[i]
    BY <1>12
  <2> QED BY <2>2, <2>3 DEF ClipsInv, ConversionsOK
<1> QED BY <1>15, <1>17, <1>18, <1>19, <1>20, <1>21, <1>22, <1>23 DEF ClipsInv, FilesOK

LEMMA ClipsCreate ==
  ASSUME ClipsAssumption, ClipsInv, NEW w \in Workers, CreateClip(w)
  PROVE  ClipsInv'
<1>1. /\ cphase[w] = "create"
      /\ UNCHANGED <<webms, mp4s, upload, asked, conversions, uploads, claims>>
      /\ faults \in Nat /\ ClipsTypes /\ UploadOK(w)
  BY UploadIs DEF CreateClip
<1>2. CASE InsertRow(w) /\ Goto(w, "evict") /\ UNCHANGED <<faults, unanswered>>
  BY <1>1, <1>2, RowRecorded
<1>3. CASE /\ Fault
           /\ Goto(w, "cleanup")
           /\ \/ UNCHANGED <<clips, status, unanswered>>
              \/ InsertRow(w) /\ unanswered' = unanswered \cup {Mine(w)}
  <2>1. faults' \in Nat /\ faults' # 0
    BY <1>1, <1>3, FaultCounts
  <2>2. CASE InsertRow(w) /\ unanswered' = unanswered \cup {Mine(w)}
    <3>1. Mine(w) \in unanswered' /\ unanswered' \in {unanswered, unanswered \cup {Mine(w)}}
      BY <2>2
    <3> QED BY <1>1, <1>3, <2>1, <2>2, <3>1, RowRecorded
  <2>3. CASE UNCHANGED <<clips, status, unanswered>>
    <3>1. /\ cphase' \in [Workers -> {"idle", "put", "create", "cleanup", "evict", "remove", "claim"}]
          /\ cphase'[w] = "cleanup"
          /\ \A v \in Workers \ {w} : cphase'[v] = cphase[v] /\ upload'[v] = upload[v]
      BY <1>1, <1>3 DEF Goto, ClipsTypes
    <3>2. ClipsTypes'
      BY <1>1, <2>1, <2>3, <3>1 DEF ClipsTypes
    <3>3. Mine(w)' = Mine(w) /\ upload'[w] = upload[w]
      BY <1>1 DEF Mine
    <3>4. UploadOK(w)'
      BY <1>1, <2>3, <3>1, <3>3 DEF UploadOK
    <3> QED BY <1>1, <2>1, <2>3, <3>1, <3>2, <3>3, <3>4, UploadIs, RowsStay
  <2> QED BY <1>3, <2>2, <2>3
<1> QED BY <1>2, <1>3 DEF CreateClip, Mine

\* A row that an eviction takes has as many newer rows of its owner as a user may keep.
LEMMA EvictionEnough ==
  ASSUME ClipsAssumption, ClipsInv, NEW u \in Owners, NEW i \in BeyondLimit(u)
  PROVE  Cardinality(Newer(i)) >= MaxClipsPerUser
<1> PICK A, B : A = {j \in ClipsOf(u) : j > i} /\ B = Newer(i)
  OBVIOUS
<1>1. ClipsTypes /\ i \in DOMAIN clips /\ clips[i].owner = u /\ Cardinality(A) >= MaxClipsPerUser
  BY UploadIs DEF ClipsInv, BeyondLimit, ClipsOf, Owns
<1>2. A \in SUBSET B /\ B \in SUBSET DOMAIN clips
  BY <1>1 DEF ClipsOf, Owns, Newer
<1>3. IsFiniteSet(B) /\ Cardinality(B) \in Nat
  BY <1>1, <1>2, RowsCount
<1>4. Cardinality(A) <= Cardinality(B) /\ Cardinality(A) \in Nat
  BY <1>2, <1>3, FS_Subset, FS_CardinalityType
<1>5. Cardinality(B) >= MaxClipsPerUser
  BY <1>1, <1>3, <1>4 DEF ClipsAssumption
<1> QED BY <1>5

\* A step of one upload that evicts the rows of its owner that are beyond the limit.
LEMMA RowsEvicted ==
  ASSUME ClipsAssumption, ClipsInv, NEW w \in Workers, cphase[w] = "evict", ClipsTypes',
         UNCHANGED <<clips, webms, mp4s, asked, conversions, uploads, claims, unanswered>>,
         status' = [i \in Ids |-> IF i \in BeyondLimit(upload[w].owner) THEN "absent" ELSE status[i]],
         \A v \in Workers \ {w} : cphase'[v] = cphase[v] /\ upload'[v] = upload[v],
         UploadOK(w)', Mine(w)' \in {0, Mine(w)},
         faults' = 0 => /\ faults = 0
                        /\ \A i \in BeyondLimit(upload[w].owner) : clips[i].object \in upload'[w].evicted
  PROVE  ClipsInv'
<1> PICK u : u = upload[w].owner
  OBVIOUS
<1> PICK gone : gone = BeyondLimit(u)
  OBVIOUS
<1>1. ClipsTypes /\ UploadOK(w) /\ u \in Owners /\ upload[w].evicted = {} /\ uploads \in Nat
  BY UploadIs DEF UploadOK
<1>2. gone \in SUBSET DOMAIN clips /\ \A i \in gone : Owns(u, i)
  BY DEF BeyondLimit, ClipsOf
<1>3. \A i \in Ids : Live(i)' <=> Live(i) /\ i \notin gone
  BY DEF Live
<1>4. \A i \in Ids : status'[i] # "absent" => status'[i] = status[i]
  OBVIOUS
<1>5. \A i \in DOMAIN clips : i \in Ids
  BY <1>1 DEF ClipsTypes, Ids
<1>6. \A v \in Workers \ {w} : Mine(v)' = Mine(v)
  BY DEF Mine
<1>7. RowsOK'
  BY <1>3 DEF ClipsInv, FilesOK, RowsOK
<1>8. NumbersOK'
  <2>1. \A v \in Workers : Mine(v)' <= uploads'
    BY <1>1, <1>6 DEF ClipsInv, FilesOK, NumbersOK
  <2>2. ASSUME NEW v \in Workers, NEW x \in Workers, v # x, Mine(v)' # 0
        PROVE  Mine(v)' # Mine(x)'
    BY <1>6, <2>2 DEF ClipsInv, FilesOK, NumbersOK
  <2> QED BY <2>1, <2>2 DEF NumbersOK
<1>9. LinksOK'
  BY <1>3 DEF ClipsInv, FilesOK, LinksOK
<1>10. EvictionsOK'
  <2> SUFFICES ASSUME NEW i \in DOMAIN clips, ~Live(i)'
               PROVE  Cardinality(Newer(i)) >= MaxClipsPerUser
    BY DEF EvictionsOK, Newer
  <2>1. ~Live(i) \/ i \in BeyondLimit(u)
    BY <1>3, <1>5
  <2> QED BY <1>1, <2>1, EvictionEnough DEF ClipsInv, FilesOK, EvictionsOK
<1>11. ASSUME NEW v \in Workers
       PROVE  UploadOK(v)'
  <2>1. CASE v # w
    <3>1. UploadOK(v) /\ Mine(v)' = Mine(v) /\ cphase'[v] = cphase[v] /\ upload'[v] = upload[v]
      BY <1>6, <2>1 DEF ClipsInv, FilesOK
    <3>2. \A k : Evicted(k) => Evicted(k)'
      BY <1>3, <1>5 DEF Evicted
    <3> QED BY <3>1, <3>2 DEF UploadOK
  <2> QED BY <2>1
<1>12. ASSUME faults' = 0, NEW k \in webms'
       PROVE  Held(k)'
  <2>1. Held(k)
    BY <1>12 DEF ClipsInv, FilesOK
  <2>2. ASSUME NEW i \in DOMAIN clips, clips[i].object = k, Live(i)
        PROVE  Held(k)'
    <3>1. CASE i \in gone
      <4>1. k \in upload'[w].evicted
        BY <1>12, <2>2, <3>1
      <4> QED BY <4>1 DEF Held
    <3>2. CASE i \notin gone
      <4>1. Live(i)'
        BY <1>3, <1>5, <2>2, <3>2
      <4> QED BY <2>2, <4>1 DEF Held
    <3> QED BY <3>1, <3>2
  <2>3. ASSUME NEW v \in Workers, (cphase[v] = "create" /\ Mine(v) = k) \/ k \in upload[v].evicted
        PROVE  Held(k)'
    <3>1. v # w
      BY <1>1, <2>3
    <3> QED BY <1>6, <2>3, <3>1 DEF Held
  <2> QED BY <2>1, <2>2, <2>3 DEF Held
<1>13. ASSUME faults' = 0, NEW x \in Owners
       PROVE  Within(x)'
  <2>1. CASE x = u
    <3>1. ClipsOf(u)' = {i \in ClipsOf(u) : ~(Cardinality({j \in ClipsOf(u) : j > i}) >= MaxClipsPerUser)}
      <4>1. ClipsOf(u)' = {i \in ClipsOf(u) : i \notin gone}
        BY <1>3, <1>5 DEF ClipsOf, Owns, Live
      <4> QED BY <4>1 DEF BeyondLimit
    <3> PICK S : S = ClipsOf(u)
      OBVIOUS
    <3>2. S \in SUBSET Nat /\ IsFiniteSet(S)
      <4>1. S \in SUBSET DOMAIN clips
        BY DEF ClipsOf
      <4> QED BY <1>1, <4>1, RowsCount
    <3>3. Cardinality({i \in S : ~(Cardinality({j \in S : j > i}) >= MaxClipsPerUser)}) <= MaxClipsPerUser
      BY <3>2, TopFew DEF ClipsAssumption
    <3>4. Cardinality(ClipsOf(u)') <= MaxClipsPerUser
      BY <3>1, <3>3
    <3> QED BY <2>1, <3>4 DEF Within
  <2>2. CASE x # u
    <3>1. \A i \in DOMAIN clips : Owns(x, i)' <=> Owns(x, i)
      <4>1. \A i \in gone : clips[i].owner = u
        BY <1>2 DEF Owns
      <4> QED BY <1>3, <1>5, <2>2, <4>1 DEF Owns, Live
    <3>2. ClipsOf(x)' = ClipsOf(x)
      BY <3>1 DEF ClipsOf
    <3>3. Within(x)
      BY <1>13 DEF ClipsInv, FilesOK
    <3>4. \A v \in Workers : cphase[v] = "evict" /\ upload[v].owner = x => cphase'[v] = "evict" /\ upload'[v].owner = x
      BY <2>2
    <3> QED BY <3>2, <3>3, <3>4 DEF Within
  <2> QED BY <2>1, <2>2
<1>14. ConversionsOK'
  <2>1. \A c \in conversions : c.clip \in Ids
    BY <1>1 DEF ClipsTypes
  <2>2. \A c \in conversions : status'[c.clip] \in {status[c.clip], "absent"}
    BY <2>1
  <2> QED BY <1>4, <2>2 DEF ClipsInv, ConversionsOK
<1> QED BY <1>7, <1>8, <1>9, <1>10, <1>11, <1>12, <1>13, <1>14 DEF ClipsInv, FilesOK

LEMMA EvictedSet ==
  ASSUME NEW r \in Upload, NEW K
  PROVE  [r EXCEPT !.evicted = K] = [owner |-> r.owner, object |-> r.object, evicted |-> K]
BY DEF Upload

LEMMA ClipsEvict ==
  ASSUME ClipsAssumption, ClipsInv, NEW w \in Workers, EvictOldest(w)
  PROVE  ClipsInv'
<1> PICK gone : gone = BeyondLimit(upload[w].owner)
  OBVIOUS
<1> PICK without : without = [i \in Ids |-> IF i \in gone THEN "absent" ELSE status[i]]
  OBVIOUS
<1>1. /\ cphase[w] = "evict" /\ ClipsTypes /\ UploadOK(w) /\ faults \in Nat
      /\ upload[w] \in Upload /\ Mine(w) # 0 /\ upload[w].owner \in Owners
      /\ UNCHANGED <<clips, webms, mp4s, asked, conversions, uploads, claims, unanswered>>
  BY UploadIs DEF EvictOldest, UploadOK
<1>2. without \in [Ids -> {"absent", "none", "pending", "done", "failed"}]
  BY <1>1 DEF ClipsTypes
<1>3. CASE /\ status' = without
           /\ upload' = [upload EXCEPT ![w].evicted = {clips[i].object : i \in gone}]
           /\ Goto(w, "remove") /\ UNCHANGED faults
  <2> PICK K : K = {clips[i].object : i \in gone}
    OBVIOUS
  <2> PICK t : t = [owner |-> upload[w].owner, object |-> Mine(w), evicted |-> K]
    OBVIOUS
  <2>1. gone \in SUBSET DOMAIN clips /\ \A i \in gone : i \in Ids /\ clips[i].object \in Objects
    <3>1. gone \in SUBSET DOMAIN clips
      BY DEF BeyondLimit, ClipsOf
    <3> QED BY <1>1, <3>1, RowIs DEF Ids, ClipsTypes
  <2>2. t \in Upload /\ t.owner = upload[w].owner /\ t.object = Mine(w) /\ t.evicted = K
    <3>1. K \in SUBSET Objects /\ Mine(w) \in 0..MaxUploads /\ upload[w].owner \in Owners \cup {None}
      BY <1>1, <2>1, UploadIs
    <3> QED BY <3>1, UploadMade
  <2>3. upload' = [upload EXCEPT ![w] = t]
    <3>1. [upload[w] EXCEPT !.evicted = K] = t
      BY <1>1, EvictedSet DEF Mine
    <3> QED BY <1>3, <3>1
  <2>4. ClipsTypes /\ Goto(w, "remove") /\ t \in Upload /\ upload' = [upload EXCEPT ![w] = t]
    BY <1>1, <1>3, <2>2, <2>3
  <2>5. /\ cphase' \in [Workers -> {"idle", "put", "create", "cleanup", "evict", "remove", "claim"}]
        /\ upload' \in [Workers -> Upload]
        /\ cphase'[w] = "remove" /\ upload'[w] = t
        /\ \A v \in Workers \ {w} : cphase'[v] = cphase[v] /\ upload'[v] = upload[v]
    BY <2>4, UploadTypes
  <2>6. ClipsTypes'
    BY <1>1, <1>2, <1>3, <2>5 DEF ClipsTypes
  <2>7. Mine(w)' = Mine(w)
    BY <2>2, <2>5 DEF Mine
  <2>8. UploadOK(w)'
    <3>1. ASSUME NEW k \in upload'[w].evicted
          PROVE  Evicted(k)'
      <4>1. PICK i \in gone : k = clips[i].object
        BY <2>2, <2>5, <3>1
      <4>2. i \in DOMAIN clips /\ i \in Ids
        BY <2>1
      <4>3. ~Live(i)'
        BY <1>3, <4>2 DEF Live
      <4> QED BY <1>1, <4>1, <4>2, <4>3 DEF Evicted
    <3> QED BY <1>1, <2>2, <2>5, <2>7, <3>1 DEF UploadOK
  <2>9. \A i \in gone : clips[i].object \in upload'[w].evicted
    BY <2>2, <2>5
  <2> QED BY <1>1, <1>3, <2>5, <2>6, <2>7, <2>8, <2>9, RowsEvicted
<1>4. CASE status' \in {status, without} /\ Fault /\ EndUpload(w)
  <2>1. faults' # 0 /\ faults' \in Nat
    BY <1>1, <1>4, FaultCounts
  <2>2. /\ cphase' \in [Workers -> {"idle", "put", "create", "cleanup", "evict", "remove", "claim"}]
        /\ upload' \in [Workers -> Upload]
        /\ Mine(w)' = 0 /\ UploadOK(w)' /\ cphase'[w] = "idle"
        /\ \A v \in Workers \ {w} : cphase'[v] = cphase[v] /\ upload'[v] = upload[v]
    BY <1>1, <1>4, UploadEnds
  <2>3. status' \in [Ids -> {"absent", "none", "pending", "done", "failed"}]
    BY <1>1, <1>2, <1>4 DEF ClipsTypes
  <2>4. ClipsTypes'
    BY <1>1, <2>1, <2>2, <2>3 DEF ClipsTypes
  <2>5. CASE status' = without
    BY <1>1, <2>1, <2>2, <2>4, <2>5, RowsEvicted
  <2>6. CASE UNCHANGED status
    BY <1>1, <2>1, <2>2, <2>4, <2>6, UploadIs, RowsStay
  <2> QED BY <1>4, <2>5, <2>6
<1> QED BY <1>1, <1>3, <1>4 DEF EvictOldest

\* A step that changes no row and no object, and no upload.
LEMMA FilesStay ==
  ASSUME ClipsAssumption, ClipsInv, ClipsTypes',
         UNCHANGED <<clips, webms, upload, uploads, unanswered>>,
         faults' = 0 => faults = 0,
         \A i \in Ids : Live(i)' <=> Live(i),
         \A v \in Workers : cphase'[v] = cphase[v] \/ {cphase[v], cphase'[v]} \subseteq {"idle", "claim"}
  PROVE  FilesOK'
<1>1. ClipsTypes /\ FilesOK
  BY DEF ClipsInv
<1>2. \A i \in DOMAIN clips : i \in Ids
  BY <1>1 DEF ClipsTypes, Ids
<1>3. \A v \in Workers : /\ Mine(v)' = Mine(v)
                         /\ cphase[v] \in {"create", "evict"} => cphase'[v] = cphase[v]
  BY DEF Mine
<1>4. RowsOK' /\ NumbersOK' /\ LinksOK'
  BY <1>1, <1>3 DEF FilesOK, RowsOK, NumbersOK, LinksOK
<1>5. EvictionsOK'
  BY <1>1, <1>2 DEF FilesOK, EvictionsOK, Newer
<1>6. ASSUME NEW v \in Workers
      PROVE  UploadOK(v)'
  <2>1. UploadOK(v) /\ Mine(v)' = Mine(v) /\ upload'[v] = upload[v]
    BY <1>1, <1>3 DEF FilesOK
  <2>2. \A k : Evicted(k) => Evicted(k)'
    BY <1>2 DEF Evicted
  <2>3. CASE cphase'[v] = cphase[v]
    BY <2>1, <2>2, <2>3 DEF UploadOK
  <2>4. CASE cphase[v] \in {"idle", "claim"} /\ cphase'[v] \in {"idle", "claim"}
    BY <2>1, <2>2, <2>4 DEF UploadOK
  <2> QED BY <2>3, <2>4
<1>7. ASSUME faults' = 0, NEW k \in webms'
      PROVE  Held(k)'
  <2>1. Held(k)
    BY <1>1, <1>7 DEF FilesOK
  <2> QED BY <1>2, <1>3, <2>1 DEF Held
<1>8. ASSUME faults' = 0, NEW u \in Owners
      PROVE  Within(u)'
  <2>1. Within(u) /\ ClipsOf(u)' = ClipsOf(u)
    BY <1>1, <1>2, <1>8 DEF FilesOK, ClipsOf, Owns, Live
  <2> QED BY <1>3, <2>1 DEF Within
<1> QED BY <1>4, <1>5, <1>6, <1>7, <1>8 DEF FilesOK

LEMMA ClipsRequest ==
  ASSUME ClipsAssumption, ClipsInv, NEW w \in Workers, NEW u \in Owners, NEW i \in Ids, RequestConvert(w, u, i)
  PROVE  ClipsInv'
<1>1. /\ cphase[w] = "idle" /\ ClipsTypes /\ Goto(w, "claim") /\ asked' = [asked EXCEPT ![w] = i]
      /\ UNCHANGED <<clips, status, webms, mp4s, upload, conversions, uploads, claims, unanswered, faults>>
  BY UploadIs DEF RequestConvert
<1>2. /\ cphase' \in [Workers -> {"idle", "put", "create", "cleanup", "evict", "remove", "claim"}]
      /\ \A v \in Workers : cphase'[v] = cphase[v] \/ {cphase[v], cphase'[v]} \subseteq {"idle", "claim"}
  BY <1>1 DEF Goto, ClipsTypes
<1>3. asked' \in [Workers -> Ids \cup {0}]
  BY <1>1 DEF ClipsTypes
<1>4. ClipsTypes'
  BY <1>1, <1>2, <1>3 DEF ClipsTypes
<1>5. FilesOK'
  BY <1>1, <1>2, <1>4, FilesStay DEF Live
<1>6. ConversionsOK'
  BY <1>1 DEF ClipsInv, ConversionsOK
<1> QED BY <1>4, <1>5, <1>6 DEF ClipsInv

LEMMA ClipsClaim ==
  ASSUME ClipsAssumption, ClipsInv, NEW w \in Workers, ClaimConversion(w), asked[w] \in Ids
  PROVE  ClipsInv'
<1> PICK i \in Ids : i = asked[w]
  OBVIOUS
<1> PICK n : n = claims + 1
  OBVIOUS
<1> PICK new : new = [clip |-> i, claim |-> n, stage |-> "encode"]
  OBVIOUS
<1> PICK pending : pending = [status EXCEPT ![i] = "pending"]
  OBVIOUS
<1>1. /\ cphase[w] = "claim" /\ ClipsTypes /\ faults \in Nat /\ Goto(w, "idle") /\ asked' = [asked EXCEPT ![w] = 0]
      /\ UNCHANGED <<clips, webms, mp4s, upload, uploads, unanswered>>
  BY UploadIs DEF ClaimConversion
<1>2. /\ cphase' \in [Workers -> {"idle", "put", "create", "cleanup", "evict", "remove", "claim"}]
      /\ \A v \in Workers : cphase'[v] = cphase[v] \/ {cphase[v], cphase'[v]} \subseteq {"idle", "claim"}
  BY <1>1 DEF Goto, ClipsTypes
<1>3. asked' \in [Workers -> Ids \cup {0}]
  BY <1>1 DEF ClipsTypes
<1>4. /\ pending \in [Ids -> {"absent", "none", "pending", "done", "failed"}] /\ pending[i] = "pending"
      /\ \A j \in Ids : j # i => pending[j] = status[j]
  BY <1>1 DEF ClipsTypes
<1>5. n \in Nat /\ new.clip = i /\ new.stage = "encode" /\ new \in [clip : Ids, claim : Nat, stage : {"encode", "put", "done", "failed"}]
  <2>1. n \in Nat
    BY <1>1 DEF ClipsTypes
  <2> QED BY <2>1
<1>6. ASSUME Claimable(i)
      PROVE  /\ status[i] \in {"none", "failed"} /\ i \in DOMAIN clips
             /\ \A j \in Ids : pending[j] # "absent" <=> Live(j)
             /\ \A c \in conversions : c.clip # i
  <2>1. status[i] \in {"none", "failed"} /\ Live(i)
    BY <1>6 DEF Claimable, Live
  <2>2. i \in DOMAIN clips
    BY <2>1 DEF ClipsInv, FilesOK, RowsOK
  <2>3. \A c \in conversions : c.clip # i
    BY <2>1 DEF ClipsInv, ConversionsOK
  <2> QED BY <1>4, <2>1, <2>2, <2>3 DEF Live
<1>7. CASE /\ Claimable(i) /\ status' = pending /\ claims' = n
           /\ conversions' = conversions \cup {new} /\ UNCHANGED faults
  <2>1. conversions' \in SUBSET [clip : Ids, claim : Nat, stage : {"encode", "put", "done", "failed"}]
    BY <1>1, <1>5, <1>7 DEF ClipsTypes
  <2>2. ClipsTypes'
    BY <1>1, <1>2, <1>3, <1>4, <1>5, <1>7, <2>1 DEF ClipsTypes
  <2>3. FilesOK'
    BY <1>1, <1>2, <1>6, <1>7, <2>2, FilesStay DEF Live
  <2>4. \A c \in conversions' : c \in conversions \/ c = new
    BY <1>7
  <2>5. \A c \in conversions : c.clip \in Ids /\ c.clip # i /\ status'[c.clip] = status[c.clip]
    BY <1>1, <1>4, <1>6, <1>7 DEF ClipsTypes
  <2>6. \A j \in Ids : j = i \/ status'[j] = status[j]
    BY <1>4, <1>7
  <2>7. new \in conversions' /\ \A c \in conversions : c \in conversions'
    BY <1>7
  <2>8. status'[i] = "pending" /\ i \in DOMAIN clips
    BY <1>4, <1>6, <1>7
  <2>9. ConversionsOK'
    <3>1. \A c, d \in conversions' : c.clip = d.clip => c = d
      BY <1>5, <2>4, <2>5 DEF ClipsInv, ConversionsOK
    <3>2. \A c \in conversions' : status'[c.clip] \in {"pending", "absent"} /\ c.clip \in DOMAIN clips'
      BY <1>1, <1>5, <2>4, <2>5, <2>8 DEF ClipsInv, ConversionsOK
    <3>3. \A c \in conversions' : c.stage = "done" => c.clip \in mp4s'
      BY <1>1, <1>5, <2>4 DEF ClipsInv, ConversionsOK
    <3>4. faults' = 0 => \A j \in Ids : status'[j] = "pending" => \E c \in conversions' : c.clip = j
      BY <1>5, <1>7, <2>6, <2>7 DEF ClipsInv, ConversionsOK
    <3>5. \A j \in Ids : status'[j] = "done" => j \in mp4s'
      BY <1>1, <2>6, <2>8 DEF ClipsInv, ConversionsOK
    <3> QED BY <3>1, <3>2, <3>3, <3>4, <3>5 DEF ConversionsOK
  <2> QED BY <2>2, <2>3, <2>9 DEF ClipsInv
<1>8. CASE UNCHANGED <<status, claims, conversions, faults>>
  <2>1. ClipsTypes'
    BY <1>1, <1>2, <1>3, <1>8 DEF ClipsTypes
  <2>2. FilesOK'
    BY <1>1, <1>2, <1>8, <2>1, FilesStay DEF Live
  <2>3. ConversionsOK'
    BY <1>1, <1>8 DEF ClipsInv, ConversionsOK
  <2> QED BY <2>1, <2>2, <2>3 DEF ClipsInv
<1>9. CASE Claimable(i) /\ status' \in {status, pending} /\ Fault /\ UNCHANGED <<claims, conversions>>
  <2>1. faults' \in Nat /\ faults' # 0
    BY <1>1, <1>9, FaultCounts
  <2>2. status' \in [Ids -> {"absent", "none", "pending", "done", "failed"}]
    BY <1>1, <1>4, <1>9 DEF ClipsTypes
  <2>3. ClipsTypes'
    BY <1>1, <1>2, <1>3, <1>9, <2>1, <2>2 DEF ClipsTypes
  <2>4. \A j \in Ids : Live(j)' <=> Live(j)
    BY <1>6, <1>9 DEF Live
  <2>5. FilesOK'
    BY <1>1, <1>2, <2>1, <2>3, <2>4, FilesStay
  <2>6. \A j \in Ids : status'[j] = status[j] \/ (j = i /\ status'[j] = "pending")
    BY <1>4, <1>9
  <2>7. \A c \in conversions : status'[c.clip] = status[c.clip]
    <3>1. \A c \in conversions : c.clip \in Ids /\ c.clip # i
      BY <1>1, <1>6, <1>9 DEF ClipsTypes
    <3> QED BY <2>6, <3>1
  <2>8. ConversionsOK'
    BY <1>1, <1>9, <2>1, <2>6, <2>7 DEF ClipsInv, ConversionsOK
  <2> QED BY <2>3, <2>5, <2>8 DEF ClipsInv
<1> QED BY <1>7, <1>8, <1>9 DEF ClaimConversion

\* A conversion that moves on changes no row but its own.
LEMMA ClipsStage ==
  ASSUME ClipsAssumption, ClipsInv, NEW c \in conversions, NEW s \in {"put", "done", "failed"}, Stage(c, s),
         UNCHANGED <<clips, status, webms, cphase, upload, asked, uploads, claims, unanswered>>,
         mp4s' \in {mp4s, mp4s \cup {c.clip}}, s = "done" => c.clip \in mp4s',
         faults' \in Nat, faults' = 0 => faults = 0
  PROVE  ClipsInv'
<1> PICK moved : moved = [c EXCEPT !.stage = s]
  OBVIOUS
<1>1. /\ ClipsTypes /\ conversions' = (conversions \ {c}) \cup {moved}
      /\ conversions \in SUBSET [clip : Ids, claim : Nat, stage : {"encode", "put", "done", "failed"}]
      /\ \A d, e \in conversions : d.clip = e.clip => d = e
  BY DEF ClipsInv, ClipsTypes, ConversionsOK, Stage
<1>2. /\ conversions' \in SUBSET [clip : Ids, claim : Nat, stage : {"encode", "put", "done", "failed"}]
      /\ moved.clip = c.clip /\ moved.stage = s /\ moved \in conversions'
      /\ \A d \in conversions' : d = moved \/ (d \in conversions /\ d.clip # c.clip)
      /\ \A d, e \in conversions' : d.clip = e.clip => d = e
      /\ \A d \in conversions : \E e \in conversions' : e.clip = d.clip
  <2> PICK T : T = (conversions \ {c}) \cup {moved}
    OBVIOUS
  <2>1. /\ moved \in [clip : Ids, claim : Nat, stage : {"encode", "put", "done", "failed"}]
        /\ moved.clip = c.clip /\ moved.stage = s
    <3>1. c \in [clip : Ids, claim : Nat, stage : {"encode", "put", "done", "failed"}]
      BY <1>1
    <3> QED BY <3>1
  <2>2. moved \in T /\ \A d \in T : d = moved \/ (d \in conversions /\ d # c)
    BY <1>1
  <2>3. \A d \in conversions : d # c => d.clip # c.clip
    BY <1>1
  <2>4. \A d \in T : d = moved \/ (d \in conversions /\ d.clip # c.clip)
    BY <2>2, <2>3
  <2>5. \A d, e \in T : d.clip = e.clip => d = e
    BY <1>1, <2>1, <2>4
  <2>6. \A d \in conversions : \E e \in T : e.clip = d.clip
    <3> SUFFICES ASSUME NEW d \in conversions
                 PROVE  \E e \in T : e.clip = d.clip
      BY <1>1
    <3>1. CASE d = c
      BY <2>1, <2>2, <3>1
    <3>2. CASE d # c
      <4>1. d \in T
        BY <1>1, <3>2
      <4> QED BY <4>1
    <3> QED BY <3>1, <3>2
  <2>7. T \in SUBSET [clip : Ids, claim : Nat, stage : {"encode", "put", "done", "failed"}]
    BY <1>1, <2>1, <2>4
  <2>8. conversions' = T
    BY <1>1
  <2> QED BY <2>1, <2>2, <2>4, <2>5, <2>6, <2>7, <2>8
<1>3. c.clip \in Ids /\ mp4s \subseteq mp4s' /\ mp4s' \in SUBSET Ids
  BY <1>1 DEF ClipsTypes
<1>4. ClipsTypes'
  BY <1>1, <1>2, <1>3 DEF ClipsTypes
<1>5. FilesOK'
  BY <1>4, FilesStay DEF Live
<1>6. ConversionsOK'
  <2>1. \A d \in conversions' : status'[d.clip] \in {"pending", "absent"} /\ d.clip \in DOMAIN clips'
    BY <1>2 DEF ClipsInv, ConversionsOK
  <2>2. \A d \in conversions' : d.stage = "done" => d.clip \in mp4s'
    BY <1>2, <1>3 DEF ClipsInv, ConversionsOK
  <2>3. faults' = 0 => \A j \in Ids : status'[j] = "pending" => \E d \in conversions' : d.clip = j
    BY <1>2 DEF ClipsInv, ConversionsOK
  <2>4. \A j \in Ids : status'[j] = "done" => j \in mp4s'
    BY <1>3 DEF ClipsInv, ConversionsOK
  <2> QED BY <1>2, <2>1, <2>2, <2>3, <2>4 DEF ConversionsOK
<1> QED BY <1>4, <1>5, <1>6 DEF ClipsInv

LEMMA ClipsConvert ==
  ASSUME ClipsAssumption, ClipsInv, NEW c \in conversions, Encode(c) \/ PutMP4(c)
  PROVE  ClipsInv'
<1>1. faults \in Nat
  BY DEF ClipsInv, ClipsTypes
<1>2. /\ UNCHANGED <<clips, status, webms, cphase, upload, asked, uploads, claims, unanswered>>
      /\ Fault \/ UNCHANGED faults
  BY DEF Encode, PutMP4
<1>3. faults' \in Nat /\ (faults' = 0 => faults = 0)
  BY <1>1, <1>2, FaultCounts
<1>4. CASE Encode(c)
  <2>1. mp4s' \in {mp4s, mp4s \cup {c.clip}} /\ (Stage(c, "put") \/ Stage(c, "failed"))
    BY <1>4 DEF Encode
  <2> QED BY <1>2, <1>3, <2>1, ClipsStage
<1>5. CASE PutMP4(c)
  <2>1. /\ mp4s' \in {mp4s, mp4s \cup {c.clip}}
        /\ Stage(c, "failed") \/ (Stage(c, "done") /\ c.clip \in mp4s')
    BY <1>5 DEF PutMP4
  <2> QED BY <1>2, <1>3, <2>1, ClipsStage
<1> QED BY <1>4, <1>5

LEMMA ClipsRecord ==
  ASSUME ClipsAssumption, ClipsInv, NEW c \in conversions, RecordConvStatus(c)
  PROVE  ClipsInv'
<1>1. /\ ClipsTypes /\ faults \in Nat /\ c.clip \in Ids /\ c.stage \in {"done", "failed"}
      /\ conversions' = conversions \ {c}
      /\ UNCHANGED <<clips, webms, mp4s, cphase, upload, asked, uploads, claims, unanswered>>
      /\ Fault \/ UNCHANGED faults
  BY DEF ClipsInv, ClipsTypes, RecordConvStatus
<1>2. faults' \in Nat /\ (faults' = 0 => faults = 0 /\ ~Fault)
  BY <1>1, FaultCounts
<1>3. /\ status' \in [Ids -> {"absent", "none", "pending", "done", "failed"}]
      /\ \A j \in Ids : j # c.clip => status'[j] = status[j]
      /\ status'[c.clip] \in {status[c.clip], c.stage}
      /\ Live(c.clip) <=> Live(c.clip)'
      /\ faults' = 0 => status'[c.clip] = IF Live(c.clip) THEN c.stage ELSE "absent"
  <2> PICK i \in Ids : i = c.clip
    BY <1>1
  <2> PICK U : U = UpdateConversion(c)
    OBVIOUS
  <2>1. /\ U \in [Ids -> {"absent", "none", "pending", "done", "failed"}]
        /\ \A j \in Ids : j # i => U[j] = status[j]
        /\ U[i] = IF status[i] = "absent" THEN "absent" ELSE c.stage
    <3>1. CASE status[i] = "absent"
      BY <1>1, <3>1 DEF UpdateConversion, ClipsTypes
    <3>2. CASE status[i] # "absent"
      <4>1. U = [status EXCEPT ![i] = c.stage]
        BY <3>2 DEF UpdateConversion
      <4> QED BY <1>1, <3>2, <4>1 DEF ClipsTypes
    <3> QED BY <3>1, <3>2
  <2>2. status' \in {status, U} /\ (faults' = 0 => status' = U)
    BY <1>2 DEF RecordConvStatus
  <2>3. status \in [Ids -> {"absent", "none", "pending", "done", "failed"}]
    BY <1>1 DEF ClipsTypes
  <2> QED BY <1>1, <2>1, <2>2, <2>3 DEF Live
<1>4. conversions' \in SUBSET conversions
  BY <1>1
<1>5. ClipsTypes'
  BY <1>1, <1>2, <1>3, <1>4 DEF ClipsTypes
<1>6. \A j \in Ids : Live(j)' <=> Live(j)
  BY <1>3 DEF Live
<1>7. FilesOK'
  BY <1>1, <1>2, <1>5, <1>6, FilesStay
<1>8. \A d \in conversions' : d \in conversions /\ d.clip \in Ids /\ d.clip # c.clip
  BY <1>1 DEF ClipsInv, ClipsTypes, ConversionsOK
<1>9. ConversionsOK'
  <2>1. \A d \in conversions' : status'[d.clip] \in {"pending", "absent"} /\ d.clip \in DOMAIN clips'
    BY <1>1, <1>3, <1>8 DEF ClipsInv, ConversionsOK
  <2>2. \A d \in conversions' : d.stage = "done" => d.clip \in mp4s'
    BY <1>1, <1>8 DEF ClipsInv, ConversionsOK
  <2>3. ASSUME faults' = 0, NEW j \in Ids, status'[j] = "pending"
        PROVE  \E d \in conversions' : d.clip = j
    <3>1. j # c.clip
      BY <1>1, <1>3, <2>3
    <3>2. PICK d \in conversions : d.clip = j
      BY <1>2, <1>3, <2>3, <3>1 DEF ClipsInv, ConversionsOK
    <3> QED BY <1>1, <3>1, <3>2
  <2>4. ASSUME NEW j \in Ids, status'[j] = "done"
        PROVE  j \in mp4s'
    <3>1. CASE j = c.clip
      BY <1>1, <1>3, <2>4, <3>1 DEF ClipsInv, ConversionsOK
    <3>2. CASE j # c.clip
      BY <1>1, <1>3, <2>4, <3>2 DEF ClipsInv, ConversionsOK
    <3> QED BY <3>1, <3>2
  <2>5. \A d, e \in conversions' : d.clip = e.clip => d = e
    BY <1>8 DEF ClipsInv, ConversionsOK
  <2> QED BY <2>1, <2>2, <2>3, <2>4, <2>5 DEF ConversionsOK
<1> QED BY <1>5, <1>7, <1>9 DEF ClipsInv

LEMMA ClipsCrashes ==
  ASSUME ClipsAssumption, ClipsInv, ClipsCrash
  PROVE  ClipsInv'
<1>1. /\ ClipsTypes /\ FilesOK /\ faults \in Nat /\ Fault
      /\ cphase' = [w \in Workers |-> "idle"] /\ upload' = [w \in Workers |-> NoUpload]
      /\ asked' = [w \in Workers |-> 0] /\ conversions' = {}
      /\ UNCHANGED <<clips, status, webms, mp4s, uploads, claims, unanswered>>
  BY DEF ClipsInv, ClipsTypes, ClipsCrash
<1>2. faults' \in Nat /\ faults' # 0
  BY <1>1, FaultCounts
<1>3. ClipsTypes'
  <2>1. upload' \in [Workers -> Upload]
    BY <1>1, NoUploadTypes
  <2>2. /\ cphase' \in [Workers -> {"idle", "put", "create", "cleanup", "evict", "remove", "claim"}]
        /\ asked' \in [Workers -> Ids \cup {0}]
    BY <1>1
  <2> QED BY <1>1, <1>2, <2>1, <2>2 DEF ClipsTypes
<1>4. \A w \in Workers : Mine(w)' = 0 /\ cphase'[w] = "idle" /\ upload'[w] = NoUpload /\ upload'[w].evicted = {}
  BY <1>1, NoUploadTypes DEF Mine
<1>5. uploads \in Nat
  BY <1>1 DEF ClipsTypes
<1>6. RowsOK' /\ LinksOK' /\ EvictionsOK'
  BY <1>1 DEF FilesOK, RowsOK, LinksOK, EvictionsOK, Newer, Live
<1>7. NumbersOK'
  BY <1>1, <1>4, <1>5 DEF NumbersOK
<1>8. \A w \in Workers : UploadOK(w)'
  BY <1>4 DEF UploadOK
<1>9. ConversionsOK'
  BY <1>1, <1>2 DEF ClipsInv, ConversionsOK
<1> QED BY <1>2, <1>3, <1>6, <1>7, <1>8, <1>9 DEF ClipsInv, FilesOK

LEMMA ClipsBegins ==
  ASSUME ClipsAssumption, ClipsInit, faults = 0
  PROVE  ClipsInv
<1>1. /\ clips = <<>> /\ DOMAIN clips = {} /\ webms = {} /\ mp4s = {} /\ conversions = {} /\ uploads = 0
      /\ status = [i \in Ids |-> "absent"] /\ cphase = [w \in Workers |-> "idle"]
      /\ upload = [w \in Workers |-> NoUpload] /\ asked = [w \in Workers |-> 0]
      /\ claims = 0 /\ unanswered = {}
  BY DEF ClipsInit
<1>2. ClipsTypes
  <2>1. clips \in Seq(Clip) /\ Len(clips) = 0
    BY <1>1
  <2>2. 0 \in 0..MaxUploads /\ 0 <= MaxUploads
    BY DEF ClipsAssumption
  <2>3. upload \in [Workers -> Upload]
    BY <1>1, NoUploadTypes
  <2> QED BY <1>1, <2>1, <2>2, <2>3 DEF ClipsTypes
<1>3. \A w \in Workers : Mine(w) = 0 /\ cphase[w] = "idle" /\ upload[w] = NoUpload /\ upload[w].evicted = {}
  BY <1>1, NoUploadTypes DEF Mine
<1>4. \A i \in Ids : ~Live(i)
  BY <1>1 DEF Live
<1>5. RowsOK /\ LinksOK /\ EvictionsOK
  BY <1>1, <1>4 DEF RowsOK, LinksOK, EvictionsOK
<1>6. NumbersOK
  BY <1>1, <1>3 DEF NumbersOK
<1>7. \A w \in Workers : UploadOK(w)
  BY <1>3 DEF UploadOK
<1>8. ASSUME NEW u \in Owners
      PROVE  Within(u)
  <2>1. ClipsOf(u) = {}
    BY <1>1 DEF ClipsOf
  <2>2. Cardinality(ClipsOf(u)) = 0
    BY <2>1, FS_EmptySet
  <2> QED BY <2>2 DEF Within, ClipsAssumption
<1>9. ConversionsOK
  BY <1>1 DEF ConversionsOK
<1> QED BY <1>1, <1>2, <1>5, <1>6, <1>7, <1>8, <1>9 DEF ClipsInv, FilesOK

\* A request that claims knows which row.
AskedOK == \A w \in Workers : cphase[w] = "claim" => asked[w] \in Ids

LEMMA AskedKept ==
  ASSUME ClipsTypes, AskedOK, [ClipsNext]_<<clipsVars, faults>>
  PROVE  AskedOK'
<1>1. ASSUME NEW w \in Workers, NEW p, Goto(w, p), p # "claim", UNCHANGED asked
      PROVE  AskedOK'
  BY <1>1 DEF AskedOK, Goto, ClipsTypes
<1>2. ASSUME UNCHANGED <<cphase, asked>>
      PROVE  AskedOK'
  BY <1>2 DEF AskedOK
<1>3. CASE ClipsNext
  <2>1. ASSUME NEW w \in Workers, NEW u \in Owners, BeginUpload(w, u)
        PROVE  AskedOK'
    BY <1>1, <2>1 DEF BeginUpload
  <2>2. ASSUME NEW w \in Workers, PutClip(w) \/ CreateClip(w) \/ CleanUp(w) \/ EvictOldest(w)
        PROVE  AskedOK'
    <3>1. UNCHANGED asked /\ \E p \in {"idle", "create", "evict", "cleanup", "remove"} : Goto(w, p)
      BY <2>2 DEF PutClip, CreateClip, CleanUp, EvictOldest, EndUpload
    <3> QED BY <1>1, <3>1
  <2>3. ASSUME NEW w \in Workers, RemoveEvicted(w)
        PROVE  AskedOK'
    BY <1>1, <1>2, <2>3 DEF RemoveEvicted, EndUpload
  <2>4. ASSUME NEW w \in Workers, NEW u \in Owners, NEW i \in Ids, RequestConvert(w, u, i)
        PROVE  AskedOK'
    BY <2>4 DEF RequestConvert, Goto, AskedOK, ClipsTypes
  <2>5. ASSUME NEW w \in Workers, ClaimConversion(w)
        PROVE  AskedOK'
    BY <2>5 DEF ClaimConversion, Goto, AskedOK, ClipsTypes
  <2>6. ASSUME NEW c \in conversions, Encode(c) \/ PutMP4(c) \/ RecordConvStatus(c)
        PROVE  AskedOK'
    BY <1>2, <2>6 DEF Encode, PutMP4, RecordConvStatus
  <2>7. CASE ClipsCrash
    BY <2>7 DEF ClipsCrash, AskedOK
  <2> QED BY <1>3, <2>1, <2>2, <2>3, <2>4, <2>5, <2>6, <2>7 DEF ClipsNext
<1>4. CASE UNCHANGED <<clipsVars, faults>>
  BY <1>2, <1>4 DEF clipsVars
<1> QED BY <1>3, <1>4

LEMMA ClipsStep ==
  ASSUME ClipsAssumption, ClipsInv, AskedOK, [ClipsNext]_<<clipsVars, faults>>
  PROVE  ClipsInv' /\ AskedOK'
<1>1. ClipsTypes
  BY DEF ClipsInv
<1>2. AskedOK'
  BY <1>1, AskedKept
<1>3. CASE ClipsNext
  <2>1. ASSUME NEW w \in Workers, NEW u \in Owners, BeginUpload(w, u)
        PROVE  ClipsInv'
    BY <2>1, ClipsBegin
  <2>2. ASSUME NEW w \in Workers, PutClip(w) \/ CreateClip(w) \/ CleanUp(w) \/ EvictOldest(w) \/ RemoveEvicted(w)
        PROVE  ClipsInv'
    BY <2>2, ClipsPut, ClipsCreate, ClipsCleanUp, ClipsEvict, ClipsRemove
  <2>3. ASSUME NEW w \in Workers, NEW u \in Owners, NEW i \in Ids, RequestConvert(w, u, i)
        PROVE  ClipsInv'
    BY <2>3, ClipsRequest
  <2>4. ASSUME NEW w \in Workers, ClaimConversion(w)
        PROVE  ClipsInv'
    <3>1. asked[w] \in Ids
      BY <2>4 DEF ClaimConversion, AskedOK
    <3> QED BY <2>4, <3>1, ClipsClaim
  <2>5. ASSUME NEW c \in conversions, Encode(c) \/ PutMP4(c) \/ RecordConvStatus(c)
        PROVE  ClipsInv'
    BY <2>5, ClipsConvert, ClipsRecord
  <2>6. CASE ClipsCrash
    BY <1>2, <2>6, ClipsCrashes
  <2> QED BY <1>2, <1>3, <2>1, <2>2, <2>3, <2>4, <2>5, <2>6 DEF ClipsNext
<1>4. CASE UNCHANGED <<clipsVars, faults>>
  <2>1. /\ UNCHANGED <<clips, status, webms, mp4s, cphase, upload, asked, conversions, uploads, claims, unanswered>>
        /\ UNCHANGED faults
    BY <1>4 DEF clipsVars
  <2>2. ClipsTypes'
    BY <1>1, <2>1 DEF ClipsTypes
  <2>3. FilesOK'
    BY <2>1, <2>2, FilesStay DEF Live
  <2>4. ConversionsOK'
    BY <2>1 DEF ClipsInv, ConversionsOK
  <2> QED BY <1>2, <2>2, <2>3, <2>4 DEF ClipsInv
<1> QED BY <1>2, <1>3, <1>4

LEMMA ClipsInvSays ==
  ASSUME ClipsAssumption, ClipsInv
  PROVE  ClipsMatchFiles /\ ConversionIsClaimed
<1>1. ClipsTypes /\ FilesOK /\ ConversionsOK
  BY DEF ClipsInv
<1>2. ASSUME NEW u \in Owners, NEW i \in Ids, DownloadURL(u, i) \notin {None} \cup unanswered
      PROVE  DownloadURL(u, i) \in webms
  <2>1. Owns(u, i) /\ DownloadURL(u, i) = clips[i].object
    BY <1>2 DEF DownloadURL
  <2> QED BY <1>1, <1>2, <2>1 DEF Owns, FilesOK, LinksOK, Live
<1>3. faults = 0 => \A k \in webms :
        \/ \E i \in DOMAIN clips : clips[i].object = k /\ status[i] # "absent"
        \/ \E w \in Workers : cphase[w] = "create" /\ upload[w].object = k
        \/ \E w \in Workers : k \in upload[w].evicted
  BY <1>1 DEF FilesOK, Held, Live, Mine
<1>4. \A i \in DOMAIN clips : status[i] = "absent" =>
        Cardinality({j \in DOMAIN clips : j > i /\ clips[j].owner = clips[i].owner}) >= MaxClipsPerUser
  BY <1>1 DEF FilesOK, EvictionsOK, Newer, Live
<1>5. faults = 0 => \A u \in Owners :
        \/ Cardinality(ClipsOf(u)) <= MaxClipsPerUser
        \/ \E w \in Workers : cphase[w] = "evict" /\ upload[w].owner = u
  BY <1>1 DEF FilesOK, Within
<1>6. \A u \in Owners, i \in Ids : GetMP4URL(u, i) = "link" => i \in mp4s
  <2> SUFFICES ASSUME NEW u \in Owners, NEW i \in Ids, GetMP4URL(u, i) = "link"
               PROVE  i \in mp4s
    OBVIOUS
  <2>1. status[i] = "done"
    BY DEF GetMP4URL
  <2> QED BY <1>1, <2>1 DEF ConversionsOK
<1> QED BY <1>1, <1>2, <1>3, <1>4, <1>5, <1>6 DEF ClipsMatchFiles, ConversionIsClaimed, ConversionsOK

\* Whatever order uploads, evictions, conversions and crashes take, and wherever a call fails, a link
\* leads to an object, no clip is evicted but for newer ones, and what is kept is within the limit
\* once the uploads are over: for any owners, any limit and any number of requests (Upload of
\* clip_service.go, DeleteOldestBeyondLimit of clip_repository.go).
THEOREM ClipsAlwaysMatchFiles ==
  ASSUME ClipsAssumption
  PROVE  ClipsSpec => []ClipsMatchFiles
<1>1. ClipsInit /\ faults = 0 => ClipsInv /\ AskedOK
  BY ClipsBegins DEF ClipsInit, AskedOK
<1>2. ClipsInv /\ AskedOK /\ [ClipsNext]_<<clipsVars, faults>> => (ClipsInv /\ AskedOK)'
  BY ClipsStep
<1>3. ClipsInv => ClipsMatchFiles
  BY ClipsInvSays
<1> QED BY <1>1, <1>2, <1>3, PTL DEF ClipsSpec

\* Two requests that read the same status never leave two goroutines to one clip, and the link of a
\* converted clip leads to its mp4: for any number of requests (RequestConvert and doConvert of
\* clip_service.go).
THEOREM ConversionAlwaysClaimed ==
  ASSUME ClipsAssumption
  PROVE  ClipsSpec => []ConversionIsClaimed
<1>1. ClipsInit /\ faults = 0 => ClipsInv /\ AskedOK
  BY ClipsBegins DEF ClipsInit, AskedOK
<1>2. ClipsInv /\ AskedOK /\ [ClipsNext]_<<clipsVars, faults>> => (ClipsInv /\ AskedOK)'
  BY ClipsStep
<1>3. ClipsInv => ConversionIsClaimed
  BY ClipsInvSays
<1> QED BY <1>1, <1>2, <1>3, PTL DEF ClipsSpec

----------------------------------------------------------------------------
(* The types of all of them *)

\* What AccountsInv does not say: each user has the account some code was issued for, and a
\* login has the id of a user.
IdsOK ==
  /\ usedCodes \subseteq Codes
  /\ \A i \in DOMAIN userRows : \E c \in Codes : userRows[i].sub = GoogleUser[c].sub
  /\ \A w \in Workers : login[w].id = 0 \/ login[w].id \in DOMAIN userRows

\* A row after an upsert is of the account upserted or of one there was.
LEMMA UpsertedSubs ==
  ASSUME AccountsInv, NEW g \in GoogleAccount, NEW i \in DOMAIN WithAccount(g)
  PROVE  \/ WithAccount(g)[i].sub = g.sub
         \/ i \in DOMAIN userRows /\ WithAccount(g)[i].sub = userRows[i].sub
<1>1. CASE \E j \in DOMAIN userRows : userRows[j].sub = g.sub
  BY <1>1 DEF WithAccount
<1>2. CASE ~\E j \in DOMAIN userRows : userRows[j].sub = g.sub
  <2>1. WithAccount(g) = Append(userRows, g) /\ userRows \in Seq(GoogleAccount)
    BY <1>2 DEF WithAccount, AccountsInv, AccountsTypes
  <2>2. /\ DOMAIN Append(userRows, g) = 1..(Len(userRows) + 1)
        /\ DOMAIN userRows = 1..Len(userRows) /\ Len(userRows) \in Nat
        /\ \A j \in DOMAIN userRows : Append(userRows, g)[j] = userRows[j]
        /\ Append(userRows, g)[Len(userRows) + 1] = g
    BY <2>1
  <2> QED BY <2>1, <2>2
<1> QED BY <1>1, <1>2

LEMMA IdsStep ==
  ASSUME AccountsAssumption, AccountsInv, IdsOK, [AccountsNext]_<<accountsVars, faults>>
  PROVE  IdsOK'
<1>t. login \in [Workers -> [code : Codes \cup {None}, id : Nat]]
  BY DEF AccountsInv, AccountsTypes
<1>e. ASSUME NEW w \in Workers, EndLogin(w)
      PROVE  \A v \in Workers : login'[v].id \in {0, login[v].id}
  BY <1>t, <1>e DEF EndLogin, NoLogin
<1>1. ASSUME NEW w \in Workers, NEW code \in Codes, ExchangeCode(w, code)
      PROVE  IdsOK'
  <2>1. userRows' = userRows /\ usedCodes' = usedCodes \cup {code}
    BY <1>1 DEF ExchangeCode
  <2>2. \A v \in Workers : login'[v].id = login[v].id
    BY <1>1, <1>t DEF ExchangeCode
  <2> QED BY <2>1, <2>2 DEF IdsOK
<1>2. ASSUME NEW w \in Workers, UpsertByGoogleSub(w)
      PROVE  IdsOK'
  <2>1. PICK g : g = GoogleUser[login[w].code]
    OBVIOUS
  <2>2. login[w].code \in Codes /\ g \in GoogleAccount
    BY <1>2, <2>1 DEF UpsertByGoogleSub, AccountsInv, LoginOK, AccountsAssumption, GoogleAccount
  <2>3. usedCodes' = usedCodes /\ userRows' \in {userRows, WithAccount(g)}
    BY <1>2, <2>1 DEF UpsertByGoogleSub
  <2>4. \A i \in DOMAIN userRows' : \E c \in Codes : userRows'[i].sub = GoogleUser[c].sub
    BY <2>1, <2>2, <2>3, UpsertedSubs DEF IdsOK
  <2>5. DOMAIN userRows \subseteq DOMAIN userRows'
    BY <2>2, <2>3, UpsertKeepsUsers
  <2>6. \A v \in Workers : login'[v].id = 0 \/ login'[v].id \in DOMAIN userRows'
    <3>1. CASE EndLogin(w)
      BY <1>e, <2>5, <3>1 DEF IdsOK
    <3>2. CASE \E i \in DOMAIN userRows' : login' = [login EXCEPT ![w].id = i]
      BY <1>t, <2>5, <3>2 DEF IdsOK
    <3> QED BY <1>2, <3>1, <3>2 DEF UpsertByGoogleSub
  <2> QED BY <2>3, <2>4, <2>6 DEF IdsOK
<1>3. ASSUME NEW w \in Workers, CreateSession(w) \/ AbortLogin(w)
      PROVE  IdsOK'
  <2>1. UNCHANGED <<userRows, usedCodes>> /\ EndLogin(w)
    BY <1>3 DEF CreateSession, AbortLogin
  <2> QED BY <1>e, <2>1 DEF IdsOK
<1>4. ASSUME UNCHANGED <<userRows, usedCodes, login>>
      PROVE  IdsOK'
  BY <1>4 DEF IdsOK
<1>5. ASSUME NEW s \in 1..MaxSessions, SessionEnds(s) \/ SubmitConsent(s)
      PROVE  IdsOK'
  BY <1>4, <1>5 DEF SessionEnds, SubmitConsent
<1> QED BY <1>1, <1>2, <1>3, <1>4, <1>5 DEF AccountsNext, accountsVars

\* There are no more users than codes: each has an account of his own.
LEMMA UsersAreFew ==
  ASSUME AccountsInv, IdsOK, IsFiniteSet(Codes)
  PROVE  Cardinality(Codes) \in Nat /\ DOMAIN userRows \subseteq 1..Cardinality(Codes)
<1>1. PICK n \in Nat : DOMAIN userRows = 1..n
  BY DEF AccountsInv, AccountsTypes
<1> PICK f : f = [i \in 1..n |-> CHOOSE c \in Codes : userRows[i].sub = GoogleUser[c].sub]
  OBVIOUS
<1>2. \A i \in 1..n : f[i] \in Codes /\ userRows[i].sub = GoogleUser[f[i]].sub
  BY <1>1 DEF IdsOK
<1>3. \A i, j \in 1..n : f[i] = f[j] => i = j
  BY <1>1, <1>2 DEF AccountsInv, OneUserPerAccount
<1>4. f \in Injection(1..n, Codes)
  BY <1>2, <1>3 DEF Injection, IsInjective
<1>5. IsFiniteSet(1..n) /\ Cardinality(1..n) = n
  BY FS_Interval, 1 \in Int, n \in Int
<1>6. Cardinality(1..n) <= Cardinality(Codes) /\ Cardinality(Codes) \in Nat
  BY <1>4, FS_Injection, FS_CardinalityType
<1> QED BY <1>1, <1>5, <1>6

LEMMA AccountsTyped ==
  ASSUME AccountsAssumption, AccountsInv, IdsOK, IsFiniteSet(Codes)
  PROVE  AccountsTypeOK
<1>1. DOMAIN userRows \subseteq UserIds /\ AccountsTypes /\ SessionsOK
  BY UsersAreFew DEF UserIds, AccountsInv
<1>2. \A s \in 1..MaxSessions : sessions[s] \in UserIds \cup {None}
  <2> SUFFICES ASSUME NEW s \in 1..MaxSessions, sessions[s] # None PROVE sessions[s] \in UserIds
    OBVIOUS
  <2>1. s \in DOMAIN granted
    BY <1>1 DEF SessionsOK, AccountsTypes
  <2> QED BY <1>1, <2>1 DEF SessionsOK, IsOwner
<1>3. sessions \in [1..MaxSessions -> UserIds \cup {None}]
  BY <1>1, <1>2 DEF AccountsTypes
<1>4. login \in [Workers -> [code : Codes \cup {None}, id : UserIds \cup {0}]]
  <2>1. \A w \in Workers : login[w] \in [code : Codes \cup {None}, id : Nat] /\ login[w].id \in UserIds \cup {0}
    BY <1>1 DEF AccountsTypes, IdsOK
  <2>2. \A w \in Workers : login[w] \in [code : Codes \cup {None}, id : UserIds \cup {0}]
    BY <2>1
  <2> QED BY <1>1, <2>2 DEF AccountsTypes
<1> QED BY <1>1, <1>3, <1>4 DEF AccountsTypes, AccountsTypeOK, AccountsInv, IdsOK, GoogleAccount

\* The requests that claim, and how many more there may be.
Claiming == {w \in Workers : cphase[w] = "claim"}
ClaimsOK ==
  /\ Cardinality(Claiming) \in Nat
  /\ claims \in Nat /\ claims + Cardinality(Claiming) <= MaxClaims
  /\ \A c \in conversions : c.claim \in 1..claims

\* A step after which no more requests claim, with no claim and no conversion of its own.
LEMMA FewerClaim ==
  ASSUME IsFiniteSet(Workers), ClaimsOK, MaxClaims \in Nat, Claiming' \subseteq Claiming, claims' = claims,
         \A c \in conversions' : \E d \in conversions : c.claim = d.claim
  PROVE  ClaimsOK'
<1>1. IsFiniteSet(Claiming)
  BY FS_Subset DEF Claiming
<1>2. Cardinality(Claiming') \in Nat /\ Cardinality(Claiming') <= Cardinality(Claiming)
  BY <1>1, FS_Subset, FS_CardinalityType
<1>3. \A c \in conversions' : c.claim \in 1..claims'
  BY DEF ClaimsOK
<1>4. claims' \in Nat /\ claims' + Cardinality(Claiming') <= MaxClaims
  BY <1>2 DEF ClaimsOK
<1> QED BY <1>2, <1>3, <1>4 DEF ClaimsOK

LEMMA ClaimsKept ==
  ASSUME ClipsAssumption, IsFiniteSet(Workers), ClipsTypes, ClaimsOK, [ClipsNext]_<<clipsVars, faults>>
  PROVE  ClaimsOK'
<1>0. MaxClaims \in Nat /\ cphase \in [Workers -> {"idle", "put", "create", "cleanup", "evict", "remove", "claim"}]
  BY DEF ClipsAssumption, ClipsTypes
<1>f. IsFiniteSet(Claiming) /\ Claiming \in SUBSET Workers
  BY FS_Subset DEF Claiming
<1>1. ASSUME NEW w \in Workers, NEW p, Goto(w, p), p # "claim", UNCHANGED <<claims, conversions>>
      PROVE  ClaimsOK'
  <2>1. Claiming' \subseteq Claiming
    BY <1>0, <1>1 DEF Goto, Claiming
  <2> QED BY <1>0, <1>1, <2>1, FewerClaim
<1>2. ASSUME UNCHANGED <<cphase, claims>>, \A c \in conversions' : \E d \in conversions : c.claim = d.claim
      PROVE  ClaimsOK'
  <2>1. Claiming' \subseteq Claiming
    BY <1>2 DEF Claiming
  <2> QED BY <1>0, <1>2, <2>1, FewerClaim
<1>3. CASE ClipsNext
  <2>1. ASSUME NEW w \in Workers, NEW u \in Owners, BeginUpload(w, u)
        PROVE  ClaimsOK'
    BY <1>1, <2>1 DEF BeginUpload
  <2>2. ASSUME NEW w \in Workers, PutClip(w) \/ CreateClip(w) \/ CleanUp(w) \/ EvictOldest(w)
        PROVE  ClaimsOK'
    <3>1. UNCHANGED <<claims, conversions>> /\ \E p \in {"idle", "create", "evict", "cleanup", "remove"} : Goto(w, p)
      BY <2>2 DEF PutClip, CreateClip, CleanUp, EvictOldest, EndUpload
    <3> QED BY <1>1, <3>1
  <2>3. ASSUME NEW w \in Workers, RemoveEvicted(w)
        PROVE  ClaimsOK'
    <3>1. CASE EndUpload(w)
      BY <1>1, <2>3, <3>1 DEF RemoveEvicted, EndUpload
    <3>2. CASE UNCHANGED cphase
      BY <1>2, <2>3, <3>2 DEF RemoveEvicted
    <3> QED BY <2>3, <3>1, <3>2 DEF RemoveEvicted
  <2>4. ASSUME NEW w \in Workers, NEW u \in Owners, NEW i \in Ids, RequestConvert(w, u, i)
        PROVE  ClaimsOK'
    <3>1. /\ cphase[w] = "idle" /\ cphase' = [cphase EXCEPT ![w] = "claim"]
          /\ claims' = claims /\ conversions' = conversions /\ claims + Cardinality(Claiming) < MaxClaims
      BY <2>4 DEF RequestConvert, Goto, Claiming
    <3>2. Claiming' = Claiming \cup {w} /\ w \notin Claiming
      BY <1>0, <3>1 DEF Claiming
    <3>3. Cardinality(Claiming') = Cardinality(Claiming) + 1
      BY <1>f, <3>2, FS_AddElement
    <3> QED BY <1>0, <3>1, <3>3 DEF ClaimsOK
  <2>5. ASSUME NEW w \in Workers, ClaimConversion(w)
        PROVE  ClaimsOK'
    <3>1. cphase[w] = "claim" /\ cphase' = [cphase EXCEPT ![w] = "idle"]
      BY <2>5 DEF ClaimConversion, Goto
    <3>2. Claiming' = Claiming \ {w} /\ w \in Claiming
      BY <1>0, <3>1 DEF Claiming
    <3>3. Cardinality(Claiming') = Cardinality(Claiming) - 1
      BY <1>f, <3>2, FS_RemoveElement
    <3>4. Cardinality(Claiming') \in Nat
      BY <1>f, <3>2, FS_RemoveElement, FS_CardinalityType
    <3>5. CASE UNCHANGED <<claims, conversions>>
      BY <1>0, <3>3, <3>4, <3>5 DEF ClaimsOK
    <3>6. CASE /\ claims' = claims + 1
               /\ \E i : conversions' = conversions \cup {[clip |-> i, claim |-> claims + 1, stage |-> "encode"]}
      <4>1. \A c \in conversions' : c \in conversions \/ c.claim = claims + 1
        BY <3>6
      <4>2. \A c \in conversions' : c.claim \in 1..claims'
        BY <3>6, <4>1 DEF ClaimsOK
      <4>3. claims' \in Nat /\ claims' + Cardinality(Claiming') <= MaxClaims
        BY <1>0, <3>3, <3>4, <3>6 DEF ClaimsOK
      <4> QED BY <3>4, <4>2, <4>3 DEF ClaimsOK
    <3> QED BY <2>5, <3>5, <3>6 DEF ClaimConversion
  <2>6. ASSUME NEW c \in conversions, Encode(c) \/ PutMP4(c) \/ RecordConvStatus(c)
        PROVE  ClaimsOK'
    <3>1. c \in [clip : Ids, claim : Nat, stage : {"encode", "put", "done", "failed"}]
      BY DEF ClipsTypes
    <3>2. \A s : [c EXCEPT !.stage = s].claim = c.claim
      BY <3>1
    <3>3. UNCHANGED <<cphase, claims>>
      BY <2>6 DEF Encode, PutMP4, RecordConvStatus
    <3>4. conversions' = conversions \ {c} \/ \E s : conversions' = (conversions \ {c}) \cup {[c EXCEPT !.stage = s]}
      BY <2>6 DEF Encode, PutMP4, RecordConvStatus, Stage
    <3>5. \A d \in conversions' : \E e \in conversions : d.claim = e.claim
      BY <3>2, <3>4
    <3> QED BY <1>2, <3>3, <3>5
  <2>7. CASE ClipsCrash
    <3>1. Claiming' \subseteq Claiming /\ claims' = claims /\ conversions' = {}
      BY <2>7 DEF ClipsCrash, Claiming
    <3> QED BY <1>0, <3>1, FewerClaim
  <2> QED BY <1>3, <2>1, <2>2, <2>3, <2>4, <2>5, <2>6, <2>7 DEF ClipsNext
<1>4. CASE UNCHANGED <<clipsVars, faults>>
  BY <1>2, <1>4 DEF clipsVars
<1> QED BY <1>3, <1>4

LEMMA ClipsTyped ==
  ASSUME ClipsInv, ClaimsOK, MaxClaims \in Nat
  PROVE  ClipsStateOK
<1>1. ClipsTypes
  BY DEF ClipsInv
<1>2. claims \in 0..MaxClaims
  BY DEF ClaimsOK
<1>3. ASSUME NEW c \in conversions
      PROVE  c \in Conversion
  <2>1. c \in [clip : Ids, claim : Nat, stage : {"encode", "put", "done", "failed"}]
    BY <1>1 DEF ClipsTypes
  <2>2. c.claim \in 1..MaxClaims
    BY <1>2 DEF ClaimsOK
  <2> QED BY <2>1, <2>2 DEF Conversion
<1> QED BY <1>1, <1>2, <1>3 DEF ClipsTypes, ClipsStateOK

\* The starts of the process are as many as there may be, and it has few things to open.
StartsOK == starts \in 0..MaxStarts

LEMMA StartsKept ==
  ASSUME AppAssumption, StartsOK, [AppNext]_<<appVars, faults>>
  PROVE  StartsOK'
<1>1. ASSUME NEW source \in Sources, NEW odd \in DOMAIN Settings[app], NEW raw \in Raws,
             LoadConfig(source, odd, raw)
      PROVE  StartsOK'
  BY <1>1 DEF LoadConfig, StartsOK, AppAssumption
<1>2. ASSUME UNCHANGED starts
      PROVE  StartsOK'
  BY <1>2 DEF StartsOK
<1>3. ASSUME NEW w \in Workers, NEW v \in Workers,
             \/ Accept(w) \/ Respond(w) \/ Enter(w) \/ ReadFailed(w) \/ LeaveQueue(w)
             \/ ExpireRoom(w) \/ Pair(v, w)
      PROVE  StartsOK'
  BY <1>2, <1>3 DEF Accept, Respond, Enter, ReadFailed, LeaveQueue, ExpireRoom, Pair
<1>4. CASE OpenDependency \/ StartWorkers \/ Signal \/ ListenFails \/ BeginShutdown \/ ShutdownReturns
  BY <1>2, <1>4 DEF OpenDependency, StartWorkers, Signal, ListenFails, BeginShutdown, ShutdownReturns
<1>5. CASE TickerStops \/ RunReturns \/ CloseClient \/ Exit \/ TickerPanics \/ Kill
  BY <1>2, <1>5 DEF TickerStops, RunReturns, CloseClient, Exit, TickerPanics, Kill, Dies
<1>6. CASE UNCHANGED <<appVars, faults>>
  BY <1>2, <1>6 DEF appVars
<1> QED BY <1>1, <1>3, <1>4, <1>5, <1>6 DEF AppNext

LEMMA AppTyped ==
  ASSUME AppInv, LoadedOK, StartsOK
  PROVE  AppTypeOK
<1>1. AppTypes
  BY DEF AppInv
<1>2. \A a \in Apps : Len(Opens[a]) <= 4
  <2>1. Apps = {"auth", "health", "koth", "matchmaking", "media", "ratings", "reports", "signaling", "store"}
    BY DEF Apps, Settings
  <2>2. /\ Len(AuthOpens) <= 4 /\ Len(HealthOpens) <= 4 /\ Len(KothOpens) <= 4 /\ Len(MatchmakingOpens) <= 4
        /\ Len(MediaOpens) <= 4 /\ Len(RatingsOpens) <= 4 /\ Len(ReportsOpens) <= 4 /\ Len(SignalingOpens) <= 4
        /\ Len(StoreOpens) <= 4
    BY DEF AuthOpens, HealthOpens, KothOpens, MatchmakingOpens, MediaOpens, RatingsOpens, ReportsOpens,
       SignalingOpens, StoreOpens
  <2> QED BY <2>1, <2>2 DEF Opens
<1>3. opened \in 0..4
  BY <1>1, <1>2, OpensTypes DEF AppTypes
<1>4. loaded \in Loaded \cup {None}
  <2> SUFFICES ASSUME loaded # None PROVE loaded \in Loaded
    OBVIOUS
  <2>1. PICK source \in Sources, odd \in DOMAIN Settings[app], raw \in Raws :
          loaded = [source |-> source, odd |-> odd, raw |-> raw, value |-> Load(app, source, odd, raw)]
    BY DEF LoadedOK
  <2>2. app \in Apps
    BY <1>1 DEF AppTypes
  <2>3. Load(app, source, odd, raw) \in Outcomes
    <3>1. Sound(Settings[app][odd])
      BY <2>2, SettingsAreFirm
    <3> QED BY <3>1 DEF Load, Sound, Becomes
  <2>4. odd \in UNION {DOMAIN Settings[a] : a \in Apps}
    BY <2>2
  <2> QED BY <2>1, <2>3, <2>4 DEF Loaded
<1> QED BY <1>1, <1>3, <1>4 DEF AppTypes, AppTypeOK, StartsOK

\* Each service has its invariant while it runs, and its types when another one does.
ServicesInv ==
  /\ IF service = "ratings" THEN RowsInv ELSE RatingsTypeOK
  /\ IF service = "ranks" THEN RanksInv ELSE RanksTypeOK
  /\ IF service = "reports" THEN ReportsInv ELSE ReportsTypeOK
  /\ IF service = "clips" THEN ClipsInv /\ AskedOK /\ ClaimsOK ELSE ClipsStateOK
  /\ IF service = "accounts" THEN AccountsInv /\ IdsOK ELSE AccountsTypeOK
  /\ IF service = "process" THEN AppInv /\ LoadedOK /\ StartsOK ELSE AppTypeOK

ServicesAssumption ==
  /\ RequestsAssumption /\ RatingsAssumption /\ RanksAssumption /\ ReportsAssumption
  /\ ClipsAssumption /\ AccountsAssumption /\ AppAssumption

LEMMA ServicesTyped ==
  ASSUME ServicesAssumption, IsFiniteSet(Codes), ServicesInv
  PROVE  ServicesTypeOK
<1>1. RatingsTypeOK
  BY DEF ServicesInv, RowsInv, RowTypes, RatingsTypeOK
<1>2. RanksTypeOK /\ ReportsTypeOK
  BY DEF ServicesInv, RanksInv, ReportsInv
<1>3. ClipsStateOK
  BY ClipsTyped DEF ServicesInv, ServicesAssumption, ClipsAssumption
<1>4. AccountsTypeOK
  BY AccountsTyped DEF ServicesInv, ServicesAssumption
<1>5. AppTypeOK
  BY AppTyped DEF ServicesInv
<1> QED BY <1>1, <1>2, <1>3, <1>4, <1>5 DEF ServicesTypeOK

LEMMA ServicesBegin ==
  ASSUME ServicesAssumption, ServicesInit, IsFiniteSet(Workers), IsFiniteSet(Codes)
  PROVE  ServicesInv
<1>0. /\ RequestsAssumption /\ RatingsAssumption /\ RanksAssumption /\ ReportsAssumption
      /\ ClipsAssumption /\ AccountsAssumption /\ AppAssumption
      /\ faults = 0 /\ RatingsInit /\ RanksInit /\ ReportsInit /\ ClipsInit /\ AccountsInit /\ AppInit
  BY DEF ServicesAssumption, ServicesInit
<1>1. RowsInv /\ RatingsTypeOK
  BY <1>0, RatingsInitRows DEF RowsInv, RowTypes, RatingsTypeOK
<1>2. RanksInv /\ RanksTypeOK
  BY <1>0, RanksInitInv DEF RanksInv
<1>3. ReportsInv /\ ReportsTypeOK
  BY <1>0, ReportsInitInv DEF ReportsInv
<1>4. ClipsInv /\ AskedOK /\ ClaimsOK /\ ClipsStateOK
  <2>1. ClipsInv
    BY <1>0, ClipsBegins
  <2>2. AskedOK
    BY <1>0 DEF ClipsInit, AskedOK
  <2>3. Claiming = {} /\ claims = 0 /\ conversions = {} /\ MaxClaims \in Nat
    BY <1>0 DEF ClipsInit, Claiming, ClipsAssumption
  <2>4. Cardinality(Claiming) = 0
    BY <2>3, FS_EmptySet
  <2>5. ClaimsOK
    BY <2>3, <2>4 DEF ClaimsOK
  <2> QED BY <2>1, <2>2, <2>3, <2>5, ClipsTyped
<1>5. AccountsInv /\ IdsOK /\ AccountsTypeOK
  <2>1. AccountsInv
    BY <1>0 DEF AccountsInit, AccountsInv, AccountsTypes, OneUserPerAccount, LoginOK, SessionsOK, NoLogin,
       AccountsAssumption
  <2>2. IdsOK
    BY <1>0 DEF AccountsInit, IdsOK, NoLogin
  <2> QED BY <1>0, <2>1, <2>2, AccountsTyped
<1>6. AppInv /\ LoadedOK /\ StartsOK /\ AppTypeOK
  <2>1. AppInv
    BY <1>0, AppInitInv
  <2>2. LoadedOK /\ StartsOK
    BY <1>0 DEF AppInit, LoadedOK, StartsOK, AppAssumption
  <2> QED BY <2>1, <2>2, AppTyped
<1> QED BY <1>1, <1>2, <1>3, <1>4, <1>5, <1>6 DEF ServicesInv

\* One service runs, the same for ever, and nothing of the others changes.
LEMMA OneServiceRuns ==
  ASSUME [ServicesNext]_servicesVars
  PROVE  /\ service' = service
         /\ IF service = "ratings" THEN [RatingsNext]_<<ratingsVars, faults>> ELSE UNCHANGED ratingsVars
         /\ IF service = "ranks" THEN [RanksNext]_<<ranksVars, faults>> ELSE UNCHANGED ranksVars
         /\ IF service = "reports" THEN [ReportsNext]_<<reportsVars, faults>> ELSE UNCHANGED reportsVars
         /\ IF service = "clips" THEN [ClipsNext]_<<clipsVars, faults>> ELSE UNCHANGED clipsVars
         /\ IF service = "accounts" THEN [AccountsNext]_<<accountsVars, faults>> ELSE UNCHANGED accountsVars
         /\ IF service = "process" THEN [AppNext]_<<appVars, faults>> ELSE UNCHANGED appVars
<1>1. CASE UNCHANGED servicesVars
  BY <1>1 DEF servicesVars
<1>2. CASE ServicesNext
  BY <1>2 DEF ServicesNext
<1> QED BY <1>1, <1>2

LEMMA ServicesStep ==
  ASSUME ServicesAssumption, ServicesInv, [ServicesNext]_servicesVars, IsFiniteSet(Workers)
  PROVE  ServicesInv'
<1>0. /\ RequestsAssumption /\ RatingsAssumption /\ RanksAssumption /\ ReportsAssumption
      /\ ClipsAssumption /\ AccountsAssumption /\ AppAssumption
  BY DEF ServicesAssumption
<1>s. service' = service
  BY OneServiceRuns
<1>1. IF service = "ratings" THEN RowsInv' ELSE RatingsTypeOK'
  <2>1. CASE service = "ratings"
    BY <1>0, <2>1, OneServiceRuns, RatingsStepRows DEF ServicesInv
  <2>2. CASE service # "ratings"
    <3>1. UNCHANGED ratingsVars /\ RatingsTypeOK
      BY <2>2, OneServiceRuns DEF ServicesInv
    <3> QED BY <2>2, <3>1 DEF ratingsVars, RatingsTypeOK
  <2> QED BY <2>1, <2>2
<1>2. IF service = "ranks" THEN RanksInv' ELSE RanksTypeOK'
  <2>1. CASE service = "ranks"
    BY <1>0, <2>1, OneServiceRuns, RanksStepInv DEF ServicesInv
  <2>2. CASE service # "ranks"
    <3>1. UNCHANGED ranksVars /\ RanksTypeOK
      BY <2>2, OneServiceRuns DEF ServicesInv
    <3> QED BY <2>2, <3>1 DEF ranksVars, RanksTypeOK
  <2> QED BY <2>1, <2>2
<1>3. IF service = "reports" THEN ReportsInv' ELSE ReportsTypeOK'
  <2>1. CASE service = "reports"
    BY <1>0, <2>1, OneServiceRuns, ReportsStep DEF ServicesInv
  <2>2. CASE service # "reports"
    <3>1. UNCHANGED reportsVars /\ ReportsTypeOK
      BY <2>2, OneServiceRuns DEF ServicesInv
    <3> QED BY <2>2, <3>1 DEF reportsVars, ReportsTypeOK
  <2> QED BY <2>1, <2>2
<1>4. IF service = "clips" THEN ClipsInv' /\ AskedOK' /\ ClaimsOK' ELSE ClipsStateOK'
  <2>1. CASE service = "clips"
    <3>1. ClipsInv /\ AskedOK /\ ClaimsOK /\ [ClipsNext]_<<clipsVars, faults>>
      BY <2>1, OneServiceRuns DEF ServicesInv
    <3>2. ClipsInv' /\ AskedOK'
      BY <1>0, <3>1, ClipsStep
    <3>3. ClaimsOK'
      BY <1>0, <3>1, ClaimsKept DEF ClipsInv
    <3> QED BY <2>1, <3>2, <3>3
  <2>2. CASE service # "clips"
    <3>1. UNCHANGED clipsVars /\ ClipsStateOK
      BY <2>2, OneServiceRuns DEF ServicesInv
    <3> QED BY <2>2, <3>1 DEF clipsVars, ClipsStateOK
  <2> QED BY <2>1, <2>2
<1>5. IF service = "accounts" THEN AccountsInv' /\ IdsOK' ELSE AccountsTypeOK'
  <2>1. CASE service = "accounts"
    <3>1. AccountsInv /\ IdsOK /\ [AccountsNext]_<<accountsVars, faults>>
      BY <2>1, OneServiceRuns DEF ServicesInv
    <3> QED BY <1>0, <2>1, <3>1, AccountsStepInv, IdsStep
  <2>2. CASE service # "accounts"
    <3>1. UNCHANGED accountsVars /\ AccountsTypeOK
      BY <2>2, OneServiceRuns DEF ServicesInv
    <3> QED BY <2>2, <3>1 DEF accountsVars, AccountsTypeOK
  <2> QED BY <2>1, <2>2
<1>6. IF service = "process" THEN AppInv' /\ LoadedOK' /\ StartsOK' ELSE AppTypeOK'
  <2>1. CASE service = "process"
    <3>1. AppInv /\ LoadedOK /\ StartsOK /\ [AppNext]_<<appVars, faults>>
      BY <2>1, OneServiceRuns DEF ServicesInv
    <3> QED BY <1>0, <2>1, <3>1, AppStepInv, LoadedStep, StartsKept
  <2>2. CASE service # "process"
    <3>1. UNCHANGED appVars /\ AppTypeOK
      BY <2>2, OneServiceRuns DEF ServicesInv
    <3> QED BY <2>2, <3>1 DEF appVars, AppTypeOK
  <2> QED BY <2>1, <2>2
<1> QED BY <1>s, <1>1, <1>2, <1>3, <1>4, <1>5, <1>6 DEF ServicesInv

\* Whatever fails, and however many requests race: a user has one row and his own, a conversion is
\* one of those that were allowed, the process runs with a value its configuration can have, and
\* every counter, phase and row of the six is of its type (the services of ratings, koth's ranks,
\* reports, media and auth, and the life of every service's process).
THEOREM ServicesAlwaysTyped ==
  ASSUME RequestsAssumption, RatingsAssumption, RanksAssumption, ReportsAssumption,
         ClipsAssumption, AccountsAssumption, AppAssumption, IsFiniteSet(Workers), IsFiniteSet(Codes)
  PROVE  ServicesSpec => []ServicesTypeOK
<1>0. ServicesAssumption
  BY DEF ServicesAssumption
<1>1. ServicesInit => ServicesInv
  BY <1>0, ServicesBegin
<1>2. ServicesInv /\ [ServicesNext]_servicesVars => ServicesInv'
  BY <1>0, ServicesStep
<1>3. ServicesInv => ServicesTypeOK
  BY <1>0, ServicesTyped
<1> QED BY <1>1, <1>2, <1>3, PTL DEF ServicesSpec
=============================================================================
