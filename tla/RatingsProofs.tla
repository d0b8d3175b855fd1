--------------------------- MODULE RatingsProofs ---------------------------
(***************************************************************************)
(* Theorems about Ratings, for any players, results, faults and number of  *)
(* requests at a time.                                                     *)
(***************************************************************************)
EXTENDS Ratings, FiniteSetTheorems, TLAPS

----------------------------------------------------------------------------
(* The arithmetic of elo stays within its types *)

LEMMA LevelIsLevel ==
  ASSUME RatingsAssumption, NEW elo \in Int
  PROVE  LevelForELO(elo) \in 1..(Len(Bands) + 1)
<1> DEFINE above == {i \in DOMAIN Bands : elo > Bands[i]}
<1>0. Bands \in Seq(Int)
  BY DEF RatingsAssumption
<1>1. PICK n \in Nat : n = Len(Bands) /\ DOMAIN Bands = 1..n
  BY <1>0
<1>2. IsFiniteSet(1..n) /\ Cardinality(1..n) = IF 1 > n THEN 0 ELSE n - 1 + 1
  <2>1. 1 \in Int /\ n \in Int
    OBVIOUS
  <2> QED  BY <2>1, FS_Interval, Zenon
<1>3. Cardinality(1..n) = n
  BY <1>2
<1>4. above \in SUBSET (1..n)
  BY <1>1
<1>5. IsFiniteSet(above) /\ Cardinality(above) <= n
  BY <1>2, <1>3, <1>4, FS_Subset
<1>6. Cardinality(above) \in Nat
  BY <1>5, FS_CardinalityType
<1> QED  BY <1>1, <1>5, <1>6 DEF LevelForELO

LEMMA ExpectedIsScore ==
  ASSUME RatingsAssumption, NEW d \in Int
  PROVE  Expected(d) \in Scores
<1>1. ASSUME NEW c \in Nat
      PROVE  ExpectedScore[Capped(c)] \in Scores
  <2>1. Capped(c) \in 0..MaxDiff
    BY DEF Capped, RatingsAssumption
  <2> QED  BY <2>1 DEF RatingsAssumption
<1>2. CASE d >= 0
  BY <1>1, <1>2 DEF Expected
<1>3. CASE ~(d >= 0)
  <2>1. -d \in Nat
    BY <1>3
  <2>2. ExpectedScore[Capped(-d)] \in Scores
    BY <2>1, <1>1
  <2>3. PICK s \in Scores : s = ExpectedScore[Capped(-d)]
    BY <2>2, Zenon
  <2>4. PICK q \in Scores : q = 1000 - s
    BY DEF Scores
  <2>5. Expected(d) = q
    BY <2>3, <2>4, <1>3 DEF Expected
  <2> QED  BY <2>5
<1> QED  BY <1>2, <1>3

LEMMA DeltasAreIntegers ==
  ASSUME RatingsAssumption, NEW w \in Rating, NEW l \in Rating
  PROVE  WinnerDelta(w, l) \in Int /\ LoserDelta(w, l) \in Int
<1>1. PICK d \in Int : d = w.elo - l.elo
  BY DEF Rating
<1>2. PICK e \in Scores : e = Expected(d)
  BY ExpectedIsScore
<1>e. e \in Int
  BY DEF Scores
<1>3. \A g : KFactor(g) \in {32, 64}
  BY DEF KFactor
<1>4. ASSUME NEW n \in Int, NEW m \in {1000, 5000}
      PROVE  Rounded(n, m) \in Int
  <2>1. CASE m = 1000
    BY <2>1 DEF Rounded
  <2>2. CASE m = 5000
    BY <2>2 DEF Rounded
  <2> QED  BY <2>1, <2>2
<1>5. ASSUME NEW k \in {32, 64}
      PROVE  k * (1000 - e) \in Int /\ -4 * k * (1000 - e) \in Int
  BY <1>e, <1>5
<1>6. WinnerDelta(w, l) \in Int
  <2>1. PICK k \in {32, 64} : k = KFactor(w.games)
    BY <1>3
  <2>2. PICK n \in Int : n = k * (1000 - e)
    BY <1>5
  <2>3. WinnerDelta(w, l) = Rounded(n, 1000)
    BY <1>1, <1>2, <2>1, <2>2 DEF WinnerDelta
  <2> QED  BY <1>4, <2>3
<1>7. LoserDelta(w, l) \in Int
  <2>1. PICK k \in {32, 64} : k = KFactor(l.games)
    BY <1>3
  <2>2. PICK n \in Int : n = -4 * k * (1000 - e)
    BY <1>5
  <2>3. LoserDelta(w, l) = Rounded(n, 5000)
    BY <1>1, <1>2, <2>1, <2>2 DEF LoserDelta
  <2> QED  BY <1>4, <2>3
<1> QED  BY <1>6, <1>7

LEMMA AfterIsRating ==
  ASSUME RatingsAssumption, NEW before \in Rating, NEW delta \in Int
  PROVE  After(before, delta) \in Rating
<1>1. before.elo + delta \in Int /\ before.games + 1 \in Nat
  BY DEF Rating
<1>2. LevelForELO(before.elo + delta) \in 1..(Len(Bands) + 1)
  BY <1>1, LevelIsLevel
<1> QED  BY <1>1, <1>2 DEF After, Rating

LEMMA RatingIsNotNone ==
  ASSUME RatingsAssumption
  PROVE  None \notin Rating
<1>1. Rating \subseteq [elo : Int, level : Nat, games : Nat]
  <2>1. Len(Bands) \in Nat
    BY DEF RatingsAssumption
  <2>2. 1..(Len(Bands) + 1) \subseteq Nat
    BY <2>1
  <2> QED  BY <2>2 DEF Rating
<1> QED  BY <1>1 DEF RatingsAssumption

LEMMA DefaultIsRating ==
  ASSUME RatingsAssumption
  PROVE  DefaultRating \in Rating
BY LevelIsLevel DEF DefaultRating, Rating, RatingsAssumption

----------------------------------------------------------------------------
(* The inductive invariant *)

\* Worker w has the row of u and has read what is in it.
Holding(w, u) == rowLock[u] = w /\ applying[w].read[u] = GetRating(u)

TxOK(w) ==
  /\ rphase[w] # "idle" =>
       applying[w].winner \in Users /\ applying[w].loser \in Users /\ applying[w].winner # applying[w].loser
  /\ rphase[w] = "lockSecond" => Holding(w, FirstID(w))
  /\ rphase[w] = "update" => Holding(w, applying[w].winner) /\ Holding(w, applying[w].loser)

Inserted(w, u) == rowLock[u] = w \/ ratings[u] # None

\* Which rows it has in which phase: those it inserted, until it has read them.
LocksOK(w) ==
  /\ \A u \in Users : rowLock[u] = w =>
       /\ rphase[w] \in InTx
       /\ u \in {FirstID(w), SecondID(w)}
       /\ rphase[w] \in {"upsertFirst", "upsertSecond", "lockFirst"} => ratings[u] = None
  /\ rphase[w] = "upsertFirst" => \A u \in Users : rowLock[u] # w
  /\ rphase[w] = "upsertSecond" => rowLock[SecondID(w)] # w
  /\ rphase[w] \in {"upsertSecond", "lockFirst"} => Inserted(w, FirstID(w))
  /\ rphase[w] \in {"lockFirst", "lockSecond"} => Inserted(w, SecondID(w))
  /\ rphase[w] = "lockSecond" /\ rowLock[SecondID(w)] = w => ratings[SecondID(w)] = None

RowTypes ==
  /\ ratings \in [Users -> Rating \cup {None}]
  /\ results \in Seq(Result)
  /\ won \in SUBSET [user : Users, reason : {"match_win", "level_up"}, match : Nat]
  /\ rowLock \in [Users -> Workers \cup {None}]
  /\ rphase \in [Workers -> RatingsPhases]
  /\ applying \in [Workers -> Match]
  /\ faults \in Nat

RowsInv ==
  /\ RowTypes
  /\ \A w \in Workers : TxOK(w)
  /\ \A w \in Workers : LocksOK(w)

LEMMA GetRatingIsRating ==
  ASSUME RatingsAssumption, RowTypes, NEW u \in Users
  PROVE  GetRating(u) \in Rating
BY DefaultIsRating DEF GetRating, RowTypes

\* The ids in order: two users, the smaller first.
LEMMA IdsInOrder ==
  ASSUME RatingsAssumption, NEW w \in Workers, applying[w].winner \in Users, applying[w].loser \in Users,
         applying[w].winner # applying[w].loser
  PROVE  /\ FirstID(w) \in Users /\ SecondID(w) \in Users
         /\ FirstID(w) < SecondID(w) /\ FirstID(w) # SecondID(w)
         /\ {FirstID(w), SecondID(w)} = {applying[w].winner, applying[w].loser}
<1>1. PICK x \in Nat, y \in Nat : x = applying[w].winner /\ y = applying[w].loser
  BY DEF RatingsAssumption
<1>2. CASE x < y
  <2>1. FirstID(w) = x /\ SecondID(w) = y
    BY <1>1, <1>2 DEF FirstID, SecondID
  <2> QED  BY <1>1, <1>2, <2>1
<1>3. CASE ~(x < y)
  <2>1. FirstID(w) = y /\ SecondID(w) = x
    BY <1>1, <1>3 DEF FirstID, SecondID
  <2>2. y < x
    BY <1>1, <1>3
  <2> QED  BY <1>1, <2>1, <2>2
<1> QED  BY <1>2, <1>3

\* A worker that takes rows nobody has, gives back its own and writes to its own leaves what is
\* known of the others.
LEMMA OthersKept ==
  ASSUME RatingsAssumption, RowsInv, NEW v \in Workers, NEW w \in Workers, w # v,
         rphase'[w] = rphase[w], applying'[w] = applying[w],
         \A u \in Users : rowLock'[u] = w <=> rowLock[u] = w,
         \A u \in Users : rowLock[u] # v => ratings'[u] = ratings[u],
         \A u \in Users : ratings[u] # None => ratings'[u] # None
  PROVE  TxOK(w)' /\ LocksOK(w)'
<1> USE DEF RowsInv
<1>1. FirstID(w)' = FirstID(w) /\ SecondID(w)' = SecondID(w)
  BY DEF FirstID, SecondID
<1>2. \A u \in Users : rowLock[u] = w => ratings'[u] = ratings[u] /\ GetRating(u)' = GetRating(u)
  BY DEF GetRating
<1>3. \A u \in Users : Holding(w, u) => Holding(w, u)'
  BY <1>2 DEF Holding
<1>4. \A u \in Users : Inserted(w, u) => Inserted(w, u)'
  BY DEF Inserted
<1>5. CASE rphase[w] = "idle"
  BY <1>5 DEF TxOK, LocksOK, InTx
<1>6. CASE rphase[w] # "idle"
  <2>1. PICK f \in Users, s \in Users : f = FirstID(w) /\ s = SecondID(w)
    BY <1>6, IdsInOrder DEF TxOK
  <2>2. f = FirstID(w)' /\ s = SecondID(w)'
    BY <1>1, <2>1
  <2>3. TxOK(w)'
    <3>1. rphase[w] = "lockSecond" => Holding(w, f)'
      BY <1>3, <2>1 DEF TxOK
    <3>2. PICK x \in Users, y \in Users : x = applying[w].winner /\ y = applying[w].loser
      BY <1>6 DEF TxOK
    <3>3. rphase[w] = "update" => Holding(w, x)' /\ Holding(w, y)'
      BY <1>3, <3>2 DEF TxOK
    <3>4. x # y /\ x = applying'[w].winner /\ y = applying'[w].loser
      BY <1>6, <3>2 DEF TxOK
    <3> QED  BY <2>2, <3>1, <3>3, <3>4 DEF TxOK
  <2>4. ASSUME NEW u \in Users, rowLock'[u] = w
        PROVE  /\ rphase'[w] \in InTx
               /\ u \in {f, s}
               /\ rphase'[w] \in {"upsertFirst", "upsertSecond", "lockFirst"} => ratings'[u] = None
    BY <1>2, <2>1, <2>4 DEF LocksOK
  <2>5. /\ rphase'[w] = "upsertFirst" => \A u \in Users : rowLock'[u] # w
        /\ rphase'[w] = "upsertSecond" => rowLock'[s] # w
    BY <2>1 DEF LocksOK
  <2>6. rphase'[w] \in {"upsertSecond", "lockFirst"} => Inserted(w, f)'
    BY <1>4, <2>1 DEF LocksOK
  <2>7. rphase'[w] \in {"lockFirst", "lockSecond"} => Inserted(w, s)'
    BY <1>4, <2>1 DEF LocksOK
  <2>8. rphase'[w] = "lockSecond" /\ rowLock'[s] = w => ratings'[s] = None
    BY <1>2, <2>1 DEF LocksOK
  <2>9. LocksOK(w)'
    BY <2>2, <2>4, <2>5, <2>6, <2>7, <2>8 DEF LocksOK, Inserted
  <2> QED  BY <2>3, <2>9
<1> QED  BY <1>5, <1>6

\* A worker that is in no transaction has no row.
LEMMA IdleIsOK ==
  ASSUME NEW v \in Workers, rphase'[v] \notin InTx, \A u \in Users : rowLock'[u] # v,
         rphase'[v] = "idle" \/ (/\ applying'[v].winner \in Users /\ applying'[v].loser \in Users
                                 /\ applying'[v].winner # applying'[v].loser)
  PROVE  TxOK(v)' /\ LocksOK(v)'
BY DEF TxOK, LocksOK, InTx

\* Only the rows of v are freed when it is done.
LEMMA ReleasedFrees ==
  ASSUME RowsInv, RequestsAssumption, NEW v \in Workers, rowLock' = Released(v)
  PROVE  /\ rowLock' \in [Users -> Workers \cup {None}]
         /\ \A u \in Users : rowLock'[u] # v
         /\ \A w \in Workers, u \in Users : w # v => (rowLock'[u] = w <=> rowLock[u] = w)
BY DEF RowsInv, RowTypes, Released, RequestsAssumption

LEMMA NoMatchIsMatch ==
  NoMatch \in Match
BY DEF NoMatch, Match, NothingRead

LEMMA PhaseStep ==
  ASSUME RowsInv, NEW v \in Workers, NEW p \in RatingsPhases, Advance(v, p)
  PROVE  /\ rphase' \in [Workers -> RatingsPhases] /\ rphase'[v] = p
         /\ \A w \in Workers : w # v => rphase'[w] = rphase[w]
BY DEF RowsInv, RowTypes, Advance

LEMMA EndStep ==
  ASSUME RowsInv, NEW v \in Workers, End(v)
  PROVE  /\ rphase' \in [Workers -> RatingsPhases] /\ rphase'[v] = "idle"
         /\ applying' \in [Workers -> Match]
         /\ \A w \in Workers : w # v => rphase'[w] = rphase[w] /\ applying'[w] = applying[w]
<1>1. "idle" \in RatingsPhases
  BY DEF RatingsPhases
<1>2. Advance(v, "idle") /\ applying' = [applying EXCEPT ![v] = NoMatch]
  BY DEF End
<1> QED  BY <1>1, <1>2, PhaseStep, NoMatchIsMatch DEF RowsInv, RowTypes

\* A step of v leaves the invariant if v, its rows and what it wrote are as they should be.
LEMMA RowsKept ==
  ASSUME RatingsAssumption, RowsInv, NEW v \in Workers, RowTypes',
         \A w \in Workers : w # v => rphase'[w] = rphase[w] /\ applying'[w] = applying[w],
         \A w \in Workers, u \in Users : w # v => (rowLock'[u] = w <=> rowLock[u] = w),
         \A u \in Users : rowLock[u] # v => ratings'[u] = ratings[u],
         \A u \in Users : ratings[u] # None => ratings'[u] # None,
         TxOK(v)' /\ LocksOK(v)'
  PROVE  RowsInv'
<1>1. ASSUME NEW w \in Workers, w # v
      PROVE  TxOK(w)' /\ LocksOK(w)'
  BY <1>1, OthersKept
<1> QED  BY <1>1 DEF RowsInv

LEMMA PostRows ==
  ASSUME RatingsAssumption, RequestsAssumption, RowsInv, NEW v \in Workers, NEW x \in Users, NEW y \in Users,
         PostMatchResult(v, x, y)
  PROVE  RowsInv'
<1>1. PICK m : m = [NoMatch EXCEPT !.winner = x, !.loser = y]
  OBVIOUS
<1>2. m.winner = x /\ m.loser = y /\ m \in Match
  BY <1>1 DEF NoMatch, Match, NothingRead
<1>3. /\ rphase[v] = "idle" /\ x # y
      /\ applying' = [applying EXCEPT ![v] = m]
      /\ Advance(v, "upsertFirst")
      /\ UNCHANGED <<ratings, results, rowLock, won, faults>>
  BY <1>1 DEF PostMatchResult
<1>4. /\ rphase' \in [Workers -> RatingsPhases] /\ rphase'[v] = "upsertFirst"
      /\ \A w \in Workers : w # v => rphase'[w] = rphase[w]
  BY <1>3, PhaseStep DEF RatingsPhases, InTx
<1>5. /\ applying' \in [Workers -> Match] /\ applying'[v] = m
      /\ \A w \in Workers : w # v => applying'[w] = applying[w]
  BY <1>2, <1>3 DEF RowsInv, RowTypes
<1>6. RowTypes'
  BY <1>3, <1>4, <1>5 DEF RowsInv, RowTypes
<1>7. \A u \in Users : rowLock[u] # v
  BY <1>3 DEF RowsInv, LocksOK, InTx
<1>8. TxOK(v)' /\ LocksOK(v)'
  BY <1>2, <1>3, <1>4, <1>5, <1>7 DEF TxOK, LocksOK, InTx
<1> QED  BY <1>3, <1>4, <1>5, <1>6, <1>8, RowsKept

LEMMA UpsertRows ==
  ASSUME RatingsAssumption, RequestsAssumption, RowsInv, NEW v \in Workers, UpsertDefault(v)
  PROVE  RowsInv'
<1>0. rphase[v] \in {"upsertFirst", "upsertSecond"} /\ TxOK(v) /\ LocksOK(v)
  BY DEF UpsertDefault, RowsInv
<1>a. applying[v].winner \in Users /\ applying[v].loser \in Users /\ applying[v].winner # applying[v].loser
  BY <1>0 DEF TxOK
<1>1. PICK f \in Users, s \in Users : f = FirstID(v) /\ s = SecondID(v) /\ f < s /\ f # s
  BY <1>a, IdsInOrder
<1>2. UNCHANGED <<ratings, results, applying, won, faults>> /\ Advance(v, NextPhase(rphase[v]))
  BY DEF UpsertDefault
<1>3. f = FirstID(v)' /\ s = SecondID(v)'
  BY <1>1, <1>2 DEF FirstID, SecondID
<1>4. PICK u \in Users : u = RowOf(v)
  BY <1>1 DEF RowOf
<1>5. \/ ratings[u] # None /\ rowLock' = rowLock
      \/ ratings[u] = None /\ rowLock[u] \in {None, v} /\ rowLock' = [rowLock EXCEPT ![u] = v]
  BY <1>4 DEF UpsertDefault
<1>b. rowLock \in [Users -> Workers \cup {None}] /\ None \notin Workers
  BY DEF RowsInv, RowTypes, RequestsAssumption
<1>6. rowLock' \in [Users -> Workers \cup {None}] /\ Inserted(v, u)'
  <2>1. CASE ratings[u] # None /\ rowLock' = rowLock
    BY <1>2, <1>b, <2>1 DEF Inserted
  <2>2. CASE ratings[u] = None /\ rowLock[u] \in {None, v} /\ rowLock' = [rowLock EXCEPT ![u] = v]
    BY <1>b, <2>2 DEF Inserted
  <2> QED  BY <1>5, <2>1, <2>2
<1>7. /\ \A w \in Workers, x \in Users : w # v => (rowLock'[x] = w <=> rowLock[x] = w)
      /\ \A x \in Users : x # u => rowLock'[x] = rowLock[x]
      /\ rowLock'[u] = v => rowLock[u] = v \/ ratings[u] = None
  <2>1. CASE ratings[u] # None /\ rowLock' = rowLock
    BY <2>1
  <2>2. CASE ratings[u] = None /\ rowLock[u] \in {None, v} /\ rowLock' = [rowLock EXCEPT ![u] = v]
    BY <1>b, <2>2
  <2> QED  BY <1>5, <2>1, <2>2
<1>8. CASE rphase[v] = "upsertFirst"
  <2>1. u = f /\ NextPhase(rphase[v]) = "upsertSecond"
    BY <1>1, <1>4, <1>8 DEF RowOf, NextPhase
  <2>2. /\ rphase' \in [Workers -> RatingsPhases] /\ rphase'[v] = "upsertSecond"
        /\ \A w \in Workers : w # v => rphase'[w] = rphase[w]
    BY <1>2, <2>1, PhaseStep DEF RatingsPhases, InTx
  <2>3. RowTypes'
    BY <1>2, <1>6, <2>2 DEF RowsInv, RowTypes
  <2>4. \A x \in Users : rowLock'[x] = v => x = f /\ ratings'[x] = None
    BY <1>0, <1>2, <1>7, <1>8, <2>1 DEF LocksOK
  <2>5. LocksOK(v)'
    BY <1>1, <1>3, <1>6, <2>1, <2>2, <2>4 DEF LocksOK, InTx, Inserted
  <2>6. TxOK(v)'
    BY <1>0, <1>2, <2>2 DEF TxOK
  <2> QED  BY <1>2, <1>7, <2>2, <2>3, <2>5, <2>6, RowsKept
<1>9. CASE rphase[v] = "upsertSecond"
  <2>1. u = s /\ NextPhase(rphase[v]) = "lockFirst"
    BY <1>1, <1>4, <1>9 DEF RowOf, NextPhase
  <2>2. /\ rphase' \in [Workers -> RatingsPhases] /\ rphase'[v] = "lockFirst"
        /\ \A w \in Workers : w # v => rphase'[w] = rphase[w]
    BY <1>2, <2>1, PhaseStep DEF RatingsPhases, InTx
  <2>3. RowTypes'
    BY <1>2, <1>6, <2>2 DEF RowsInv, RowTypes
  <2>4. \A x \in Users : rowLock'[x] = v => x \in {f, s} /\ ratings'[x] = None
    BY <1>0, <1>1, <1>2, <1>7, <1>9, <2>1 DEF LocksOK
  <2>5. Inserted(v, f)'
    BY <1>0, <1>1, <1>2, <1>7, <1>9, <2>1 DEF LocksOK, Inserted
  <2>6. LocksOK(v)'
    BY <1>3, <1>6, <2>1, <2>2, <2>4, <2>5 DEF LocksOK, InTx, Inserted
  <2>7. TxOK(v)'
    BY <1>0, <1>2, <2>2 DEF TxOK
  <2> QED  BY <1>2, <1>7, <2>2, <2>3, <2>6, <2>7, RowsKept
<1> QED  BY <1>0, <1>8, <1>9

LEMMA LockRows ==
  ASSUME RatingsAssumption, RequestsAssumption, RowsInv, NEW v \in Workers, LockRating(v)
  PROVE  RowsInv'
<1>0. rphase[v] \in {"lockFirst", "lockSecond"} /\ TxOK(v) /\ LocksOK(v) /\ RowTypes
  BY DEF LockRating, RowsInv
<1>a. applying[v].winner \in Users /\ applying[v].loser \in Users /\ applying[v].winner # applying[v].loser
  BY <1>0 DEF TxOK
<1>1. PICK f \in Users, s \in Users : f = FirstID(v) /\ s = SecondID(v) /\ f < s /\ f # s
  BY <1>a, IdsInOrder
<1>2. PICK u \in Users : u = RowOf(v)
  BY <1>1 DEF RowOf
<1>3. /\ rowLock[u] \in {None, v} /\ rowLock' = [rowLock EXCEPT ![u] = v]
      /\ applying' = [applying EXCEPT ![v].read[u] = GetRating(u)]
      /\ Advance(v, NextPhase(rphase[v]))
      /\ UNCHANGED <<ratings, results, won, faults>>
  BY <1>2 DEF LockRating, Holds
<1>4. PICK r \in Rating : r = GetRating(u)
  BY <1>0, GetRatingIsRating
<1>5. PICK m : m = [applying[v] EXCEPT !.read = [applying[v].read EXCEPT ![u] = r]]
  OBVIOUS
<1>6. /\ applying[v] \in Match /\ applying[v].read \in [Users -> Rating \cup {None}]
  BY <1>0 DEF RowTypes, Match
<1>7. /\ m \in Match /\ m.winner = applying[v].winner /\ m.loser = applying[v].loser
      /\ m.read = [applying[v].read EXCEPT ![u] = r]
  BY <1>5, <1>6 DEF Match
<1>8. /\ applying' \in [Workers -> Match] /\ applying'[v] = m
      /\ \A w \in Workers : w # v => applying'[w] = applying[w]
  BY <1>0, <1>3, <1>4, <1>5, <1>7 DEF RowTypes
<1>9. f = FirstID(v)' /\ s = SecondID(v)'
  BY <1>1, <1>7, <1>8 DEF FirstID, SecondID
<1>10. m.read[u] = r /\ \A x \in Users : x # u => m.read[x] = applying[v].read[x]
  BY <1>6, <1>7
<1>11. /\ rowLock' \in [Users -> Workers \cup {None}] /\ rowLock'[u] = v
       /\ \A x \in Users : x # u => rowLock'[x] = rowLock[x]
       /\ \A w \in Workers, x \in Users : w # v => (rowLock'[x] = w <=> rowLock[x] = w)
  BY <1>0, <1>3 DEF RowTypes, RequestsAssumption
<1>12. Holding(v, u)'
  BY <1>3, <1>4, <1>8, <1>10, <1>11 DEF Holding, GetRating
<1>13. CASE rphase[v] = "lockFirst"
  <2>1. u = f /\ NextPhase(rphase[v]) = "lockSecond"
    BY <1>1, <1>2, <1>13 DEF RowOf, NextPhase
  <2>2. /\ rphase' \in [Workers -> RatingsPhases] /\ rphase'[v] = "lockSecond"
        /\ \A w \in Workers : w # v => rphase'[w] = rphase[w]
    BY <1>3, <2>1, PhaseStep DEF RatingsPhases, InTx
  <2>3. RowTypes'
    BY <1>0, <1>3, <1>8, <1>11, <2>2 DEF RowTypes
  <2>4. \A x \in Users : rowLock'[x] = v => x \in {f, s} /\ (x = s => ratings'[x] = None)
    BY <1>0, <1>1, <1>3, <1>11, <1>13, <2>1 DEF LocksOK
  <2>5. Inserted(v, s)'
    BY <1>0, <1>1, <1>3, <1>11, <1>13, <2>1 DEF LocksOK, Inserted
  <2>6. LocksOK(v)'
    BY <1>9, <2>2, <2>4, <2>5 DEF LocksOK, InTx, Inserted
  <2>7. TxOK(v)'
    BY <1>0, <1>7, <1>8, <1>9, <1>12, <2>1, <2>2 DEF TxOK, Holding
  <2> QED  BY <1>3, <1>8, <1>11, <2>2, <2>3, <2>6, <2>7, RowsKept
<1>14. CASE rphase[v] = "lockSecond"
  <2>1. u = s /\ NextPhase(rphase[v]) = "update"
    BY <1>1, <1>2, <1>14 DEF RowOf, NextPhase
  <2>2. /\ rphase' \in [Workers -> RatingsPhases] /\ rphase'[v] = "update"
        /\ \A w \in Workers : w # v => rphase'[w] = rphase[w]
    BY <1>3, <2>1, PhaseStep DEF RatingsPhases, InTx
  <2>3. RowTypes'
    BY <1>0, <1>3, <1>8, <1>11, <2>2 DEF RowTypes
  <2>4. \A x \in Users : rowLock'[x] = v => x \in {f, s}
    BY <1>0, <1>1, <1>11, <2>1 DEF LocksOK
  <2>5. LocksOK(v)'
    BY <1>9, <2>2, <2>4 DEF LocksOK, InTx
  <2>6. Holding(v, f)
    BY <1>0, <1>1, <1>14 DEF TxOK
  <2>7. Holding(v, f)'
    BY <1>1, <1>3, <1>8, <1>10, <1>11, <2>1, <2>6 DEF Holding, GetRating
  <2>8. {applying'[v].winner, applying'[v].loser} = {f, s}
    BY <1>0, <1>1, <1>7, <1>8, <1>14, IdsInOrder DEF TxOK
  <2>9. TxOK(v)'
    <3>1. PICK x \in Users, y \in Users : x = applying'[v].winner /\ y = applying'[v].loser /\ x # y
      BY <1>0, <1>7, <1>8, <1>14 DEF TxOK
    <3>2. x \in {f, s} /\ y \in {f, s}
      BY <2>8, <3>1
    <3>3. Holding(v, x)' /\ Holding(v, y)'
      BY <3>2, <2>1, <2>7, <1>12
    <3> QED  BY <3>1, <3>3, <2>2 DEF TxOK
  <2> QED  BY <1>3, <1>8, <1>11, <2>2, <2>3, <2>5, <2>9, RowsKept
<1> QED  BY <1>0, <1>13, <1>14

\* What a commit writes: two ratings, each moved from what was in the row, and the result.
CommitOf(x, y, up, down) ==
  /\ x # y /\ rowLock[x] \in Workers /\ rowLock[y] = rowLock[x]
  /\ up = WinnerDelta(GetRating(x), GetRating(y))
  /\ down = LoserDelta(GetRating(x), GetRating(y))
  /\ After(GetRating(x), up) \in Rating /\ After(GetRating(y), down) \in Rating
  /\ ratings' = [ratings EXCEPT ![x] = After(GetRating(x), up), ![y] = After(GetRating(y), down)]
  /\ results' = Append(results, [winner |-> x, loser |-> y, up |-> up, down |-> down,
                                 rose |-> LeveledUp(GetRating(x), After(GetRating(x), up))])

LEMMA CommitWrites ==
  ASSUME RatingsAssumption, RowsInv, NEW v \in Workers, Commit(v)
  PROVE  \E x, y \in Users, up, down \in Int :
           /\ x = applying[v].winner /\ y = applying[v].loser /\ rowLock[x] = v
           /\ CommitOf(x, y, up, down)
<1>0. rphase[v] = "update" /\ TxOK(v) /\ RowTypes
  BY DEF Commit, RowsInv
<1>1. PICK x \in Users, y \in Users : x = applying[v].winner /\ y = applying[v].loser /\ x # y
  BY <1>0 DEF TxOK
<1>2. PICK w0 \in Rating, l0 \in Rating : w0 = GetRating(x) /\ l0 = GetRating(y)
  BY <1>0, GetRatingIsRating
<1>3. /\ rowLock[x] = v /\ rowLock[y] = v
      /\ applying[v].read[x] = w0 /\ applying[v].read[y] = l0
  BY <1>0, <1>1, <1>2 DEF TxOK, Holding
<1>4. PICK up \in Int, down \in Int : up = WinnerDelta(w0, l0) /\ down = LoserDelta(w0, l0)
  BY DeltasAreIntegers
<1>5. After(w0, up) \in Rating /\ After(l0, down) \in Rating
  BY AfterIsRating
<1>6. ratings' = [ratings EXCEPT ![x] = After(w0, up), ![y] = After(l0, down)]
  BY <1>1, <1>3, <1>4 DEF Commit
<1>7. results' = Append(results, [winner |-> x, loser |-> y, up |-> up, down |-> down,
                                  rose |-> LeveledUp(w0, After(w0, up))])
  BY <1>1, <1>3, <1>4 DEF Commit
<1>8. CommitOf(x, y, up, down)
  BY <1>1, <1>2, <1>3, <1>4, <1>5, <1>6, <1>7 DEF CommitOf
<1> QED  BY <1>1, <1>3, <1>8

LEMMA CommitRows ==
  ASSUME RatingsAssumption, RequestsAssumption, RowsInv, NEW v \in Workers, Commit(v)
  PROVE  RowsInv'
<1>0. rphase[v] = "update" /\ TxOK(v) /\ RowTypes
  BY DEF Commit, RowsInv
<1>1. PICK x \in Users, y \in Users, up \in Int, down \in Int :
        rowLock[x] = v /\ CommitOf(x, y, up, down)
  BY CommitWrites
<1>2. /\ ratings' \in [Users -> Rating \cup {None}]
      /\ \A u \in Users : rowLock[u] # v => ratings'[u] = ratings[u]
      /\ \A u \in Users : ratings[u] # None => ratings'[u] # None
  <2>1. PICK r \in Rating, q \in Rating : ratings' = [ratings EXCEPT ![x] = r, ![y] = q]
    BY <1>1 DEF CommitOf
  <2>2. r # None /\ q # None
    BY RatingIsNotNone
  <2>3. rowLock[y] = v
    BY <1>1 DEF CommitOf
  <2> QED  BY <1>0, <1>1, <2>1, <2>2, <2>3 DEF RowTypes
<1>3. rowLock' = Released(v) /\ won' = won
  BY DEF Commit
<1>4. results' \in Seq(Result)
  <2>1. PICK o : o = [winner |-> x, loser |-> y, up |-> up, down |-> down,
                      rose |-> LeveledUp(GetRating(x), After(GetRating(x), up))]
    OBVIOUS
  <2>2. o \in Result
    BY <2>1 DEF Result, LeveledUp
  <2>3. results' = Append(results, o) /\ results \in Seq(Result)
    BY <1>0, <1>1, <2>1 DEF CommitOf, RowTypes
  <2> QED  BY <2>2, <2>3
<1>5. PICK n \in Nat : n = Len(results) + 1
  BY <1>0 DEF RowTypes
<1>6. CASE applying' = [applying EXCEPT ![v].id = n] /\ Advance(v, "creditWin") /\ UNCHANGED faults
  <2>1. /\ rphase' \in [Workers -> RatingsPhases] /\ rphase'[v] = "creditWin"
        /\ \A w \in Workers : w # v => rphase'[w] = rphase[w]
    BY <1>6, PhaseStep DEF RatingsPhases
  <2>2. PICK m : m = [applying[v] EXCEPT !.id = n]
    OBVIOUS
  <2>3. applying[v] \in Match
    BY <1>0 DEF RowTypes
  <2>4. m \in Match /\ m.winner = applying[v].winner /\ m.loser = applying[v].loser
    BY <2>2, <2>3 DEF Match
  <2>5. /\ applying' \in [Workers -> Match] /\ applying'[v] = m
        /\ \A w \in Workers : w # v => applying'[w] = applying[w]
    BY <1>0, <1>6, <2>2, <2>4 DEF RowTypes
  <2>6. RowTypes'
    BY <1>0, <1>2, <1>3, <1>4, <1>6, <2>1, <2>5, ReleasedFrees DEF RowTypes
  <2>7. TxOK(v)' /\ LocksOK(v)'
    <3>1. rphase'[v] \notin InTx
      BY <2>1 DEF InTx
    <3>2. /\ applying'[v].winner \in Users /\ applying'[v].loser \in Users
          /\ applying'[v].winner # applying'[v].loser
      BY <1>0, <2>4, <2>5 DEF TxOK
    <3> QED  BY <3>1, <3>2, <1>3, ReleasedFrees, IdleIsOK
  <2> QED  BY <1>2, <1>3, <2>1, <2>5, <2>6, <2>7, ReleasedFrees, RowsKept
<1>7. CASE Fault /\ End(v)
  <2>1. RowTypes'
    BY <1>0, <1>2, <1>3, <1>4, <1>7, EndStep, ReleasedFrees DEF RowTypes, Fault
  <2>2. TxOK(v)' /\ LocksOK(v)'
    <3>1. rphase'[v] = "idle"
      BY <1>7, EndStep
    <3> QED  BY <3>1, <1>3, ReleasedFrees, IdleIsOK DEF InTx
  <2> QED  BY <1>2, <1>3, <1>7, <2>1, <2>2, EndStep, ReleasedFrees, RowsKept
<1> QED  BY <1>5, <1>6, <1>7 DEF Commit

\* The end of a request that changed no row of a player.
LEMMA EndRows ==
  ASSUME RatingsAssumption, RequestsAssumption, RowsInv, NEW v \in Workers, End(v),
         UNCHANGED <<ratings, results>>, faults' \in Nat,
         won' \in SUBSET [user : Users, reason : {"match_win", "level_up"}, match : Nat],
         rowLock' = Released(v) \/ (rowLock' = rowLock /\ rphase[v] \notin InTx)
  PROVE  RowsInv'
<1>0. RowTypes /\ LocksOK(v)
  BY DEF RowsInv
<1>1. /\ rowLock' \in [Users -> Workers \cup {None}]
      /\ \A u \in Users : rowLock'[u] # v
      /\ \A w \in Workers, u \in Users : w # v => (rowLock'[u] = w <=> rowLock[u] = w)
  <2>1. CASE rowLock' = Released(v)
    BY <2>1, ReleasedFrees
  <2>2. CASE rowLock' = rowLock /\ rphase[v] \notin InTx
    BY <2>2, <1>0 DEF RowTypes, LocksOK
  <2> QED  BY <2>1, <2>2
<1>2. RowTypes'
  BY <1>0, <1>1, EndStep DEF RowTypes
<1>3. TxOK(v)' /\ LocksOK(v)'
  <2>1. rphase'[v] = "idle" /\ rphase'[v] \notin InTx
    BY EndStep DEF InTx
  <2> QED  BY <2>1, <1>1, IdleIsOK
<1> QED  BY <1>1, <1>2, <1>3, EndStep, RowsKept

\* A credit is asked for the winner of the match that was applied.
LEMMA CreditTypes ==
  ASSUME RowsInv, NEW v \in Workers, rphase[v] # "idle",
         NEW reason \in {"match_win", "level_up"}, Credit(v, reason)
  PROVE  /\ won' \in SUBSET [user : Users, reason : {"match_win", "level_up"}, match : Nat]
         /\ faults' \in Nat
<1>0. RowTypes /\ TxOK(v)
  BY DEF RowsInv
<1>1. PICK c : c = [user |-> applying[v].winner, reason |-> reason, match |-> applying[v].id]
  OBVIOUS
<1>2. applying[v].winner \in Users /\ applying[v].id \in Nat
  BY <1>0 DEF TxOK, RowTypes, Match
<1>3. c \in [user : Users, reason : {"match_win", "level_up"}, match : Nat]
  BY <1>1, <1>2
<1>4. won' \in {won, won \cup {c}} /\ faults' \in {faults, faults + 1}
  BY <1>1 DEF Credit, Fault
<1> QED  BY <1>0, <1>3, <1>4 DEF RowTypes

LEMMA CreditRows ==
  ASSUME RatingsAssumption, RequestsAssumption, RowsInv, NEW v \in Workers,
         CreditMatchWin(v) \/ CreditLevelUp(v)
  PROVE  RowsInv'
<1>0. /\ rphase[v] \in {"creditWin", "creditLevel"} /\ RowTypes /\ TxOK(v) /\ LocksOK(v)
      /\ UNCHANGED <<ratings, results, rowLock>>
  BY DEF CreditMatchWin, CreditLevelUp, RowsInv
<1>1. /\ won' \in SUBSET [user : Users, reason : {"match_win", "level_up"}, match : Nat]
      /\ faults' \in Nat
  <2>1. Credit(v, "match_win") \/ Credit(v, "level_up")
    BY DEF CreditMatchWin, CreditLevelUp
  <2> QED  BY <1>0, <2>1, CreditTypes
<1>2. CASE End(v)
  BY <1>0, <1>1, <1>2, EndRows DEF InTx
<1>3. CASE Advance(v, "creditLevel") /\ UNCHANGED applying
  <2>1. /\ rphase' \in [Workers -> RatingsPhases] /\ rphase'[v] = "creditLevel"
        /\ \A w \in Workers : w # v => rphase'[w] = rphase[w]
    BY <1>3, PhaseStep DEF RatingsPhases
  <2>2. RowTypes'
    BY <1>0, <1>1, <1>3, <2>1 DEF RowTypes
  <2>3. \A u \in Users : rowLock'[u] # v
    BY <1>0 DEF LocksOK, InTx
  <2>4. TxOK(v)' /\ LocksOK(v)'
    <3>1. rphase'[v] \notin InTx
      BY <2>1 DEF InTx
    <3>2. /\ applying'[v].winner \in Users /\ applying'[v].loser \in Users
          /\ applying'[v].winner # applying'[v].loser
      BY <1>0, <1>3 DEF TxOK
    <3> QED  BY <3>1, <3>2, <2>3, IdleIsOK
  <2> QED  BY <1>0, <1>3, <2>1, <2>2, <2>4, RowsKept
<1> QED  BY <1>2, <1>3 DEF CreditMatchWin, CreditLevelUp

LEMMA CrashRows ==
  ASSUME RatingsAssumption, RequestsAssumption, RowsInv, RatingsCrash
  PROVE  RowsInv'
<1>1. /\ rphase' = [w \in Workers |-> "idle"] /\ applying' = [w \in Workers |-> NoMatch]
      /\ rowLock' = [u \in Users |-> None] /\ UNCHANGED <<ratings, results, won>>
      /\ faults' \in Nat
  BY DEF RatingsCrash, Fault, RowsInv, RowTypes
<1>2. RowTypes'
  BY <1>1, NoMatchIsMatch DEF RowsInv, RowTypes, RatingsPhases
<1>3. \A w \in Workers : TxOK(w)' /\ LocksOK(w)'
  BY <1>1 DEF RequestsAssumption, TxOK, LocksOK
<1> QED  BY <1>2, <1>3 DEF RowsInv

LEMMA RatingsInitRows ==
  ASSUME RatingsAssumption, RequestsAssumption, RatingsInit, faults = 0
  PROVE  RowsInv
<1>1. RowTypes
  BY NoMatchIsMatch DEF RatingsInit, RowTypes, RatingsPhases
<1>2. \A w \in Workers : TxOK(w) /\ LocksOK(w)
  BY DEF RatingsInit, RequestsAssumption, TxOK, LocksOK
<1> QED  BY <1>1, <1>2 DEF RowsInv

LEMMA RatingsStepRows ==
  ASSUME RatingsAssumption, RequestsAssumption, RowsInv, [RatingsNext]_<<ratingsVars, faults>>
  PROVE  RowsInv'
<1>1. ASSUME NEW v \in Workers, Rollback(v)
      PROVE  RowsInv'
  <2>1. /\ faults' \in Nat /\ rowLock' = Released(v) /\ End(v) /\ UNCHANGED <<ratings, results, won>>
    BY <1>1 DEF Rollback, Fault, RowsInv, RowTypes
  <2> QED  BY <2>1, EndRows DEF RowsInv, RowTypes
<1>2. CASE UNCHANGED <<ratingsVars, faults>>
  <2>1. UNCHANGED <<ratings, results, rowLock, rphase, applying, won, faults>>
    BY <1>2 DEF ratingsVars
  <2>2. RowTypes'
    BY <2>1 DEF RowsInv, RowTypes
  <2>3. ASSUME NEW w \in Workers
        PROVE  TxOK(w)' /\ LocksOK(w)'
    <3>1. TxOK(w)'
      BY <2>1 DEF RowsInv, TxOK, Holding, FirstID, GetRating
    <3>2. LocksOK(w)'
      BY <2>1 DEF RowsInv, LocksOK, Inserted, FirstID, SecondID
    <3> QED  BY <3>1, <3>2
  <2> QED  BY <2>2, <2>3 DEF RowsInv
<1> QED
  BY <1>1, <1>2, PostRows, UpsertRows, LockRows, CommitRows, CreditRows, CrashRows
  DEF RatingsNext, RatingsStep

LEMMA RatingsInvariant ==
  ASSUME RatingsAssumption, RequestsAssumption
  PROVE  RatingsSpec => []RowsInv
<1>1. RatingsInit /\ faults = 0 => RowsInv
  BY RatingsInitRows
<1>2. RowsInv /\ [RatingsNext]_<<ratingsVars, faults>> => RowsInv'
  BY RatingsStepRows
<1> QED  BY <1>1, <1>2, PTL DEF RatingsSpec

\* Ratings, results and what the requests know of them are what they should be: an elo is an
\* integer and a level one of the levels, whatever is won and lost.
THEOREM RatingsAreTyped ==
  ASSUME RatingsAssumption, RequestsAssumption
  PROVE  RatingsSpec => []RatingsTypeOK
<1>1. RowsInv => RatingsTypeOK
  BY DEF RowsInv, RowTypes, RatingsTypeOK
<1> QED  BY <1>1, RatingsInvariant, PTL

----------------------------------------------------------------------------
(* One match after another *)

\* What ImplementsElo is about: the ratings as they can be read, and the results.
Read == [u \in Users |-> GetRating(u)]

LEMMA NothingMoves ==
  ASSUME UNCHANGED <<ratings, results>>
  PROVE  UNCHANGED PlayedMatches!evars
<1>1. Read' = Read
  BY DEF Read, GetRating
<1> QED  BY <1>1 DEF Read, PlayedMatches!evars

\* A commit is one match of Elo, from what both players had before it.
LEMMA CommitIsApply ==
  ASSUME RatingsAssumption, RowsInv, NEW v \in Workers, Commit(v)
  PROVE  PlayedMatches!Next
<1>1. PICK x \in Users, y \in Users, up \in Int, down \in Int : CommitOf(x, y, up, down)
  BY CommitWrites
<1>2. PICK w0 \in Rating, l0 \in Rating : w0 = GetRating(x) /\ l0 = GetRating(y)
  BY GetRatingIsRating DEF RowsInv
<1>3. PICK w1 \in Rating, l1 \in Rating : w1 = After(w0, up) /\ l1 = After(l0, down)
  BY <1>1, <1>2 DEF CommitOf
<1>4. x # y /\ up = WinnerDelta(w0, l0) /\ down = LoserDelta(w0, l0)
  BY <1>1, <1>2 DEF CommitOf
<1>5. ratings' = [ratings EXCEPT ![x] = w1, ![y] = l1]
  BY <1>1, <1>2, <1>3 DEF CommitOf
<1>6. results' = Append(results, [winner |-> x, loser |-> y, up |-> up, down |-> down,
                                  rose |-> w1.level > w0.level])
  BY <1>1, <1>2, <1>3 DEF CommitOf, LeveledUp
<1>7. Read' = [Read EXCEPT ![x] = w1, ![y] = l1]
  <2>1. ratings \in [Users -> Rating \cup {None}]
    BY DEF RowsInv, RowTypes
  <2>2. w1 # None /\ l1 # None
    BY RatingIsNotNone
  <2>3. \A u \in Users : ratings'[u] = IF u = y THEN l1 ELSE IF u = x THEN w1 ELSE ratings[u]
    BY <1>5, <2>1
  <2>4. \A u \in Users : GetRating(u)' = IF u = y THEN l1 ELSE IF u = x THEN w1 ELSE GetRating(u)
    BY <2>2, <2>3 DEF GetRating
  <2> QED  BY <2>4 DEF Read
<1>8. /\ Read[x] = w0 /\ Read[y] = l0
      /\ PlayedMatches!Moved(w0, up) = w1 /\ PlayedMatches!Moved(l0, down) = l1
  BY <1>2, <1>3 DEF Read, PlayedMatches!Moved, After
<1>9. /\ Read' = [Read EXCEPT ![x] = PlayedMatches!Moved(Read[x], up), ![y] = PlayedMatches!Moved(Read[y], down)]
      /\ results' = Append(results, [winner |-> x, loser |-> y, up |-> up, down |-> down,
                                     rose |-> PlayedMatches!Moved(Read[x], up).level > Read[x].level])
      /\ up = WinnerDelta(Read[x], Read[y]) /\ down = LoserDelta(Read[x], Read[y])
  BY <1>4, <1>6, <1>7, <1>8
<1>10. PlayedMatches!Apply(x, y)
  BY <1>4, <1>9 DEF PlayedMatches!Apply, Read
<1> QED  BY <1>10 DEF PlayedMatches!Next

\* Transactions of the same players that overlap, fail and roll back move the ratings as one
\* match after another would: no update is lost and none is half there (ApplyMatchResult).
THEOREM RatingsImplementElo ==
  ASSUME RatingsAssumption, RequestsAssumption
  PROVE  RatingsSpec => ImplementsElo
<1>1. RatingsInit => PlayedMatches!Init
  BY DEF RatingsInit, PlayedMatches!Init, GetRating
<1>2. RowsInv /\ [RatingsNext]_<<ratingsVars, faults>> => [PlayedMatches!Next]_(PlayedMatches!evars)
  <2> SUFFICES ASSUME RowsInv, [RatingsNext]_<<ratingsVars, faults>>
               PROVE  PlayedMatches!Next \/ UNCHANGED PlayedMatches!evars
    OBVIOUS
  <2>1. (\E v \in Workers : Commit(v)) \/ UNCHANGED <<ratings, results>>
    BY DEF RatingsNext, RatingsStep, PostMatchResult, UpsertDefault, LockRating, Rollback,
           CreditMatchWin, CreditLevelUp, RatingsCrash, ratingsVars
  <2> QED  BY <2>1, CommitIsApply, NothingMoves
<1> QED
  BY <1>1, <1>2, RatingsInvariant, PTL DEF RatingsSpec, ImplementsElo, PlayedMatches!Spec

----------------------------------------------------------------------------
(* Nobody waits in a circle *)

LEMMA HasLargest ==
  ASSUME NEW T \in SUBSET Nat, IsFiniteSet(T), T # {}
  PROVE  \E m \in T : \A x \in T : x <= m
<1> DEFINE over(x) == {y \in T : y > x}
           Q == {over(x) : x \in T}
           R == StrictSubsetOrdering(T)
<1>1. IsWellFoundedOn(R, SUBSET T)
  BY FS_StrictSubsetOrderingWellFounded, FS_FiniteSubsetsOfFinite
<1>2. Q \subseteq SUBSET T /\ Q # {}
  OBVIOUS
<1>3. PICK q \in Q : \A p \in Q : ~(<<p, q>> \in R)
  <2> HIDE DEF Q, R
  <2> QED  BY <1>1, <1>2, WFMin
<1>4. PICK m \in T : q = over(m)
  OBVIOUS
<1>5. ASSUME NEW x \in T, x > m
      PROVE  FALSE
  <2>a. x \in Nat /\ m \in Nat /\ \A y \in T : y \in Nat
    OBVIOUS
  <2>b. \A y \in T : y > x => y > m
    BY <1>5, <2>a
  <2>c. ~(x > x)
    BY <2>a
  <2>d. over(x) \subseteq over(m)
    BY <2>b, Zenon
  <2>e. x \in over(m) /\ x \notin over(x)
    BY <1>5, <2>c, Zenon
  <2>1. over(x) \subseteq over(m) /\ x \in over(m) /\ x \notin over(x)
    BY <2>d, <2>e
  <2>2. over(x) \in Q /\ over(x) \in SUBSET T /\ over(m) \in SUBSET T
    OBVIOUS
  <2>3. <<over(x), over(m)>> \in R
    <3> HIDE DEF over
    <3> QED  BY <2>1, <2>2 DEF StrictSubsetOrdering
  <2> QED  BY <1>3, <1>4, <2>2, <2>3
<1>6. \A x \in T : ~(x > m)
  BY <1>5
<1> QED  BY <1>6

\* Of some transactions one is about the largest second id.
LEMMA LargestSecond ==
  ASSUME RatingsAssumption, IsFiniteSet(Users), RowsInv, NEW W \in SUBSET Workers, W # {},
         \A w \in W : rphase[w] \in InTx
  PROVE  \E v \in W : SecondID(v) \in Users /\ \A w \in W : SecondID(w) \in Users /\ SecondID(w) <= SecondID(v)
<1> DEFINE T == {SecondID(w) : w \in W}
<1>1. \A w \in W : SecondID(w) \in Users
  BY IdsInOrder DEF RowsInv, TxOK, InTx
<1>2. T \subseteq Users /\ T # {}
  BY <1>1
<1>3. T \in SUBSET Nat /\ IsFiniteSet(T)
  BY <1>2, FS_Subset DEF RatingsAssumption
<1>4. PICK m \in T : \A x \in T : x <= m
  BY <1>2, <1>3, HasLargest
<1> QED  BY <1>1, <1>4

\* The holder of a row that exists has read its first row, and of one that does not, none.
LEMMA Holder ==
  ASSUME RatingsAssumption, RowsInv, NEW v \in Workers, NEW u \in Users, rowLock[u] = v
  PROVE  /\ rphase[v] \in InTx
         /\ FirstID(v) \in Users /\ SecondID(v) \in Users /\ FirstID(v) < SecondID(v)
         /\ u \in {FirstID(v), SecondID(v)}
         /\ ratings[u] # None => \/ rphase[v] = "update"
                                 \/ rphase[v] = "lockSecond" /\ u = FirstID(v)
         /\ ratings[u] = None /\ rphase[v] \in {"upsertFirst", "upsertSecond"} =>
              rphase[v] = "upsertSecond" /\ u = FirstID(v)
<1>1. TxOK(v) /\ LocksOK(v)
  BY DEF RowsInv
<1>2. rphase[v] \in InTx /\ u \in {FirstID(v), SecondID(v)}
  BY <1>1 DEF LocksOK
<1>3. PICK f \in Users, s \in Users : f = FirstID(v) /\ s = SecondID(v) /\ f < s /\ f # s
  BY <1>1, <1>2, IdsInOrder DEF TxOK, InTx
<1>4. ratings[u] # None => \/ rphase[v] = "update"
                           \/ rphase[v] = "lockSecond" /\ u = f
  BY <1>1, <1>2, <1>3 DEF LocksOK, InTx
<1>5. rphase[v] # "upsertFirst"
  BY <1>1 DEF LocksOK
<1>6. rphase[v] = "upsertSecond" => u = f
  BY <1>1, <1>2, <1>3 DEF LocksOK
<1> QED  BY <1>2, <1>3, <1>4, <1>5, <1>6

\* Whoever waits for a row that exists, or for one that does not, and who has it.
LEMMA Waiter ==
  ASSUME RatingsAssumption, RequestsAssumption, RowsInv, NEW w \in Workers, rphase[w] \in InTx, Waits(w)
  PROVE  \E v \in Workers, u \in Users :
           /\ v # w /\ rowLock[u] = v /\ u = RowOf(w)
           /\ FirstID(w) \in Users /\ SecondID(w) \in Users
           /\ rphase[w] \in {"upsertFirst", "lockFirst"} => u = FirstID(w)
           /\ rphase[w] \in {"upsertSecond", "lockSecond"} => u = SecondID(w)
           /\ rphase[w] \in {"upsertFirst", "upsertSecond"} => ratings[u] = None
           /\ rphase[w] \in {"lockFirst", "lockSecond"} => ratings[u] # None
           /\ rphase[w] \in {"upsertFirst", "upsertSecond", "lockFirst", "lockSecond"}
<1>1. TxOK(w) /\ LocksOK(w) /\ rowLock \in [Users -> Workers \cup {None}]
  BY DEF RowsInv, RowTypes
<1>2. PICK f \in Users, s \in Users : f = FirstID(w) /\ s = SecondID(w)
  BY <1>1, IdsInOrder DEF TxOK, InTx
<1>3. PICK u \in Users : /\ u = RowOf(w)
                         /\ rphase[w] \in {"upsertFirst", "lockFirst"} => u = f
                         /\ rphase[w] \in {"upsertSecond", "lockSecond"} => u = s
  BY <1>2 DEF RowOf
<1>4. rowLock[u] \notin {None, w} /\ rphase[w] \in {"upsertFirst", "upsertSecond", "lockFirst", "lockSecond"}
  BY <1>3 DEF Waits
<1>5. PICK v \in Workers : v = rowLock[u] /\ v # w
  BY <1>1, <1>4
<1>6. rphase[w] \in {"upsertFirst", "upsertSecond"} => ratings[u] = None
  BY <1>3 DEF Waits
<1>7. rphase[w] \in {"lockFirst", "lockSecond"} => ratings[u] # None
  <2>1. CASE rphase[w] = "lockFirst"
    BY <1>1, <1>2, <1>3, <1>4, <2>1 DEF LocksOK, Inserted
  <2>2. CASE rphase[w] = "lockSecond"
    BY <1>1, <1>2, <1>3, <1>4, <2>2 DEF LocksOK, Inserted
  <2> QED  BY <2>1, <2>2
<1> QED  BY <1>2, <1>3, <1>4, <1>5, <1>6, <1>7

\* Of transactions that all wait none is at its locks: the one with the largest second id waits
\* for a holder that has its first row there and waits for one still larger.
LEMMA NoneAtLocks ==
  ASSUME RatingsAssumption, RequestsAssumption, IsFiniteSet(Users), RowsInv,
         \A w \in Workers : rphase[w] \in InTx => Waits(w)
  PROVE  \A w \in Workers : rphase[w] \notin {"lockFirst", "lockSecond", "update"}
<1>0. \A w \in Workers : rphase[w] # "update"
  BY DEF Waits, InTx
<1> DEFINE W == {w \in Workers : rphase[w] = "lockSecond"}
<1>1. W = {}
  <2> SUFFICES ASSUME W # {}
               PROVE  FALSE
    OBVIOUS
  <2>1. PICK w \in W : SecondID(w) \in Users
                       /\ \A x \in W : SecondID(x) \in Users /\ SecondID(x) <= SecondID(w)
    <3>1. \A x \in W : rphase[x] \in InTx
      BY DEF InTx
    <3> HIDE DEF W
    <3>2. W \in SUBSET Workers
      BY DEF W
    <3> QED  BY <3>1, <3>2, LargestSecond
  <2>2. PICK v \in Workers, u \in Users : rowLock[u] = v /\ u = SecondID(w) /\ ratings[u] # None
    BY Waiter DEF InTx
  <2>3. rphase[v] = "lockSecond" /\ u = FirstID(v) /\ FirstID(v) < SecondID(v) /\ SecondID(v) \in Users
    BY <1>0, <2>2, Holder
  <2>4. v \in W /\ SecondID(v) <= SecondID(w)
    BY <2>1, <2>3
  <2>5. PICK a \in Nat, b \in Nat : a = SecondID(w) /\ b = SecondID(v)
    BY <2>1, <2>3 DEF RatingsAssumption
  <2>6. FirstID(v) = a /\ a < b
    BY <2>2, <2>3, <2>5
  <2>7. b <= a
    BY <2>4, <2>5
  <2> QED  BY <2>6, <2>7
<1>2. ASSUME NEW w \in Workers, rphase[w] = "lockFirst"
      PROVE  FALSE
  <2>1. PICK v \in Workers, u \in Users : rowLock[u] = v /\ ratings[u] # None
    BY <1>2, Waiter DEF InTx
  <2>2. rphase[v] = "lockSecond"
    BY <1>0, <2>1, Holder
  <2> QED  BY <1>1, <2>2
<1> QED  BY <1>0, <1>1, <1>2

LEMMA GoesOn ==
  ASSUME RatingsAssumption, RequestsAssumption, IsFiniteSet(Users), RowsInv
  PROVE  SomebodyGoesOn
<1> SUFFICES ASSUME NEW a \in Workers, rphase[a] \in InTx,
                    \A w \in Workers : rphase[w] \in InTx => Waits(w)
             PROVE  FALSE
  BY DEF SomebodyGoesOn
<1>1. \A w \in Workers : rphase[w] \in InTx => rphase[w] \in {"upsertFirst", "upsertSecond"}
  BY NoneAtLocks DEF InTx
<1> DEFINE W == {w \in Workers : rphase[w] = "upsertSecond"}
<1>2. ASSUME NEW w \in Workers, rphase[w] \in InTx
      PROVE  \E v \in Workers, u \in Users :
               /\ rowLock[u] = v /\ u = FirstID(v) /\ FirstID(v) < SecondID(v) /\ SecondID(v) \in Users
               /\ rphase[v] = "upsertSecond"
               /\ rphase[w] = "upsertSecond" => u = SecondID(w)
  <2>1. PICK v \in Workers, u \in Users :
          /\ rowLock[u] = v /\ ratings[u] = None
          /\ rphase[w] = "upsertSecond" => u = SecondID(w)
    <3>1. Waits(w) /\ rphase[w] \in {"upsertFirst", "upsertSecond"}
      BY <1>1, <1>2
    <3> HIDE DEF W
    <3> QED  BY <1>2, <3>1, Waiter
  <2>2. /\ rphase[v] \in InTx /\ FirstID(v) < SecondID(v) /\ SecondID(v) \in Users
        /\ rphase[v] \in {"upsertFirst", "upsertSecond"} => rphase[v] = "upsertSecond" /\ u = FirstID(v)
    BY <2>1, Holder
  <2> QED  BY <1>1, <2>1, <2>2
<1>3. W # {}
  BY <1>2
<1>4. PICK w \in W : SecondID(w) \in Users
                     /\ \A x \in W : SecondID(x) \in Users /\ SecondID(x) <= SecondID(w)
  <2>1. \A x \in W : rphase[x] \in InTx
    BY DEF InTx
  <2> HIDE DEF W
  <2>2. W \in SUBSET Workers
    BY DEF W
  <2> QED  BY <1>3, <2>1, <2>2, LargestSecond
<1>5. PICK v \in Workers, u \in Users :
        /\ u = FirstID(v) /\ FirstID(v) < SecondID(v) /\ SecondID(v) \in Users
        /\ rphase[v] = "upsertSecond" /\ u = SecondID(w)
  BY <1>2 DEF InTx
<1>6. v \in W /\ SecondID(v) <= SecondID(w)
  BY <1>4, <1>5
<1>7. PICK m \in Nat, n \in Nat : m = SecondID(w) /\ n = SecondID(v)
  BY <1>4, <1>5 DEF RatingsAssumption
<1>8. FirstID(v) = m /\ m < n
  BY <1>5, <1>7
<1>9. n <= m
  BY <1>6, <1>7
<1> QED  BY <1>8, <1>9

\* Of the transactions that are open, one does not wait: locks taken in ascending order of the
\* ids make no circle, whatever inserts wait for behind them (ratings_repository.go).
THEOREM SomebodyAlwaysGoesOn ==
  ASSUME RatingsAssumption, RequestsAssumption, IsFiniteSet(Users)
  PROVE  RatingsSpec => []SomebodyGoesOn
<1>1. RowsInv => SomebodyGoesOn
  BY GoesOn
<1> QED  BY <1>1, RatingsInvariant, PTL

----------------------------------------------------------------------------
(* Points for what was won *)

CreditPhases == {"creditWin", "creditLevel"}

CreditOf(i, reason) == [user |-> results[i].winner, reason |-> reason, match |-> i]
Reasons(i) == {"match_win"} \cup (IF results[i].rose THEN {"level_up"} ELSE {})

\* What a request that is about to ask for points knows of its match.
Owed(w) == rphase[w] \in CreditPhases =>
  /\ applying[w].id \in DOMAIN results
  /\ results[applying[w].id].winner = applying[w].winner
  /\ rphase[w] = "creditLevel" =>
       /\ results[applying[w].id].rose
       /\ faults = 0 => CreditOf(applying[w].id, "match_win") \in won

Due(c) ==
  /\ c.match \in DOMAIN results /\ results[c.match].winner = c.user
  /\ c.reason = "level_up" => results[c.match].rose

Pending(i) == \E w \in Workers : rphase[w] \in CreditPhases /\ applying[w].id = i
Paid(i) == \A reason \in Reasons(i) : CreditOf(i, reason) \in won

PointsInv ==
  /\ \A w \in Workers : Owed(w)
  /\ \A c \in won : Due(c)
  /\ faults = 0 => \A i \in DOMAIN results : Pending(i) \/ Paid(i)

\* A step that asks for nothing and writes no result, of a worker with nothing to ask for.
LEMMA PointsKept ==
  ASSUME PointsInv, NEW v \in Workers, UNCHANGED <<results, won, faults>>,
         rphase[v] \notin CreditPhases, rphase'[v] \notin CreditPhases,
         \A w \in Workers : w # v => rphase'[w] = rphase[w] /\ applying'[w] = applying[w]
  PROVE  PointsInv'
<1>1. \A w \in Workers : Owed(w)'
  BY DEF PointsInv, Owed, CreditOf
<1>2. \A c \in won' : Due(c)'
  BY DEF PointsInv, Due
<1>3. \A i \in DOMAIN results : Pending(i) => Pending(i)'
  BY DEF Pending
<1>4. \A i \in DOMAIN results : Paid(i) => Paid(i)'
  BY DEF Paid, Reasons, CreditOf
<1> QED  BY <1>1, <1>2, <1>3, <1>4 DEF PointsInv

\* After a fault what was asked for is still due; whether all of it was is not known.
LEMMA PointsAfterFault ==
  ASSUME PointsInv, faults' # 0,
         \A i \in DOMAIN results : i \in DOMAIN results' /\ results'[i] = results[i],
         \A w \in Workers : rphase'[w] \in CreditPhases =>
           /\ rphase'[w] = rphase[w] /\ applying'[w] = applying[w],
         \A c \in won' : Due(c)
  PROVE  PointsInv'
<1>1. \A w \in Workers : Owed(w)'
  BY DEF PointsInv, Owed
<1>2. \A c \in won' : Due(c)'
  BY DEF Due
<1> QED  BY <1>1, <1>2 DEF PointsInv

LEMMA OpenPoints ==
  ASSUME RatingsAssumption, RowsInv, PointsInv, NEW v \in Workers,
         (\E x, y \in Users : PostMatchResult(v, x, y)) \/ UpsertDefault(v) \/ LockRating(v)
  PROVE  PointsInv'
<1>1. /\ UNCHANGED <<results, won, faults>>
      /\ rphase[v] \notin CreditPhases
      /\ \E p \in RatingsPhases \ CreditPhases : Advance(v, p)
  <2>1. CASE \E x, y \in Users : PostMatchResult(v, x, y)
    BY <2>1 DEF PostMatchResult, CreditPhases, RatingsPhases, InTx
  <2>2. CASE UpsertDefault(v)
    BY <2>2 DEF UpsertDefault, NextPhase, CreditPhases, RatingsPhases, InTx
  <2>3. CASE LockRating(v)
    BY <2>3 DEF LockRating, NextPhase, CreditPhases, RatingsPhases, InTx
  <2> QED  BY <2>1, <2>2, <2>3
<1>2. rphase'[v] \notin CreditPhases /\ \A w \in Workers : w # v => rphase'[w] = rphase[w]
  BY <1>1, PhaseStep
<1>3. \A w \in Workers : w # v => applying'[w] = applying[w]
  <2>1. applying \in [Workers -> Match]
    BY DEF RowsInv, RowTypes
  <2>2. CASE \E x, y \in Users : PostMatchResult(v, x, y)
    BY <2>1, <2>2 DEF PostMatchResult
  <2>3. CASE UpsertDefault(v)
    BY <2>3 DEF UpsertDefault
  <2>4. CASE LockRating(v)
    BY <2>1, <2>4 DEF LockRating
  <2> QED  BY <2>2, <2>3, <2>4
<1> QED  BY <1>1, <1>2, <1>3, PointsKept

LEMMA CommitPoints ==
  ASSUME RatingsAssumption, RowsInv, PointsInv, NEW v \in Workers, Commit(v)
  PROVE  PointsInv'
<1>0. RowTypes /\ rphase[v] = "update" /\ won' = won
  BY DEF RowsInv, Commit
<1>1. PICK x \in Users, y \in Users, up \in Int, down \in Int :
        x = applying[v].winner /\ CommitOf(x, y, up, down)
  BY CommitWrites
<1>2. PICK o : /\ results' = Append(results, o) /\ o.winner = x
               /\ o = [winner |-> x, loser |-> y, up |-> up, down |-> down,
                       rose |-> LeveledUp(GetRating(x), After(GetRating(x), up))]
  BY <1>1 DEF CommitOf
<1>3. PICK n \in Nat : n = Len(results) + 1
  BY <1>0 DEF RowTypes
<1>4. o \in Result
  BY <1>2 DEF Result, LeveledUp
<1>5. /\ DOMAIN results' = DOMAIN results \cup {n} /\ results'[n] = o
      /\ \A i \in DOMAIN results : i # n /\ results'[i] = results[i]
  BY <1>0, <1>2, <1>3, <1>4 DEF RowTypes
<1>6. CASE applying' = [applying EXCEPT ![v].id = n] /\ Advance(v, "creditWin") /\ UNCHANGED faults
  <2>1. /\ rphase'[v] = "creditWin"
        /\ \A w \in Workers : w # v => rphase'[w] = rphase[w]
    BY <1>6, PhaseStep DEF RatingsPhases
  <2>2. /\ applying'[v].id = n /\ applying'[v].winner = x
        /\ \A w \in Workers : w # v => applying'[w] = applying[w]
    BY <1>0, <1>1, <1>6 DEF RowTypes, Match
  <2>3. Owed(v)'
    BY <1>2, <1>5, <2>1, <2>2 DEF Owed
  <2>4. ASSUME NEW w \in Workers, w # v
        PROVE  Owed(w)'
    <3>1. rphase'[w] = rphase[w] /\ applying'[w] = applying[w] /\ won' = won /\ faults' = faults
      BY <1>0, <1>6, <2>1, <2>2, <2>4
    <3>2. Owed(w)
      BY DEF PointsInv
    <3>3. CASE rphase[w] \in CreditPhases
      <4>1. PICK i \in DOMAIN results : i = applying[w].id
        BY <3>2, <3>3 DEF Owed
      <4>2. i \in DOMAIN results' /\ results'[i] = results[i] /\ i = applying'[w].id
        BY <1>5, <3>1, <4>1
      <4> QED  BY <3>1, <3>2, <3>3, <4>1, <4>2 DEF Owed, CreditOf
    <3>4. CASE rphase[w] \notin CreditPhases
      BY <3>1, <3>4 DEF Owed
    <3> QED  BY <3>3, <3>4
  <2>5. \A c \in won' : Due(c)'
    BY <1>0, <1>5 DEF PointsInv, Due
  <2>6. Pending(n)'
    BY <2>1, <2>2 DEF Pending, CreditPhases
  <2>7. ASSUME NEW i \in DOMAIN results
        PROVE  (Pending(i) => Pending(i)') /\ (Paid(i) => Paid(i)')
    <3>1. Pending(i) => Pending(i)'
      BY <1>0, <2>1, <2>2 DEF Pending, CreditPhases
    <3>2. Paid(i) => Paid(i)'
      BY <1>0, <1>5 DEF Paid, Reasons, CreditOf
    <3> QED  BY <3>1, <3>2
  <2>8. faults' = 0 => \A i \in DOMAIN results' : Pending(i)' \/ Paid(i)'
    BY <1>5, <1>6, <2>6, <2>7 DEF PointsInv
  <2> QED  BY <2>3, <2>4, <2>5, <2>8 DEF PointsInv
<1>7. CASE Fault /\ End(v)
  <2>1. faults' # 0
    BY <1>0, <1>7 DEF Fault, RowTypes
  <2>2. \A w \in Workers : rphase'[w] \in CreditPhases =>
          rphase'[w] = rphase[w] /\ applying'[w] = applying[w]
    BY <1>7, EndStep DEF CreditPhases
  <2>3. \A c \in won' : Due(c)
    BY <1>0 DEF PointsInv
  <2> QED  BY <1>5, <2>1, <2>2, <2>3, PointsAfterFault
<1> QED  BY <1>3, <1>6, <1>7 DEF Commit

\* A credit is asked for, or was lost; the request goes on to the next or is over.
LEMMA CreditPoints ==
  ASSUME RatingsAssumption, RowsInv, PointsInv, NEW v \in Workers, CreditMatchWin(v) \/ CreditLevelUp(v)
  PROVE  PointsInv'
<1>0. RowTypes /\ UNCHANGED results /\ Owed(v) /\ rphase[v] \in CreditPhases
  BY DEF RowsInv, PointsInv, CreditMatchWin, CreditLevelUp, CreditPhases
<1>1. PICK i \in DOMAIN results : i = applying[v].id /\ results[i].winner = applying[v].winner
  BY <1>0 DEF Owed
<1>2. PICK reason \in Reasons(i) :
        /\ reason = IF rphase[v] = "creditWin" THEN "match_win" ELSE "level_up"
        /\ Credit(v, reason)
  BY <1>0, <1>1 DEF CreditMatchWin, CreditLevelUp, Owed, Reasons, CreditPhases
<1>3. \/ won' = won \cup {CreditOf(i, reason)} /\ UNCHANGED faults
      \/ won' \in {won, won \cup {CreditOf(i, reason)}} /\ Fault
  BY <1>1, <1>2 DEF Credit, CreditOf
<1>4. \/ rphase[v] = "creditWin" /\ results[i].rose /\ Advance(v, "creditLevel") /\ UNCHANGED applying
      \/ End(v) /\ (rphase[v] = "creditWin" => ~results[i].rose)
  BY <1>1 DEF CreditMatchWin, CreditLevelUp, Rose
<1>5. Due(CreditOf(i, reason))
  BY <1>2 DEF Due, CreditOf, Reasons
<1>6. \A c \in won' : Due(c)
  BY <1>3, <1>5 DEF PointsInv
<1>7. \A c \in won' : Due(c)'
  BY <1>0, <1>6 DEF Due
<1>8. \A w \in Workers : w # v => rphase'[w] = rphase[w] /\ applying'[w] = applying[w]
  <2>1. CASE Advance(v, "creditLevel") /\ UNCHANGED applying
    BY <2>1, PhaseStep DEF RatingsPhases
  <2>2. CASE End(v)
    BY <2>2, EndStep
  <2> QED  BY <1>4, <2>1, <2>2
<1>9. won \subseteq won' /\ faults' \in Nat /\ (faults' = 0 => faults = 0 /\ CreditOf(i, reason) \in won')
  BY <1>0, <1>3 DEF Fault, RowTypes
<1>10. ASSUME NEW w \in Workers, w # v
       PROVE  Owed(w)'
  BY <1>0, <1>8, <1>9, <1>10 DEF PointsInv, Owed, CreditOf
<1>11. ASSUME NEW j \in DOMAIN results, j # i
       PROVE  (Pending(j) => Pending(j)') /\ (Paid(j) => Paid(j)')
  <2>1. Pending(j) => Pending(j)'
    BY <1>1, <1>8, <1>11 DEF Pending
  <2>2. Paid(j) => Paid(j)'
    BY <1>0, <1>9 DEF Paid, Reasons, CreditOf
  <2> QED  BY <2>1, <2>2
<1>12. CASE rphase[v] = "creditWin" /\ results[i].rose /\ Advance(v, "creditLevel") /\ UNCHANGED applying
  <2>1. rphase'[v] = "creditLevel" /\ applying'[v] = applying[v] /\ reason = "match_win"
    BY <1>2, <1>12, PhaseStep DEF RatingsPhases
  <2>2. Owed(v)'
    BY <1>0, <1>1, <1>9, <1>12, <2>1 DEF Owed, CreditOf
  <2>3. Pending(i)'
    BY <1>1, <2>1 DEF Pending, CreditPhases
  <2>4. faults' = 0 => \A j \in DOMAIN results' : Pending(j)' \/ Paid(j)'
    BY <1>0, <1>9, <1>11, <2>3 DEF PointsInv
  <2> QED  BY <1>7, <1>10, <2>2, <2>4 DEF PointsInv
<1>13. CASE End(v) /\ (rphase[v] = "creditWin" => ~results[i].rose)
  <2>1. rphase'[v] = "idle"
    BY <1>13, EndStep
  <2>2. Owed(v)'
    BY <2>1 DEF Owed, CreditPhases
  <2>3. faults' = 0 => Paid(i)'
    <3>1. CASE rphase[v] = "creditWin"
      <4>1. Reasons(i)' = {"match_win"} /\ reason = "match_win"
        BY <1>0, <1>2, <1>13, <3>1 DEF Reasons
      <4> QED  BY <4>1, <1>0, <1>9 DEF Paid, CreditOf
    <3>2. CASE rphase[v] = "creditLevel"
      <4>1. faults' = 0 => CreditOf(i, "match_win") \in won'
        BY <1>0, <1>1, <1>9, <3>2 DEF Owed
      <4>2. Reasons(i)' \subseteq {"match_win", "level_up"} /\ reason = "level_up"
        BY <1>2, <3>2 DEF Reasons
      <4> QED  BY <4>1, <4>2, <1>0, <1>9 DEF Paid, CreditOf
    <3> QED  BY <1>0, <3>1, <3>2 DEF CreditPhases
  <2>4. faults' = 0 => \A j \in DOMAIN results' : Pending(j)' \/ Paid(j)'
    BY <1>0, <1>9, <1>11, <2>3 DEF PointsInv
  <2> QED  BY <1>7, <1>10, <2>2, <2>4 DEF PointsInv
<1> QED  BY <1>4, <1>12, <1>13

LEMMA PointsStep ==
  ASSUME RatingsAssumption, RowsInv, PointsInv, [RatingsNext]_<<ratingsVars, faults>>
  PROVE  PointsInv'
<1>1. ASSUME NEW v \in Workers, Rollback(v)
      PROVE  PointsInv'
  <2>1. UNCHANGED <<results, won>> /\ faults' # 0 /\ End(v)
    BY <1>1 DEF Rollback, Fault, RowsInv, RowTypes
  <2>2. \A w \in Workers : rphase'[w] \in CreditPhases =>
          rphase'[w] = rphase[w] /\ applying'[w] = applying[w]
    BY <2>1, EndStep DEF CreditPhases
  <2> QED  BY <2>1, <2>2, PointsAfterFault DEF PointsInv
<1>2. CASE RatingsCrash
  <2>1. UNCHANGED <<results, won>> /\ faults' # 0 /\ \A w \in Workers : rphase'[w] = "idle"
    BY <1>2 DEF RatingsCrash, Fault, RowsInv, RowTypes
  <2> QED  BY <2>1, PointsAfterFault DEF PointsInv, CreditPhases
<1>3. CASE UNCHANGED <<ratingsVars, faults>>
  BY <1>3 DEF ratingsVars, PointsInv, Owed, Due, Pending, Paid, Reasons, CreditOf
<1> QED
  BY <1>1, <1>2, <1>3, OpenPoints, CommitPoints, CreditPoints DEF RatingsNext, RatingsStep

\* Points are asked for by the winner of a match that is in the history, for a level only if it
\* rose by it, and while nothing fails for every match and every rise (creditWinner).
THEOREM PointsAreAlwaysWon ==
  ASSUME RatingsAssumption, RequestsAssumption
  PROVE  RatingsSpec => []PointsAreWon
<1>1. RatingsInit /\ faults = 0 => PointsInv
  BY DEF RatingsInit, PointsInv, Owed, CreditPhases
<1>2. RowsInv /\ PointsInv /\ [RatingsNext]_<<ratingsVars, faults>> => PointsInv'
  BY PointsStep
<1>3. PointsInv => PointsAreWon
  <2> SUFFICES ASSUME PointsInv
               PROVE  PointsAreWon
    OBVIOUS
  <2>1. \A c \in won : /\ c.match \in MatchHistory(c.user) /\ results[c.match].winner = c.user
                       /\ c.reason = "level_up" => results[c.match].rose
    BY DEF PointsInv, Due, MatchHistory
  <2>2. faults = 0 => \A i \in DOMAIN results : Pending(i) \/ Paid(i)
    BY DEF PointsInv
  <2> QED  BY <2>1, <2>2 DEF PointsAreWon, Pending, Paid, Reasons, CreditOf, CreditPhases
<1> QED  BY <1>1, <1>2, <1>3, RatingsInvariant, PTL DEF RatingsSpec
============================================================================
