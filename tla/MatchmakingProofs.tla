------------------------ MODULE MatchmakingProofs ------------------------
(***************************************************************************)
(* What TLAPS proves about Matchmaking, for any connections, users and     *)
(* modes and any number of joins: its types, that the registry of          *)
(* connections is current, that the queue implements the lobby, that no    *)
(* entry is left in it, and that a claim takes the closest opponent.       *)
(***************************************************************************)
EXTENDS Matchmaking, FoldProofs, TLAPS

\* What the locals of a handler hold in each phase.
LocalsOK ==
  \A c \in Conns :
    /\ phase[c] \in {"joining", "enqueued"} => want[c] \in Modes /\ at[c] \in Times
    /\ phase[c] = "rejoin" => want[c] \in Modes
    /\ phase[c] \in {"rejoin", "unqueue", "exit"} => currentMode[c] \in Modes

\* Every handler about to join again has a join time left for it.
BudgetOK == joins + Cardinality(Rejoining) <= MaxJoins

Inv == TypeOK /\ LocalsOK /\ BudgetOK /\ RegistryIsCurrent

----------------------------------------------------------------------------
(* The budget of join times *)

LEMMA RejoiningFinite == IsFiniteSet(Rejoining) /\ Cardinality(Rejoining) \in Nat
<1>1. IsFiniteSet(Rejoining)
  BY MatchmakingAssumption, FS_Subset DEF Rejoining
<1> QED
  BY <1>1, FS_CardinalityType

\* A handler that is not joining again leaves the budget alone.
LEMMA RejoiningKept ==
  ASSUME TypeOK, NEW c \in Conns, NEW p \in Phases \ {"rejoin"}, phase[c] # "rejoin",
         phase' = [phase EXCEPT ![c] = p]
  PROVE  Rejoining' = Rejoining
BY DEF TypeOK, Rejoining

LEMMA RejoiningMore ==
  ASSUME TypeOK, NEW c \in Conns, phase[c] # "rejoin",
         phase' = [phase EXCEPT ![c] = "rejoin"]
  PROVE  Cardinality(Rejoining') = Cardinality(Rejoining) + 1
<1>1. Rejoining' = Rejoining \cup {c} /\ c \notin Rejoining
  BY DEF TypeOK, Rejoining
<1> QED
  BY <1>1, RejoiningFinite, FS_AddElement

LEMMA RejoiningLess ==
  ASSUME TypeOK, NEW c \in Conns, NEW p \in Phases \ {"rejoin"}, phase[c] = "rejoin",
         phase' = [phase EXCEPT ![c] = p]
  PROVE  Cardinality(Rejoining') = Cardinality(Rejoining) - 1
<1>1. Rejoining' = Rejoining \ {c} /\ c \in Rejoining
  BY DEF TypeOK, Rejoining
<1> QED
  BY <1>1, RejoiningFinite, FS_RemoveElement

\* A join frame is read, and Join called, only with a join time left.
LEMMA JoinTimes ==
  ASSUME TypeOK, BudgetOK
  PROVE  /\ JoinsLeft => joins + 1 \in Times
         /\ \A c \in Conns : phase[c] = "rejoin" => joins + 1 \in Times
<1>1. Cardinality(Rejoining) \in Nat /\ IsFiniteSet(Rejoining)
  BY RejoiningFinite
<1>2. joins \in Nat /\ MaxJoins \in Nat
  BY MatchmakingAssumption DEF TypeOK
<1>3. JoinsLeft => joins + 1 \in Times
  BY <1>1, <1>2 DEF JoinsLeft, Times
<1>4. ASSUME NEW c \in Conns, phase[c] = "rejoin"
      PROVE  joins + 1 \in Times
  <2>1. c \in Rejoining
    BY <1>4 DEF Rejoining
  <2>2. Cardinality(Rejoining) >= 1
    BY <2>1, <1>1, FS_EmptySet
  <2> QED
    BY <1>1, <1>2, <2>2 DEF BudgetOK, Times
<1> QED
  BY <1>3, <1>4

----------------------------------------------------------------------------
(* Types *)

LEMMA NoneApart ==
  /\ None \notin Conns /\ None \notin Users /\ None \notin Modes /\ None \notin Entry
BY MatchmakingAssumption DEF Entry, Times

LEMMA IdleType == EmptyHash \in Hash /\ Idle \in Matcher
BY MatchmakingAssumption DEF EmptyHash, Hash, Idle, Matcher

LEMMA QueuedType ==
  ASSUME TypeOK, LocalsOK, NEW c \in Conns, phase[c] \in {"joining", "enqueued"}
  PROVE  Queued(c) \in [Modes -> Hash]
<1>1. UserOf[c] \in Users /\ LevelOf[UserOf[c]] \in 1..10
  BY MatchmakingAssumption
<1>2. [level |-> LevelOf[UserOf[c]], at |-> at[c]] \in Entry
  BY <1>1 DEF LocalsOK, Entry
<1> QED
  BY <1>1, <1>2 DEF Queued, TypeOK, Hash

LEMMA ClaimTypes ==
  ASSUME TypeOK, NEW u \in Users, Turn(u), Claims(u)
  PROVE  /\ matcher.mode \in Modes
         /\ OpponentOf(u) \in Users /\ OpponentOf(u) # u
         /\ queue[matcher.mode][u] \in Entry /\ queue[matcher.mode][OpponentOf(u)] \in Entry
         /\ Removed(matcher.mode, u, OpponentOf(u)) \in [Modes -> Hash]
<1>1. matcher.mode \in Modes
  BY DEF TypeOK, Matcher, Turn
<1>2. OpponentOf(u) \in Users /\ OpponentOf(u) # u
  BY DEF Claims, Available, Waiting
<1>3. queue[matcher.mode] \in Hash
  BY <1>1 DEF TypeOK
<1> QED
  BY <1>1, <1>2, <1>3 DEF Claims, BothThere, Removed, TypeOK, Hash

\* The pair a claim records is of the two tickets in Redis.
LEMMA ClaimedPair ==
  ASSUME TypeOK, NEW u \in Users, Turn(u), Claims(u)
  PROVE  LET m == matcher.mode opp == OpponentOf(u) IN
         /\ TicketOf(m, u) = <<u, queue[m][u].at>>
         /\ TicketOf(m, opp) = <<opp, queue[m][opp].at>>
         /\ [mode |-> m, a |-> TicketOf(m, u), b |-> TicketOf(m, opp)] \in Match
<1> DEFINE m == matcher.mode
           opp == OpponentOf(u)
<1>1. queue[m][u] # None /\ queue[m][opp] # None
  BY DEF Claims, BothThere
<1>2. TicketOf(m, u) = <<u, queue[m][u].at>> /\ TicketOf(m, opp) = <<opp, queue[m][opp].at>>
  BY <1>1 DEF TicketOf
<1>3. queue[m][u].at \in Times /\ queue[m][opp].at \in Times
  BY ClaimTypes DEF Entry
<1> QED
  BY <1>2, <1>3, ClaimTypes DEF Match, Ticket

LEMMA TypeInit == Init => TypeOK
BY IdleType, MatchmakingAssumption DEF Init, TypeOK, Phases

LEMMA TypeHandler ==
  ASSUME TypeOK, LocalsOK, BudgetOK, NEW c \in Conns, HandlerStep(c) \/ ClientStep(c)
  PROVE  TypeOK'
<1>0. UserOf[c] \in Users
  BY MatchmakingAssumption
<1>1. ASSUME NEW m \in Modes, JoinFrame(c, m) PROVE TypeOK'
  <2>1. joins + 1 \in Times
    BY <1>1, JoinTimes DEF JoinFrame
  <2>2. joins + 1 \in 0..MaxJoins
    BY <2>1, MatchmakingAssumption DEF Times
  <2> QED
    BY <1>0, <1>1, <2>1, <2>2 DEF TypeOK, JoinFrame, CallJoin, LeaveRegistry, registry, history,
       Phases
<1>2. CASE LeaveFrame(c)
  BY <1>0, <1>2 DEF TypeOK, LeaveFrame, LeaveRegistry, clock, history, Phases
<1>3. CASE Disconnect(c)
  BY <1>0, <1>3 DEF TypeOK, Disconnect, DisconnectPhase, LeaveRegistry, registry, clock, history,
     Phases
<1>4. CASE FinishLeave(c)
  <2>1. queue' \in [Modes -> Hash] /\ lost' \in SUBSET Ticket
    <3>1. currentMode[c] \in Modes
      BY <1>4 DEF FinishLeave, LocalsOK
    <3>2. queue[currentMode[c]] \in Hash
      BY <3>1 DEF TypeOK
    <3>3. CASE queue' = Unqueued(c) /\ UNCHANGED lost
      BY <3>3 DEF TypeOK, Unqueued, Hash
    <3>4. CASE /\ queue[currentMode[c]][UserOf[c]] # None
               /\ Orphan(<<UserOf[c], queue[currentMode[c]][UserOf[c]].at>>)
               /\ UNCHANGED queue
      BY <1>0, <3>2, <3>4 DEF TypeOK, Orphan, Hash, Entry, Ticket
    <3> QED
      BY <1>4, <3>3, <3>4 DEF FinishLeave, RemoveFromQueue
  <2>2. /\ joins' \in 0..MaxJoins /\ at' \in [Conns -> 0..MaxJoins]
        /\ phase' \in [Conns -> Phases] /\ currentMode' \in [Conns -> Modes \cup {None}]
    <3>1. phase[c] = "rejoin" => joins + 1 \in 0..MaxJoins
      BY JoinTimes, MatchmakingAssumption DEF Times
    <3> QED
      BY <1>4, <3>1 DEF FinishLeave, CallJoin, TypeOK, Phases
  <2> QED
    BY <1>4, <2>1, <2>2 DEF TypeOK, FinishLeave, registry
<1>5. CASE RejectJoin(c)
  <2>1. Queued(c) \in [Modes -> Hash] /\ <<UserOf[c], at[c]>> \in Ticket
    BY <1>0, <1>5, QueuedType DEF RejectJoin, LocalsOK, Ticket
  <2> QED
    BY <1>5, <2>1, MatchmakingAssumption DEF TypeOK, RejectJoin, EndJoin, Orphan, registry, clock,
       Phases
<1>6. CASE Enqueue(c)
  <2>1. Queued(c) \in [Modes -> Hash]
    BY <1>6, QueuedType DEF Enqueue
  <2> QED
    BY <1>6, <2>1 DEF TypeOK, Enqueue, registry, clock, history, Phases
<1>7. CASE RegisterConn(c)
  BY <1>0, <1>7, MatchmakingAssumption
     DEF TypeOK, RegisterConn, EndJoin, clock, history, Phases
<1> QED
  BY <1>1, <1>2, <1>3, <1>4, <1>5, <1>6, <1>7 DEF HandlerStep, ClientStep

LEMMA TypeMatcher ==
  ASSUME TypeOK, MatcherStep \/ (\E u \in Users : ClaimUnanswered(u)) \/ Age
                 \/ (\E m \in Modes : ExpireQueue(m))
  PROVE  TypeOK'
<1>1. CASE StartTick
  BY <1>1 DEF TypeOK, StartTick, ActiveModes, Matcher, registry, handlers, clock, history
<1>2. ASSUME NEW m \in Modes, ListWaiting(m) PROVE TypeOK'
  <2>1. matcher' \in Matcher
    BY <1>2 DEF TypeOK, ListWaiting, Matcher, Waiting
  <2> QED
    BY <1>2, <2>1 DEF TypeOK, ListWaiting, registry, handlers, clock, history
<1>3. ASSUME NEW u \in Users, Consider(u) PROVE TypeOK'
  <2>1. CASE Claims(u)
    <3>1. Turn(u)
      BY <1>3 DEF Consider
    <3> DEFINE pair == [mode |-> matcher.mode, a |-> TicketOf(matcher.mode, u),
                        b |-> TicketOf(matcher.mode, OpponentOf(u))]
    <3>2. pair \in Match /\ OpponentOf(u) \in Users
      BY <2>1, <3>1, ClaimTypes, ClaimedPair
    <3>3. queue' \in [Modes -> Hash] /\ matches' \in SUBSET Match
      BY <1>3, <2>1, <3>1, <3>2, ClaimTypes DEF Consider, TypeOK
    <3>4. matcher' \in Matcher
      <4>1. matcher' = [matcher EXCEPT !.users = @ \ {u}, !.paired = @ \cup {u, OpponentOf(u)},
                                       !.claimed = pair]
        BY <1>3, <2>1 DEF Consider
      <4> HIDE DEF pair
      <4> QED
        BY <3>2, <4>1 DEF TypeOK, Matcher
    <3> QED
      BY <1>3, <3>3, <3>4 DEF TypeOK, Consider, registry, handlers, clock
  <2>2. CASE ~Claims(u)
    BY <1>3, <2>2 DEF TypeOK, Consider, Matcher, registry, handlers, clock
  <2> QED
    BY <2>1, <2>2
<1>4. ASSUME NEW u \in Users, ClaimUnanswered(u) PROVE TypeOK'
  <2>1. queue' \in [Modes -> Hash]
    BY <1>4, ClaimTypes DEF ClaimUnanswered
  <2> QED
    BY <1>4, <2>1 DEF TypeOK, ClaimUnanswered, Matcher, registry, handlers, clock, history
<1>5. CASE NotifyPair
  BY <1>5 DEF TypeOK, NotifyPair, Matcher, clock
<1>6. CASE FinishMode
  BY <1>6, IdleType DEF TypeOK, FinishMode, Matcher, registry, handlers, clock, history
<1>7. CASE Age
  BY <1>7, MatchmakingAssumption DEF TypeOK, Age, registry, handlers, history
<1>8. ASSUME NEW m \in Modes, ExpireQueue(m) PROVE TypeOK'
  BY <1>8, IdleType DEF TypeOK, ExpireQueue, registry, handlers, clock, history
<1> QED
  BY <1>1, <1>2, <1>3, <1>4, <1>5, <1>6, <1>7, <1>8 DEF MatcherStep

----------------------------------------------------------------------------
(* The handlers, their budget and the registry *)

LEMMA InvInit == Init => Inv
<1> SUFFICES ASSUME Init PROVE Inv
  OBVIOUS
<1>1. LocalsOK /\ RegistryIsCurrent
  BY DEF Init, LocalsOK, RegistryIsCurrent
<1>2. BudgetOK
  <2>1. Rejoining = {}
    BY DEF Init, Rejoining
  <2> QED
    BY <2>1, FS_EmptySet, MatchmakingAssumption DEF Init, BudgetOK
<1> QED
  BY <1>1, <1>2, TypeInit DEF Inv

LEMMA LocalsHandler ==
  ASSUME Inv, NEW c \in Conns, HandlerStep(c) \/ ClientStep(c)
  PROVE  LocalsOK'
<1>0. TypeOK /\ LocalsOK
  BY DEF Inv
<1>1. ASSUME NEW m \in Modes, JoinFrame(c, m) PROVE LocalsOK'
  <2>1. joins + 1 \in Times
    BY <1>1, JoinTimes DEF JoinFrame, Inv
  <2>2. currentMode[c] # None => currentMode[c] \in Modes
    BY DEF Inv, TypeOK
  <2> QED
    BY <1>0, <1>1, <2>1, <2>2 DEF TypeOK, LocalsOK, JoinFrame, CallJoin, Reading
<1>2. CASE LeaveFrame(c)
  BY <1>0, <1>2 DEF TypeOK, LocalsOK, LeaveFrame
<1>3. CASE Disconnect(c)
  BY <1>0, <1>3 DEF TypeOK, LocalsOK, Disconnect, DisconnectPhase
<1>4. CASE FinishLeave(c)
  <2>1. phase[c] = "rejoin" => joins + 1 \in Times
    BY JoinTimes DEF Inv
  <2> QED
    BY <1>0, <1>4, <2>1 DEF TypeOK, LocalsOK, FinishLeave, CallJoin
<1>5. CASE RejectJoin(c)
  BY <1>0, <1>5 DEF TypeOK, LocalsOK, RejectJoin, EndJoin
<1>6. CASE Enqueue(c)
  BY <1>0, <1>6 DEF TypeOK, LocalsOK, Enqueue
<1>7. CASE RegisterConn(c)
  BY <1>0, <1>7 DEF TypeOK, LocalsOK, RegisterConn, EndJoin
<1> QED
  BY <1>1, <1>2, <1>3, <1>4, <1>5, <1>6, <1>7 DEF HandlerStep, ClientStep

LEMMA BudgetHandler ==
  ASSUME Inv, NEW c \in Conns, HandlerStep(c) \/ ClientStep(c)
  PROVE  BudgetOK'
<1>0. /\ TypeOK /\ BudgetOK
      /\ joins \in Nat /\ MaxJoins \in Nat /\ Cardinality(Rejoining) \in Nat
  BY RejoiningFinite, MatchmakingAssumption DEF Inv, TypeOK
<1>1. ASSUME NEW m \in Modes, JoinFrame(c, m) PROVE BudgetOK'
  <2>1. phase[c] # "rejoin" /\ JoinsLeft
    BY <1>1 DEF JoinFrame, Reading
  <2>2. CASE currentMode[c] = None
    <3>1. Rejoining' = Rejoining /\ joins' = joins + 1
      BY <1>0, <1>1, <2>1, <2>2, RejoiningKept DEF JoinFrame, CallJoin, Phases
    <3> QED
      BY <1>0, <2>1, <3>1 DEF JoinsLeft, BudgetOK
  <2>3. CASE currentMode[c] # None
    <3>1. Cardinality(Rejoining') = Cardinality(Rejoining) + 1 /\ joins' = joins
      BY <1>0, <1>1, <2>1, <2>3, RejoiningMore DEF JoinFrame
    <3> QED
      BY <1>0, <2>1, <3>1 DEF JoinsLeft, BudgetOK
  <2> QED
    BY <2>2, <2>3
<1>2. ASSUME NEW p \in Phases \ {"rejoin"}, phase[c] # "rejoin",
             phase' = [phase EXCEPT ![c] = p], joins' = joins
      PROVE  BudgetOK'
  BY <1>0, <1>2, RejoiningKept DEF BudgetOK
<1>3. CASE LeaveFrame(c)
  BY <1>2, <1>3 DEF LeaveFrame, Reading, Phases, clock
<1>4. CASE Disconnect(c)
  BY <1>2, <1>4 DEF Disconnect, DisconnectPhase, Reading, Phases, clock
<1>5. CASE FinishLeave(c)
  <2>1. CASE phase[c] = "rejoin"
    <3>1. Cardinality(Rejoining') = Cardinality(Rejoining) - 1 /\ joins' = joins + 1
      BY <1>0, <1>5, <2>1, RejoiningLess DEF FinishLeave, CallJoin, Phases
    <3> QED
      BY <1>0, <3>1 DEF BudgetOK
  <2>2. CASE phase[c] # "rejoin"
    BY <1>2, <1>5, <2>2 DEF FinishLeave, Phases
  <2> QED
    BY <2>1, <2>2
<1>6. CASE RejectJoin(c)
  BY <1>2, <1>6 DEF RejectJoin, EndJoin, Phases, clock
<1>7. CASE Enqueue(c)
  BY <1>2, <1>7 DEF Enqueue, Phases, clock
<1>8. CASE RegisterConn(c)
  BY <1>2, <1>8 DEF RegisterConn, EndJoin, Phases, clock
<1> QED
  BY <1>1, <1>3, <1>4, <1>5, <1>6, <1>7, <1>8 DEF HandlerStep, ClientStep

\* Leave clears the registry of the user, whoever is registered for him: a handler of his
\* may then be anywhere.
LEMMA RegistryAfterLeave ==
  ASSUME TypeOK, RegistryIsCurrent, NEW c \in Conns, NEW p \in Phases, LeaveRegistry(UserOf[c]),
         phase' = [phase EXCEPT ![c] = p], currentMode' = currentMode
  PROVE  RegistryIsCurrent'
<1>1. UserOf[c] \in Users
  BY MatchmakingAssumption
<1> QED
  BY <1>1, NoneApart DEF TypeOK, RegistryIsCurrent, LeaveRegistry

\* A handler that is not registered may be anywhere.
LEMMA RegistryUntouched ==
  ASSUME TypeOK, RegistryIsCurrent, NEW c \in Conns, UNCHANGED registry,
         phase[c] # "read" \/ currentMode[c] = None,
         \A d \in Conns \ {c} : phase'[d] = phase[d] /\ currentMode'[d] = currentMode[d]
  PROVE  RegistryIsCurrent'
<1>1. \A u \in Users : conns[u] # c
  BY NoneApart DEF TypeOK, RegistryIsCurrent
<1> QED
  BY <1>1 DEF TypeOK, RegistryIsCurrent, registry

LEMMA RegistryHandler ==
  ASSUME Inv, NEW c \in Conns, HandlerStep(c) \/ ClientStep(c)
  PROVE  RegistryIsCurrent'
<1>0. TypeOK /\ LocalsOK /\ RegistryIsCurrent
  BY DEF Inv
<1>1. ASSUME NEW m \in Modes, JoinFrame(c, m) PROVE RegistryIsCurrent'
  <2>1. CASE currentMode[c] = None
    BY <1>0, <1>1, <2>1, RegistryUntouched DEF JoinFrame, CallJoin, TypeOK
  <2>2. CASE currentMode[c] # None
    BY <1>0, <1>1, <2>2, RegistryAfterLeave DEF JoinFrame, Phases
  <2> QED
    BY <2>1, <2>2
<1>2. CASE LeaveFrame(c)
  BY <1>0, <1>2, RegistryAfterLeave DEF LeaveFrame, Phases
<1>3. CASE Disconnect(c)
  <2>1. CASE currentMode[c] = None
    BY <1>0, <1>3, <2>1, RegistryUntouched DEF Disconnect, DisconnectPhase, TypeOK
  <2>2. CASE currentMode[c] # None
    BY <1>0, <1>3, <2>2, RegistryAfterLeave DEF Disconnect, DisconnectPhase, Phases
  <2> QED
    BY <2>1, <2>2
<1>4. CASE FinishLeave(c)
  BY <1>0, <1>4, RegistryUntouched DEF FinishLeave, CallJoin, TypeOK
<1>5. CASE RejectJoin(c)
  BY <1>0, <1>5, RegistryUntouched DEF RejectJoin, EndJoin, TypeOK
<1>6. CASE Enqueue(c)
  BY <1>0, <1>6, RegistryUntouched DEF Enqueue, TypeOK
<1>7. CASE RegisterConn(c)
  <2>1. /\ conns' = [conns EXCEPT ![UserOf[c]] = c]
        /\ modes' = [modes EXCEPT ![UserOf[c]] = want[c]]
        /\ currentMode' = [currentMode EXCEPT ![c] = want[c]]
        /\ phase' = [phase EXCEPT ![c] = "read"]
    BY <1>7 DEF RegisterConn, EndJoin
  <2>2. want[c] \in Modes /\ UserOf[c] \in Users /\ phase[c] # "read"
    BY <1>0, <1>7, MatchmakingAssumption DEF RegisterConn, LocalsOK
  <2>3. \A u \in Users : conns[u] # c
    BY <1>0, <2>2, NoneApart DEF RegistryIsCurrent
  <2> QED
    BY <1>0, <2>1, <2>2, <2>3, NoneApart DEF TypeOK, RegistryIsCurrent
<1> QED
  BY <1>1, <1>2, <1>3, <1>4, <1>5, <1>6, <1>7 DEF HandlerStep, ClientStep

\* The matcher and time leave the handlers alone; only the end of a claim takes a pair of
\* players off the registry.
LEMMA InvOthers ==
  ASSUME Inv, MatcherStep \/ (\E u \in Users : ClaimUnanswered(u)) \/ Age
              \/ (\E m \in Modes : ExpireQueue(m))
  PROVE  LocalsOK' /\ BudgetOK' /\ RegistryIsCurrent'
<1>1. UNCHANGED <<handlers, joins>>
  BY DEF MatcherStep, StartTick, ListWaiting, Consider, NotifyPair, FinishMode, ClaimUnanswered,
     Age, ExpireQueue, handlers, clock
<1>2. LocalsOK' /\ BudgetOK'
  BY <1>1 DEF Inv, LocalsOK, BudgetOK, Rejoining, handlers
<1>3. CASE UNCHANGED registry
  BY <1>1, <1>2, <1>3 DEF Inv, RegistryIsCurrent, handlers, registry
<1>4. CASE NotifyPair
  BY <1>1, <1>2, <1>4 DEF Inv, TypeOK, RegistryIsCurrent, NotifyPair, handlers
<1>5. UNCHANGED registry \/ NotifyPair
  BY DEF MatcherStep, StartTick, ListWaiting, Consider, FinishMode, ClaimUnanswered, Age,
     ExpireQueue, registry
<1> QED
  BY <1>2, <1>3, <1>4, <1>5

LEMMA InvNext == Inv /\ [Next]_vars => Inv'
<1> SUFFICES ASSUME Inv, [Next]_vars PROVE Inv'
  OBVIOUS
<1>1. ASSUME NEW c \in Conns, HandlerStep(c) \/ ClientStep(c) PROVE Inv'
  BY <1>1, TypeHandler, LocalsHandler, BudgetHandler, RegistryHandler DEF Inv
<1>2. CASE MatcherStep \/ (\E u \in Users : ClaimUnanswered(u)) \/ Age
           \/ (\E m \in Modes : ExpireQueue(m))
  BY <1>2, TypeMatcher, InvOthers DEF Inv
<1>3. CASE UNCHANGED vars
  BY <1>3 DEF Inv, TypeOK, LocalsOK, BudgetOK, Rejoining, RegistryIsCurrent, vars, registry,
     handlers, clock, history
<1> QED
  BY <1>1, <1>2, <1>3 DEF Next

LEMMA InvAlways == Spec => []Inv
BY InvInit, InvNext, PTL DEF Spec

\* Every variable of the service always has its type: in particular no join time is drawn
\* that a handler about to rejoin counts on (Join, Leave, Tick).
THEOREM MatchmakingTypeCorrect == Spec => []TypeOK
<1>1. Inv => TypeOK
  BY DEF Inv
<1> QED
  BY <1>1, InvAlways, PTL

\* The registry never holds a handler that left or is leaving (Join, Leave, tryPair).
THEOREM RegistryIsCurrentAlways == Spec => []RegistryIsCurrent
<1>1. Inv => RegistryIsCurrent
  BY DEF Inv
<1> QED
  BY <1>1, InvAlways, PTL

----------------------------------------------------------------------------
(* The queue implements the lobby *)

\* The tickets used so far, whatever became of those queued or matched.
Used == WaitingTickets \cup UNION MatchedTickets

\* No ticket bears a time that is not drawn yet.
TimesDrawn ==
  /\ \A t \in Used : t[2] <= joins
  /\ \A c \in Conns : at[c] <= joins

\* A handler about to queue has a ticket of its own.
TicketIsFresh ==
  \A c \in Conns : phase[c] = "joining" =>
    /\ <<UserOf[c], at[c]>> \notin Used
    /\ \A d \in Conns \ {c} : phase[d] = "joining" => at[d] # at[c]

\* A ticket waits in one mode.
OneQueue ==
  \A m, n \in Modes : \A u \in Users :
    queue[m][u] # None /\ queue[n][u] # None /\ queue[m][u].at = queue[n][u].at => m = n

TicketInv == TimesDrawn /\ TicketIsFresh /\ OneQueue

LEMMA WaitingTicket ==
  ASSUME NEW t
  PROVE  t \in WaitingTickets <=>
         \E m \in Modes : \E u \in Users : queue[m][u] # None /\ t = <<u, queue[m][u].at>>
BY DEF WaitingTickets, TicketsIn, Waiting

LEMMA WaitingTicketNext ==
  ASSUME NEW t
  PROVE  t \in WaitingTickets' <=>
         \E m \in Modes : \E u \in Users : queue'[m][u] # None /\ t = <<u, queue'[m][u].at>>
BY DEF WaitingTickets, TicketsIn, Waiting

\* Entries only leave the queue.
Removes == \A m \in Modes : \A u \in Users : queue'[m][u] \in {queue[m][u], None}

LEMMA RemovesTickets ==
  ASSUME Removes
  PROVE  WaitingTickets' \subseteq WaitingTickets /\ (OneQueue => OneQueue')
<1>1. ASSUME NEW t \in WaitingTickets' PROVE t \in WaitingTickets
  <2>1. PICK m \in Modes, u \in Users : queue'[m][u] # None /\ t = <<u, queue'[m][u].at>>
    BY WaitingTicketNext
  <2>2. queue'[m][u] = queue[m][u]
    BY <2>1 DEF Removes
  <2> QED
    BY <2>1, <2>2, WaitingTicket
<1>2. ASSUME OneQueue PROVE OneQueue'
  BY <1>2 DEF Removes, OneQueue
<1> QED
  BY <1>1, <1>2

\* What a step does to the tickets: it removes some, it queues the ticket of a handler in the
\* place of an entry of the same user, or it claims two that wait.
Leaves == Removes /\ UNCHANGED matches

Joins(c) ==
  /\ phase[c] = "joining" /\ phase' \in [Conns -> Phases]
  /\ phase'[c] # "joining" /\ \A d \in Conns \ {c} : phase'[d] = phase[d]
  /\ \A d \in Conns \ {c} : at'[d] = at[d]
  /\ at'[c] <= joins /\ UNCHANGED <<joins, matches>>
  /\ queue' = Queued(c)

Takes(u) ==
  /\ Turn(u) /\ Claims(u)
  /\ queue' = Removed(matcher.mode, u, OpponentOf(u))
  /\ matches' = matches \cup {[mode |-> matcher.mode, a |-> TicketOf(matcher.mode, u),
                               b |-> TicketOf(matcher.mode, OpponentOf(u))]}

LEMMA JoinsTickets ==
  ASSUME Inv, TicketInv, NEW c \in Conns, Joins(c)
  PROVE  LET t == <<UserOf[c], at[c]>> IN
         /\ t \in WaitingTickets' /\ t \in Ticket
         /\ WaitingTickets' \subseteq WaitingTickets \cup {t}
         /\ \A w \in WaitingTickets \ WaitingTickets' : w[1] = t[1]
<1> DEFINE m == want[c]
           u == UserOf[c]
           e == [level |-> LevelOf[u], at |-> at[c]]
<1>0. m \in Modes /\ u \in Users /\ at[c] \in Times /\ LevelOf[u] \in 1..10
  BY MatchmakingAssumption DEF Inv, LocalsOK, Joins
<1>1. m \in Modes /\ u \in Users /\ at[c] \in Times /\ e \in Entry /\ e # None
  <2>1. e \in Entry
    BY <1>0 DEF Entry
  <2> QED
    BY <1>0, <2>1, NoneApart
<1>2. queue \in [Modes -> Hash] /\ queue' = [queue EXCEPT ![m][u] = e]
  BY DEF Inv, TypeOK, Joins, Queued
<1>3. queue'[m][u] = e
  BY <1>1, <1>2 DEF Hash
<1>4. \A n \in Modes : \A w \in Users : n # m \/ w # u => queue'[n][w] = queue[n][w]
  BY <1>1, <1>2 DEF Hash
<1>5. <<u, at[c]>> \in WaitingTickets' /\ <<u, at[c]>> \in Ticket
  BY <1>1, <1>3, WaitingTicketNext DEF Ticket
<1>6. ASSUME NEW t \in WaitingTickets' PROVE t \in WaitingTickets \cup {<<u, at[c]>>}
  <2>1. PICK n \in Modes, w \in Users : queue'[n][w] # None /\ t = <<w, queue'[n][w].at>>
    BY WaitingTicketNext
  <2>2. CASE n = m /\ w = u
    BY <1>3, <2>1, <2>2
  <2>3. CASE n # m \/ w # u
    BY <1>4, <2>1, <2>3, WaitingTicket
  <2> QED
    BY <2>2, <2>3
<1>7. ASSUME NEW t \in WaitingTickets, t \notin WaitingTickets' PROVE t[1] = u
  <2>1. PICK n \in Modes, w \in Users : queue[n][w] # None /\ t = <<w, queue[n][w].at>>
    BY WaitingTicket
  <2>2. n = m /\ w = u
    BY <1>4, <1>7, <2>1, WaitingTicketNext
  <2> QED
    BY <2>1, <2>2
<1> QED
  BY <1>5, <1>6, <1>7

LEMMA MatchedMore ==
  ASSUME NEW p, matches' = matches \cup {p}
  PROVE  MatchedTickets' = MatchedTickets \cup {{p.a, p.b}}
BY DEF MatchedTickets

LEMMA TakesTickets ==
  ASSUME Inv, TicketInv, NEW u \in Users, Takes(u)
  PROVE  LET s == TicketOf(matcher.mode, u)
             t == TicketOf(matcher.mode, OpponentOf(u)) IN
         /\ Removes
         /\ s \in WaitingTickets /\ t \in WaitingTickets /\ s[1] # t[1]
         /\ WaitingTickets' = WaitingTickets \ {s, t}
         /\ MatchedTickets' = MatchedTickets \cup {{s, t}}
<1> DEFINE m == matcher.mode
           w == OpponentOf(u)
           s == TicketOf(m, u)
           t == TicketOf(m, w)
<1>1. /\ m \in Modes /\ w \in Users /\ w # u
      /\ s = <<u, queue[m][u].at>> /\ t = <<w, queue[m][w].at>>
      /\ queue[m][u] # None /\ queue[m][w] # None
  BY ClaimTypes, ClaimedPair, NoneApart DEF Inv, Takes
<1>2. queue \in [Modes -> Hash] /\ queue' = [queue EXCEPT ![m] = [@ EXCEPT ![u] = None, ![w] = None]]
  BY DEF Inv, TypeOK, Takes, Removed
<1>3. queue'[m][u] = None /\ queue'[m][w] = None
  BY <1>1, <1>2 DEF Hash
<1>4. \A n \in Modes : \A v \in Users : n # m \/ v \notin {u, w} => queue'[n][v] = queue[n][v]
  BY <1>1, <1>2 DEF Hash
<1>5. Removes
  <2> SUFFICES ASSUME NEW n \in Modes, NEW v \in Users
               PROVE  queue'[n][v] \in {queue[n][v], None}
    BY DEF Removes
  <2> QED
    BY <1>3, <1>4
<1>6. s \in WaitingTickets /\ t \in WaitingTickets /\ s[1] # t[1]
  BY <1>1, WaitingTicket
<1>7. s \notin WaitingTickets' /\ t \notin WaitingTickets'
  <2>1. ASSUME NEW v \in {u, w}, <<v, queue[m][v].at>> \in WaitingTickets' PROVE FALSE
    <3>1. PICK n \in Modes, x \in Users :
            queue'[n][x] # None /\ <<v, queue[m][v].at>> = <<x, queue'[n][x].at>>
      BY <2>1, WaitingTicketNext
    <3>2. x = v /\ n # m /\ queue'[n][v] = queue[n][v]
      BY <1>3, <1>4, <2>1, <3>1
    <3> QED
      BY <1>1, <2>1, <3>1, <3>2 DEF TicketInv, OneQueue
  <2> QED
    BY <1>1, <2>1
<1>8. ASSUME NEW x \in WaitingTickets, x \notin {s, t} PROVE x \in WaitingTickets'
  <2>1. PICK n \in Modes, v \in Users : queue[n][v] # None /\ x = <<v, queue[n][v].at>>
    BY WaitingTicket
  <2>2. n # m \/ v \notin {u, w}
    BY <1>1, <1>8, <2>1
  <2> QED
    BY <1>4, <2>1, <2>2, WaitingTicketNext
<1>9. WaitingTickets' = WaitingTickets \ {s, t}
  BY <1>5, <1>7, <1>8, RemovesTickets
<1>10. MatchedTickets' = MatchedTickets \cup {{s, t}}
  <2>1. matches' = matches \cup {[mode |-> m, a |-> s, b |-> t]}
    BY DEF Takes
  <2> HIDE DEF m, w, s, t
  <2>2. MatchedTickets' = MatchedTickets
                          \cup {{[mode |-> m, a |-> s, b |-> t].a, [mode |-> m, a |-> s, b |-> t].b}}
    BY <2>1, MatchedMore
  <2> QED
    BY <2>2
<1> QED
  BY <1>1, <1>5, <1>6, <1>9, <1>10

LEMMA TicketInvInit == Init => TicketInv
<1> SUFFICES ASSUME Init PROVE TicketInv
  OBVIOUS
<1>1. MatchedTickets = {} /\ WaitingTickets = {}
  BY DEF Init, MatchedTickets, WaitingTickets, TicketsIn, Waiting, EmptyHash
<1>2. Used = {}
  BY <1>1 DEF Used
<1> QED
  BY <1>2 DEF Init, TicketInv, TimesDrawn, TicketIsFresh, OneQueue, EmptyHash

LEMMA TicketNumbers ==
  ASSUME TypeOK
  PROVE  (\A t \in Used : t[2] \in Nat) /\ joins \in Nat /\ \A c \in Conns : at[c] \in Nat
<1>1. ASSUME NEW t \in WaitingTickets PROVE t[2] \in Nat
  <2>1. PICK m \in Modes, u \in Users : queue[m][u] # None /\ t = <<u, queue[m][u].at>>
    BY WaitingTicket
  <2>2. queue[m][u] \in Entry
    BY <2>1 DEF TypeOK, Hash
  <2> QED
    BY <2>1, <2>2 DEF Entry, Times
<1>2. ASSUME NEW p \in matches, NEW t \in {p.a, p.b} PROVE t[2] \in Nat
  BY <1>2 DEF TypeOK, Match, Ticket, Times
<1>3. joins \in Nat /\ \A c \in Conns : at[c] \in Nat
  BY MatchmakingAssumption DEF TypeOK
<1> QED
  BY <1>1, <1>2, <1>3 DEF Used, MatchedTickets

\* Nobody starts to join.
Settles ==
  /\ joins' = joins
  /\ \A c \in Conns :
       /\ phase'[c] = "joining" => phase[c] = "joining"
       /\ at'[c] = at[c] \/ (at'[c] = 0 /\ phase'[c] # "joining")

\* Tickets that were used stay so or go; nobody starts to join, or one handler does with the
\* next time.
LEMMA TicketInvShrinks ==
  ASSUME Inv, Inv', TicketInv, Used' \subseteq Used, OneQueue',
         Settles \/ \E c \in Conns : CallJoin(c)
  PROVE  TicketInv'
<1>1. /\ joins \in Nat /\ \A c \in Conns : at[c] \in Nat
      /\ \A t \in Used : t[2] \in Nat
  BY TicketNumbers DEF Inv
<1>2. CASE Settles
  <2>1. TimesDrawn'
    BY <1>1, <1>2 DEF TicketInv, TimesDrawn, Settles
  <2>2. TicketIsFresh'
    BY <1>2 DEF TicketInv, TicketIsFresh, Settles
  <2> QED
    BY <2>1, <2>2 DEF TicketInv
<1>3. ASSUME NEW c \in Conns, CallJoin(c) PROVE TicketInv'
  <2>1. /\ joins' = joins + 1 /\ at'[c] = joins + 1
        /\ \A d \in Conns \ {c} : at'[d] = at[d] /\ phase'[d] = phase[d]
    BY <1>3 DEF CallJoin, Inv, TypeOK
  <2>2. TimesDrawn'
    BY <1>1, <2>1 DEF TicketInv, TimesDrawn
  <2>3. \A d \in Conns \ {c} : at'[d] # at'[c]
    BY <1>1, <2>1 DEF TicketInv, TimesDrawn
  <2>4. <<UserOf[c], at'[c]>> \notin Used'
    BY <1>1, <2>1 DEF TicketInv, TimesDrawn
  <2>5. TicketIsFresh'
    BY <2>1, <2>3, <2>4 DEF TicketInv, TicketIsFresh
  <2> QED
    BY <2>2, <2>5 DEF TicketInv
<1> QED
  BY <1>2, <1>3

LEMMA TicketInvJoins ==
  ASSUME Inv, TicketInv, NEW c \in Conns, Joins(c)
  PROVE  TicketInv'
<1> DEFINE t == <<UserOf[c], at[c]>>
<1>1. /\ joins \in Nat /\ \A d \in Conns : at[d] \in Nat
      /\ \A x \in Used : x[2] \in Nat
  BY TicketNumbers DEF Inv
<1>2. t \notin Used /\ t[2] <= joins
  BY DEF Joins, TicketInv, TicketIsFresh, TimesDrawn
<1>3. Used' \subseteq Used \cup {t}
  <2>1. MatchedTickets' = MatchedTickets
    BY DEF Joins, MatchedTickets
  <2> QED
    BY <2>1, JoinsTickets DEF Used
<1>4. TimesDrawn'
  BY <1>2, <1>3 DEF TicketInv, TimesDrawn, Joins
<1>5. TicketIsFresh'
  <2> SUFFICES ASSUME NEW d \in Conns, phase'[d] = "joining"
               PROVE  /\ <<UserOf[d], at'[d]>> \notin Used'
                      /\ \A g \in Conns \ {d} : phase'[g] = "joining" => at'[g] # at'[d]
    BY DEF TicketIsFresh
  <2>1. d # c /\ phase[d] = "joining" /\ at'[d] = at[d]
    BY DEF Joins
  <2>2. <<UserOf[d], at[d]>> \notin Used /\ at[d] # at[c]
    BY <2>1 DEF Joins, TicketInv, TicketIsFresh
  <2>3. \A g \in Conns \ {d} : phase'[g] = "joining" => at'[g] # at[d]
    BY <2>1 DEF Joins, TicketInv, TicketIsFresh
  <2> QED
    BY <1>3, <2>1, <2>2, <2>3
<1>6. OneQueue'
  <2> SUFFICES ASSUME NEW m \in Modes, NEW n \in Modes, NEW u \in Users,
                      queue'[m][u] # None, queue'[n][u] # None,
                      queue'[m][u].at = queue'[n][u].at, m # n
               PROVE  FALSE
    BY DEF OneQueue
  <2> DEFINE e == [level |-> LevelOf[UserOf[c]], at |-> at[c]]
  <2>1. queue \in [Modes -> Hash] /\ queue' = [queue EXCEPT ![want[c]][UserOf[c]] = e]
    BY DEF Inv, TypeOK, Joins, Queued
  <2>2. \A x \in Modes : x # want[c] \/ u # UserOf[c] => queue'[x][u] = queue[x][u]
    BY <2>1 DEF Hash
  <2>3. u = UserOf[c] => queue'[want[c]][u] = e
    BY <2>1, MatchmakingAssumption DEF Hash, Joins, Inv, LocalsOK
  <2>4. \A x \in Modes : queue[x][u] # None => <<u, queue[x][u].at>> \in Used
    BY WaitingTicket DEF Used
  <2>5. CASE u = UserOf[c] /\ want[c] = m
    BY <1>2, <2>2, <2>3, <2>4, <2>5
  <2>6. CASE u = UserOf[c] /\ want[c] = n
    BY <1>2, <2>2, <2>3, <2>4, <2>6
  <2>7. CASE u # UserOf[c] \/ want[c] \notin {m, n}
    BY <2>2, <2>7 DEF TicketInv, OneQueue
  <2> QED
    BY <2>5, <2>6, <2>7
<1> QED
  BY <1>4, <1>5, <1>6 DEF TicketInv

\* What every step does to the tickets.
TicketStep ==
  \/ Leaves /\ (Settles \/ \E c \in Conns : CallJoin(c))
  \/ \E c \in Conns : Joins(c)
  \/ (\E u \in Users : Takes(u)) /\ Settles

LEMMA HandlerTickets ==
  ASSUME Inv, TicketInv, NEW c \in Conns, HandlerStep(c) \/ ClientStep(c)
  PROVE  TicketStep
<1>0. TypeOK /\ LocalsOK /\ joins \in Nat /\ UserOf[c] \in Users
  BY MatchmakingAssumption DEF Inv, TypeOK
<1>1. ASSUME NEW m \in Modes, JoinFrame(c, m) PROVE TicketStep
  <2>1. Leaves
    BY <1>1 DEF JoinFrame, Leaves, Removes, history
  <2>2. CallJoin(c) \/ Settles
    BY <1>0, <1>1 DEF JoinFrame, Settles, TypeOK
  <2> QED
    BY <2>1, <2>2 DEF TicketStep
<1>2. CASE LeaveFrame(c)
  BY <1>0, <1>2 DEF LeaveFrame, TicketStep, Leaves, Removes, Settles, TypeOK, clock, history
<1>3. CASE Disconnect(c)
  BY <1>0, <1>3 DEF Disconnect, DisconnectPhase, TicketStep, Leaves, Removes, Settles, TypeOK,
     clock, history
<1>4. CASE FinishLeave(c)
  <2>1. Removes
    <3>1. CASE queue' = queue
      BY <3>1 DEF Removes
    <3>2. CASE queue' = Unqueued(c)
      BY <1>0, <1>4, <3>2 DEF Removes, Unqueued, TypeOK, Hash, FinishLeave, LocalsOK
    <3> QED
      BY <1>4, <3>1, <3>2 DEF FinishLeave, RemoveFromQueue
  <2>2. CallJoin(c) \/ Settles
    BY <1>0, <1>4 DEF FinishLeave, Settles, TypeOK
  <2> QED
    BY <1>4, <2>1, <2>2 DEF FinishLeave, TicketStep, Leaves
<1>5. CASE RejectJoin(c)
  <2>1. Settles
    BY <1>0, <1>5 DEF RejectJoin, EndJoin, Settles, TypeOK, clock
  <2>2. CASE queue' = queue
    BY <1>5, <2>1, <2>2 DEF RejectJoin, TicketStep, Leaves, Removes
  <2>3. CASE queue' = Queued(c)
    BY <1>0, <1>5, <2>3 DEF RejectJoin, EndJoin, TicketStep, Joins, TypeOK, Phases, clock
  <2> QED
    BY <1>5, <2>2, <2>3 DEF RejectJoin
<1>6. CASE Enqueue(c)
  <2>1. at[c] <= joins
    BY DEF TicketInv, TimesDrawn
  <2>2. Joins(c)
    BY <1>0, <1>6, <2>1 DEF Enqueue, Joins, TypeOK, Phases, clock, history
  <2> QED
    BY <2>2 DEF TicketStep
<1>7. CASE RegisterConn(c)
  BY <1>0, <1>7 DEF RegisterConn, EndJoin, TicketStep, Leaves, Removes, Settles, TypeOK,
     clock, history
<1> QED
  BY <1>1, <1>2, <1>3, <1>4, <1>5, <1>6, <1>7 DEF HandlerStep, ClientStep

LEMMA OtherTickets ==
  ASSUME Inv, MatcherStep \/ (\E u \in Users : ClaimUnanswered(u)) \/ Age
              \/ (\E m \in Modes : ExpireQueue(m))
  PROVE  TicketStep
<1>1. Settles
  BY DEF MatcherStep, StartTick, ListWaiting, Consider, NotifyPair, FinishMode, ClaimUnanswered,
     Age, ExpireQueue, handlers, clock, Settles
<1>2. ASSUME NEW u \in Users, Consider(u) PROVE TicketStep
  BY <1>1, <1>2 DEF Consider, TicketStep, Takes, Leaves, Removes
<1>3. ASSUME NEW u \in Users, ClaimUnanswered(u) PROVE TicketStep
  <2>1. Removes
    BY <1>3, ClaimTypes DEF ClaimUnanswered, Removed, Removes, Inv, TypeOK, Hash
  <2> QED
    BY <1>1, <1>3, <2>1 DEF ClaimUnanswered, TicketStep, Leaves, history
<1>4. ASSUME NEW m \in Modes, ExpireQueue(m) PROVE TicketStep
  <2>1. Removes
    BY <1>4 DEF ExpireQueue, EmptyHash, Removes, Inv, TypeOK
  <2> QED
    BY <1>1, <1>4, <2>1 DEF ExpireQueue, TicketStep, Leaves, history
<1>5. CASE UNCHANGED <<queue, matches>>
  BY <1>1, <1>5 DEF TicketStep, Leaves, Removes
<1> QED
  BY <1>2, <1>3, <1>4, <1>5
     DEF MatcherStep, StartTick, ListWaiting, NotifyPair, FinishMode, Age, history

LEMMA NextTickets == Inv /\ TicketInv /\ [Next]_vars => TicketStep
<1> SUFFICES ASSUME Inv, TicketInv, [Next]_vars PROVE TicketStep
  OBVIOUS
<1>1. CASE UNCHANGED vars
  BY <1>1 DEF vars, handlers, clock, history, TicketStep, Leaves, Removes, Settles
<1> QED
  BY <1>1, HandlerTickets, OtherTickets DEF Next

LEMMA TicketInvNext == Inv /\ TicketInv /\ [Next]_vars => TicketInv'
<1> SUFFICES ASSUME Inv, TicketInv, [Next]_vars PROVE TicketInv'
  OBVIOUS
<1>0. Inv' /\ TicketStep
  BY InvNext, NextTickets
<1>1. CASE Leaves /\ (Settles \/ \E c \in Conns : CallJoin(c))
  <2>1. WaitingTickets' \subseteq WaitingTickets /\ OneQueue'
    BY <1>1, RemovesTickets DEF Leaves, TicketInv
  <2>2. Used' \subseteq Used
    BY <1>1, <2>1 DEF Leaves, Used, MatchedTickets
  <2> QED
    BY <1>0, <1>1, <2>1, <2>2, TicketInvShrinks
<1>2. ASSUME NEW c \in Conns, Joins(c) PROVE TicketInv'
  BY <1>2, TicketInvJoins
<1>3. ASSUME NEW u \in Users, Takes(u), Settles PROVE TicketInv'
  <2>1. Used' \subseteq Used /\ Removes
    BY <1>3, TakesTickets DEF Used
  <2>2. OneQueue'
    BY <2>1, RemovesTickets DEF TicketInv
  <2> QED
    BY <1>0, <1>3, <2>1, <2>2, TicketInvShrinks
<1> QED
  BY <1>0, <1>1, <1>2, <1>3 DEF TicketStep

LEMMA WaitingAreTickets ==
  ASSUME TypeOK
  PROVE  WaitingTickets \subseteq Ticket
<1> SUFFICES ASSUME NEW t \in WaitingTickets PROVE t \in Ticket
  OBVIOUS
<1>1. PICK m \in Modes, u \in Users : queue[m][u] # None /\ t = <<u, queue[m][u].at>>
  BY WaitingTicket
<1>2. queue[m][u] \in Entry
  BY <1>1 DEF TypeOK, Hash
<1> QED
  BY <1>1, <1>2 DEF Entry, Ticket

\* Every step is a step of the lobby, or leaves it alone.
LEMMA LobbyStep ==
  ASSUME Inv, TicketInv, TicketStep
  PROVE  [AsLobby!Next]_(AsLobby!lvars)
<1>1. CASE Leaves
  <2>1. WaitingTickets' \subseteq WaitingTickets /\ MatchedTickets' = MatchedTickets
    BY <1>1, RemovesTickets DEF Leaves, MatchedTickets
  <2> DEFINE gone == WaitingTickets \ WaitingTickets'
  <2>2. gone \in SUBSET WaitingTickets /\ WaitingTickets' = WaitingTickets \ gone
    BY <2>1
  <2>3. AsLobby!Withdraw(gone)
    BY <2>1, <2>2 DEF AsLobby!Withdraw
  <2> QED
    BY <2>2, <2>3 DEF AsLobby!Next
<1>2. ASSUME NEW c \in Conns, Joins(c) PROVE AsLobby!Next
  <2> DEFINE t == <<UserOf[c], at[c]>>
             old == WaitingTickets \ WaitingTickets'
  <2>1. MatchedTickets' = MatchedTickets
    BY <1>2 DEF Joins, MatchedTickets
  <2>2. t \notin WaitingTickets \cup UNION MatchedTickets
    BY <1>2 DEF Joins, TicketInv, TicketIsFresh, Used
  <2>3. /\ t \in WaitingTickets' /\ t \in Ticket
        /\ WaitingTickets' \subseteq WaitingTickets \cup {t}
        /\ \A w \in old : w[1] = t[1]
    BY <1>2, JoinsTickets
  <2>4. old \in SUBSET {w \in WaitingTickets : w[1] = t[1]}
    BY <2>3
  <2>5. WaitingTickets' = (WaitingTickets \ old) \cup {t}
    BY <2>3
  <2>6. AsLobby!Enter(t)
    BY <2>1, <2>2, <2>4, <2>5 DEF AsLobby!Enter
  <2> QED
    BY <2>3, <2>6 DEF AsLobby!Next, AsLobby!Tickets, Ticket
<1>3. ASSUME NEW u \in Users, Takes(u) PROVE AsLobby!Next
  <2> DEFINE s == TicketOf(matcher.mode, u)
             t == TicketOf(matcher.mode, OpponentOf(u))
  <2>1. /\ s \in WaitingTickets /\ t \in WaitingTickets /\ s[1] # t[1]
        /\ WaitingTickets' = WaitingTickets \ {s, t}
        /\ MatchedTickets' = MatchedTickets \cup {{s, t}}
    BY <1>3, TakesTickets
  <2>2. AsLobby!Match(s, t)
    BY <2>1 DEF AsLobby!Match
  <2> QED
    BY <2>1, <2>2 DEF AsLobby!Next
<1> QED
  BY <1>1, <1>2, <1>3 DEF TicketStep

\* The service implements the lobby: it claims two waiting tickets of two players at once,
\* and queues or matches no ticket twice (Enqueue, pairScript, Leave).
THEOREM MatchmakingImplementsLobby == Spec => ImplementsLobby
<1>1. Init => AsLobby!Init
  BY DEF Init, AsLobby!Init, MatchedTickets, WaitingTickets, TicketsIn, Waiting, EmptyHash
<1>2. Inv /\ TicketInv /\ [Next]_vars => [AsLobby!Next]_(AsLobby!lvars)
  BY NextTickets, LobbyStep
<1> QED
  BY <1>1, <1>2, InvInit, InvNext, TicketInvInit, TicketInvNext, PTL
     DEF Spec, ImplementsLobby, AsLobby!Spec

----------------------------------------------------------------------------
(* Nobody haunts the queue *)

\* The handler c will remove its user's entry from mode m when it leaves or ends: a handler
\* that is about to join again has removed the one it knew of.
Keeps(c, m) ==
  \/ phase[c] \in {"read", "rejoin", "unqueue", "exit"} /\ currentMode[c] = m
  \/ phase[c] = "enqueued" /\ want[c] = m

EntryKept(m, u) ==
  queue[m][u] # None =>
    \/ <<u, queue[m][u].at>> \in lost
    \/ \E c \in Conns : UserOf[c] = u /\ Keeps(c, m)

EntriesKept == \A m \in Modes, u \in Users : EntryKept(m, u)

\* A step of handler c that writes no entry, and after which c keeps what it kept but for
\* entries it removed or gave up.
LEMMA EntriesFrame ==
  ASSUME TypeOK, EntriesKept, NEW c \in Conns, lost \subseteq lost',
         \A d \in Conns \ {c}, m \in Modes : Keeps(d, m)' = Keeps(d, m),
         \A m \in Modes, u \in Users : queue'[m][u] \in {queue[m][u], None},
         \A m \in Modes : Keeps(c, m) =>
            Keeps(c, m)' \/ queue'[m][UserOf[c]] = None
                         \/ <<UserOf[c], queue'[m][UserOf[c]].at>> \in lost'
  PROVE  EntriesKept'
<1> SUFFICES ASSUME NEW m \in Modes, NEW u \in Users, queue'[m][u] # None,
                    <<u, queue'[m][u].at>> \notin lost'
             PROVE  \E d \in Conns : UserOf[d] = u /\ Keeps(d, m)'
  BY DEF EntriesKept, EntryKept
<1>1. queue'[m][u] = queue[m][u] /\ <<u, queue[m][u].at>> \notin lost
  OBVIOUS
<1>2. PICK d \in Conns : UserOf[d] = u /\ Keeps(d, m)
  BY <1>1 DEF EntriesKept, EntryKept
<1> QED
  BY <1>2

\* A step of handler c that queues its user, who was not queued by c.
LEMMA EntriesQueued ==
  ASSUME TypeOK, LocalsOK, EntriesKept, NEW c \in Conns, phase[c] = "joining", lost \subseteq lost',
         \A d \in Conns \ {c}, m \in Modes : Keeps(d, m)' = Keeps(d, m),
         queue' = Queued(c), NEW n, n = want[c],
         <<UserOf[c], at[c]>> \in lost' \/ Keeps(c, n)'
  PROVE  EntriesKept'
<1> PICK w : w = UserOf[c]
  OBVIOUS
<1>1. n \in Modes /\ w \in Users /\ \A m \in Modes : ~Keeps(c, m)
  BY MatchmakingAssumption DEF LocalsOK, Keeps
<1>2. /\ queue'[n][w].at = at[c]
      /\ \A m \in Modes, u \in Users : (m # n \/ u # w) => queue'[m][u] = queue[m][u]
  BY <1>1 DEF Queued, TypeOK, Hash
<1> SUFFICES ASSUME NEW m \in Modes, NEW u \in Users, queue'[m][u] # None,
                    <<u, queue'[m][u].at>> \notin lost'
             PROVE  \E d \in Conns : UserOf[d] = u /\ Keeps(d, m)'
  BY DEF EntriesKept, EntryKept
<1>3. CASE m = n /\ u = w
  <2>1. <<UserOf[c], at[c]>> \notin lost'
    BY <1>2, <1>3
  <2>2. Keeps(c, m)'
    BY <1>3, <2>1
  <2> QED
    BY <1>3, <2>2
<1>4. CASE m # n \/ u # w
  <2>1. queue'[m][u] = queue[m][u] /\ <<u, queue[m][u].at>> \notin lost
    BY <1>2, <1>4
  <2>2. PICK d \in Conns : UserOf[d] = u /\ Keeps(d, m)
    BY <2>1 DEF EntriesKept, EntryKept
  <2> QED
    BY <1>1, <2>2
<1> QED
  BY <1>3, <1>4

LEMMA EntriesHandler ==
  ASSUME TypeOK, LocalsOK, EntriesKept, NEW c \in Conns, HandlerStep(c) \/ ClientStep(c)
  PROVE  EntriesKept'
<1>1. \A d \in Conns \ {c}, m \in Modes : Keeps(d, m)' = Keeps(d, m)
  BY DEF TypeOK, Keeps, HandlerStep, ClientStep, JoinFrame, CallJoin, LeaveFrame, Disconnect,
         FinishLeave, RejectJoin, EndJoin, Enqueue, RegisterConn
<1>2. CASE (\E m \in Modes : JoinFrame(c, m)) \/ LeaveFrame(c) \/ Disconnect(c) \/ RegisterConn(c)
  <2>1. UNCHANGED <<queue, lost>>
    BY <1>2 DEF JoinFrame, LeaveFrame, Disconnect, RegisterConn, history
  <2>2. \A m \in Modes : Keeps(c, m) => Keeps(c, m)'
    BY <1>2, NoneApart DEF TypeOK, LocalsOK, Keeps, Reading, JoinFrame, CallJoin, LeaveFrame,
       Disconnect, DisconnectPhase, RegisterConn, EndJoin
  <2> QED
    BY <1>1, <2>1, <2>2, EntriesFrame
<1>3. CASE FinishLeave(c)
  <2> PICK n, w : n = currentMode[c] /\ w = UserOf[c]
    OBVIOUS
  <2>1. n \in Modes /\ w \in Users /\ \A m \in Modes : Keeps(c, m) => m = n
    BY <1>3, MatchmakingAssumption DEF FinishLeave, LocalsOK, Keeps
  <2>2. \/ queue' = [queue EXCEPT ![n][w] = None] /\ UNCHANGED lost
        \/ UNCHANGED queue /\ lost' = lost \cup {<<w, queue[n][w].at>>}
    BY <1>3 DEF FinishLeave, RemoveFromQueue, Unqueued, Orphan
  <2>3. /\ lost \subseteq lost'
        /\ queue'[n][w] = None \/ <<w, queue'[n][w].at>> \in lost'
        /\ \A m \in Modes, u \in Users : queue'[m][u] \in {queue[m][u], None}
    BY <2>1, <2>2 DEF TypeOK, Hash
  <2> QED
    BY <1>1, <2>1, <2>3, EntriesFrame
<1>4. CASE RejectJoin(c)
  <2>1. phase[c] = "joining" /\ lost \subseteq lost'
    BY <1>4 DEF RejectJoin, Orphan
  <2>2. CASE UNCHANGED <<queue, lost>>
    <3>1. \A m \in Modes : ~Keeps(c, m)
      BY <2>1 DEF Keeps
    <3>2. \A m \in Modes, u \in Users : queue'[m][u] \in {queue[m][u], None}
      BY <2>2
    <3> QED
      BY <1>1, <2>1, <3>1, <3>2, EntriesFrame
  <2>3. CASE queue' = Queued(c) /\ lost' = lost \cup {<<UserOf[c], at[c]>>}
    BY <1>1, <2>1, <2>3, EntriesQueued
  <2> QED
    BY <1>4, <2>2, <2>3 DEF RejectJoin, Orphan
<1>5. CASE Enqueue(c)
  <2>1. phase[c] = "joining" /\ queue' = Queued(c) /\ UNCHANGED <<lost, want>>
        /\ phase'[c] = "enqueued"
    BY <1>5 DEF TypeOK, Enqueue, history
  <2>2. PICK n : n = want[c] /\ Keeps(c, n)'
    BY <2>1 DEF Keeps
  <2> QED
    BY <1>1, <2>1, <2>2, EntriesQueued
<1> QED
  BY <1>2, <1>3, <1>4, <1>5 DEF HandlerStep, ClientStep

\* The matcher and the expiry of a key only take entries off the queue.
LEMMA EntriesOthers ==
  ASSUME TypeOK, EntriesKept,
         MatcherStep \/ (\E u \in Users : ClaimUnanswered(u)) \/ Age
           \/ (\E m \in Modes : ExpireQueue(m)) \/ UNCHANGED vars
  PROVE  EntriesKept'
<1>1. UNCHANGED <<phase, currentMode, want, lost>>
  BY DEF MatcherStep, StartTick, ListWaiting, Consider, NotifyPair, FinishMode, ClaimUnanswered,
     Age, ExpireQueue, handlers, history, vars
<1>2. ASSUME NEW n \in Modes, NEW v, NEW w, queue' = Removed(n, v, w)
      PROVE  \A m \in Modes, u \in Users : queue'[m][u] \in {queue[m][u], None}
  BY <1>2 DEF Removed, TypeOK, Hash
<1>3. ASSUME NEW u \in Users, Turn(u), queue' = Removed(matcher.mode, u, OpponentOf(u))
      PROVE  \A m \in Modes, w \in Users : queue'[m][w] \in {queue[m][w], None}
  <2>1. matcher.mode \in Modes
    BY <1>3 DEF Turn, TypeOK, Matcher
  <2> QED
    BY <1>2, <1>3, <2>1
<1>4. \A m \in Modes, u \in Users : queue'[m][u] \in {queue[m][u], None}
  <2>1. CASE UNCHANGED queue
    BY <2>1
  <2>2. CASE \E u \in Users : Consider(u) \/ ClaimUnanswered(u)
    BY <1>3, <2>2 DEF Consider, ClaimUnanswered
  <2>3. ASSUME NEW n \in Modes, ExpireQueue(n)
        PROVE  \A m \in Modes, u \in Users : queue'[m][u] \in {queue[m][u], None}
    BY <2>3 DEF ExpireQueue, EmptyHash, TypeOK, Hash
  <2> QED
    BY <2>1, <2>2, <2>3 DEF MatcherStep, StartTick, ListWaiting, NotifyPair, FinishMode, Age, vars
<1> QED
  BY <1>1, <1>4 DEF EntriesKept, EntryKept, Keeps

\* An entry in the queue belongs to a player whose handler will remove it, unless an error of
\* Redis put it or left it there (Join, Leave, leaveWithFreshCtx).
THEOREM NoGhostEntryAlways == Spec => []NoGhostEntry
<1>1. Init => EntriesKept
  BY DEF Init, EntriesKept, EntryKept, EmptyHash
<1>2. Inv /\ EntriesKept /\ [Next]_vars => EntriesKept'
  BY EntriesHandler, EntriesOthers DEF Inv, Next
<1>3. EntriesKept => NoGhostEntry
  BY DEF EntriesKept, EntryKept, Keeps, NoGhostEntry, Waiting
<1> QED
  BY <1>1, <1>2, <1>3, InvAlways, PTL DEF Spec

----------------------------------------------------------------------------
(* The opponent a tick finds *)

\* Of w and the best so far, the one the loop keeps; and what it keeps of the opponents s.
Prefer(hash, u, w, best) == IF best = None \/ IsBetter(hash, w, best, u) THEN w ELSE best
Keep(hash, u, f, s) == IF s = {} THEN None ELSE Prefer(hash, u, Pick(s), f[s \ {Pick(s)}])

\* f is what the loop makes of each set of opponents.
IsLoop(f, hash, u, T) == f = [s \in SUBSET T |-> Keep(hash, u, f, s)]

\* The loop of the Nearest functions has a result on every finite set of opponents.
LEMMA LoopIsBest ==
  ASSUME NEW hash, NEW u, NEW T, IsFiniteSet(T)
  PROVE  \E f : IsLoop(f, hash, u, T) /\ Best(hash, u, T) = f[T]
<1> DEFINE V == T \cup {None}
           G == [p \in T \X V |-> Prefer(hash, u, p[1], p[2])]
           loop == CHOOSE f : f = [s \in SUBSET T |-> Keep(hash, u, f, s)]
<1>1. G \in [T \X V -> V] /\ None \in V
  BY DEF Prefer
<1>2. PICK f : IsFold(f, T, V, G, None)
  <2> HIDE DEF G, V
  <2> QED BY <1>1, FoldIsDefined
<1>3. ASSUME NEW s \in SUBSET T
      PROVE  f[s] = Keep(hash, u, f, s)
  <2>1. CASE s = {}
    BY <1>2, <2>1 DEF IsFold, FoldStep, Keep
  <2>2. CASE s # {}
    <3>1. Pick(s) \in T /\ f[s \ {Pick(s)}] \in V
      BY <1>2, <2>2 DEF IsFold, Pick
    <3>2. G[<<Pick(s), f[s \ {Pick(s)}]>>] = Prefer(hash, u, Pick(s), f[s \ {Pick(s)}])
      BY <3>1
    <3> QED BY <1>2, <2>2, <3>2 DEF IsFold, FoldStep, Keep
  <2> QED BY <2>1, <2>2
<1>4. f = [s \in SUBSET T |-> Keep(hash, u, f, s)]
  BY <1>2, <1>3 DEF IsFold
<1>5. loop = [s \in SUBSET T |-> Keep(hash, u, loop, s)]
  BY <1>4
<1>6. Best(hash, u, T) = loop[T]
  BY DEF Best, MapThenFoldSet, Keep, Prefer, Pick
<1> QED BY <1>5, <1>6 DEF IsLoop

LEMMA DistanceIsNatural ==
  ASSUME NEW hash \in Hash, NEW u \in Waiting(hash), NEW w \in Waiting(hash)
  PROVE  Distance(hash, u, w) \in Nat /\ hash[w].at \in Nat /\ w \in Nat
<1>1. hash[u] \in Entry /\ hash[w] \in Entry
  BY DEF Hash, Waiting
<1>2. hash[u].level \in Int /\ hash[w].level \in Int /\ hash[w].at \in Nat
  BY <1>1, MatchmakingAssumption DEF Entry, Times
<1>3. w \in Nat
  BY MatchmakingAssumption DEF Waiting
<1> QED BY <1>2, <1>3 DEF Distance

\* Distance, join time and id put those who wait in one order.
LEMMA BetterIsAnOrder ==
  ASSUME NEW hash \in Hash, NEW u \in Waiting(hash),
         NEW v \in Waiting(hash), NEW w \in Waiting(hash), NEW x \in Waiting(hash)
  PROVE  /\ v # w /\ ~IsBetter(hash, v, w, u) => IsBetter(hash, w, v, u)
         /\ IsBetter(hash, v, w, u) /\ IsBetter(hash, w, x, u) => IsBetter(hash, v, x, u)
<1> PICK dv, dw, dx : dv = Distance(hash, u, v) /\ dw = Distance(hash, u, w) /\ dx = Distance(hash, u, x)
  OBVIOUS
<1> PICK tv, tw, tx : tv = hash[v].at /\ tw = hash[w].at /\ tx = hash[x].at
  OBVIOUS
<1>1. /\ dv \in Nat /\ dw \in Nat /\ dx \in Nat
      /\ tv \in Nat /\ tw \in Nat /\ tx \in Nat
      /\ v \in Nat /\ w \in Nat /\ x \in Nat
  BY DistanceIsNatural
<1>2. /\ IsBetter(hash, v, w, u) <=> (dv < dw \/ (dv = dw /\ (tv < tw \/ (tv = tw /\ v < w))))
      /\ IsBetter(hash, w, v, u) <=> (dw < dv \/ (dw = dv /\ (tw < tv \/ (tw = tv /\ w < v))))
      /\ IsBetter(hash, w, x, u) <=> (dw < dx \/ (dw = dx /\ (tw < tx \/ (tw = tx /\ w < x))))
      /\ IsBetter(hash, v, x, u) <=> (dv < dx \/ (dv = dx /\ (tv < tx \/ (tv = tx /\ v < x))))
  BY <1>1 DEF IsBetter
<1>3. v # w /\ ~IsBetter(hash, v, w, u) => IsBetter(hash, w, v, u)
  BY <1>1, <1>2
<1>4. IsBetter(hash, v, w, u) /\ IsBetter(hash, w, x, u) => IsBetter(hash, v, x, u)
  BY <1>1, <1>2
<1> QED BY <1>3, <1>4

\* The loop finds nobody among no opponents, and else the one of them who is better than all others.
LEMMA BestIsFirst ==
  ASSUME NEW hash \in Hash, NEW u \in Waiting(hash), NEW T \in SUBSET Waiting(hash), IsFiniteSet(T)
  PROVE  /\ T = {} => Best(hash, u, T) = None
         /\ T # {} => /\ Best(hash, u, T) \in T
                      /\ \A v \in T : v # Best(hash, u, T) => IsBetter(hash, Best(hash, u, T), v, u)
<1> PICK f : IsLoop(f, hash, u, T) /\ Best(hash, u, T) = f[T]
  BY LoopIsBest
<1> DEFINE First(s) == /\ s = {} => f[s] = None
                       /\ s # {} => f[s] \in s /\ \A v \in s : v # f[s] => IsBetter(hash, f[s], v, u)
           Bad == {s \in SUBSET T : ~First(s)}
<1>1. ASSUME NEW s \in Bad, \A t \in Bad : ~(t \subseteq s /\ t # s)
      PROVE  FALSE
  <2>1. s \in SUBSET T /\ f[s] = Keep(hash, u, f, s) /\ s \subseteq Waiting(hash) /\ IsFiniteSet(s)
    BY FS_Subset DEF IsLoop
  <2>2. s # {}
    BY <2>1 DEF Keep
  <2> PICK w : w = Pick(s)
    OBVIOUS
  <2> PICK t : t = s \ {w}
    OBVIOUS
  <2>3. w \in s /\ t \in SUBSET T /\ t \subseteq s /\ t # s
    BY <2>1, <2>2, PickOut
  <2>4. First(t)
    BY <1>1, <2>3
  <2>5. f[s] = Prefer(hash, u, w, f[t])
    BY <2>1, <2>2 DEF Keep
  <2>6. CASE t = {}
    <3>1. f[s] = w /\ s = {w}
      BY <2>3, <2>4, <2>5, <2>6 DEF Prefer
    <3>2. First(s)
      BY <3>1
    <3> QED BY <3>2
  <2>7. CASE t # {}
    <3> PICK b : b = f[t]
      OBVIOUS
    <3>1. b \in t /\ \A v \in t : v # b => IsBetter(hash, b, v, u)
      BY <2>4, <2>7
    <3>2. b # None /\ b # w
      BY <2>1, <3>1, MatchmakingAssumption DEF Waiting
    <3>3. f[s] = IF IsBetter(hash, w, b, u) THEN w ELSE b
      BY <2>5, <3>2 DEF Prefer
    <3>4. \A v \in s : v \in Waiting(hash)
      BY <2>1
    <3>5. CASE IsBetter(hash, w, b, u)
      <4>1. \A v \in s : v # w => IsBetter(hash, w, v, u)
        BY <2>3, <3>1, <3>4, <3>5, BetterIsAnOrder
      <4>2. First(s)
        BY <2>2, <2>3, <3>3, <3>5, <4>1
      <4> QED BY <4>2
    <3>6. CASE ~IsBetter(hash, w, b, u)
      <4>1. IsBetter(hash, b, w, u)
        BY <2>3, <3>1, <3>2, <3>4, <3>6, BetterIsAnOrder
      <4>2. \A v \in s : v # b => IsBetter(hash, b, v, u)
        BY <3>1, <4>1
      <4>3. First(s)
        BY <2>2, <3>1, <3>3, <3>6, <4>2
      <4> QED BY <4>3
    <3> QED BY <3>5, <3>6
  <2> QED BY <2>6, <2>7
<1>2. Bad \in SUBSET (SUBSET T)
  OBVIOUS
<1>3. Bad = {}
  <2> HIDE DEF Bad
  <2> QED BY <1>1, <1>2, SmallestSubset
<1>4. First(T)
  BY <1>3
<1> QED BY <1>4

\* A mode is queued for by users with a connection, of whom there are finitely many, in Redis
\* as in the snapshot, and the matcher considers users of the snapshot.
Connected == {UserOf[c] : c \in Conns}

SnapshotOK ==
  /\ \A m \in Modes : Waiting(queue[m]) \subseteq Connected
  /\ Waiting(matcher.waiting) \subseteq Connected
  /\ matcher.users \subseteq Waiting(matcher.waiting)

LEMMA SnapshotIsFinite ==
  ASSUME SnapshotOK, NEW T \in SUBSET Waiting(matcher.waiting)
  PROVE  IsFiniteSet(T)
<1>1. IsFiniteSet(Connected)
  <2>1. UserOf \in Surjection(Conns, Connected)
    BY MatchmakingAssumption DEF Surjection, Connected
  <2> QED BY <2>1, MatchmakingAssumption, FS_Surjection
<1> QED BY <1>1, FS_Subset DEF SnapshotOK

LEMMA QueueStaysConnected ==
  ASSUME Inv, TicketInv, SnapshotOK, TicketStep
  PROVE  \A m \in Modes : Waiting(queue[m])' \subseteq Connected
<1>1. CASE Removes
  BY <1>1 DEF SnapshotOK, Removes, Waiting
<1>2. ASSUME NEW c \in Conns, queue' = Queued(c)
      PROVE  \A m \in Modes, u \in Users : u = UserOf[c] \/ queue'[m][u] = queue[m][u]
  BY <1>2 DEF Queued, Inv, TypeOK, Hash
<1>3. ASSUME NEW c \in Conns, queue' = Queued(c)
      PROVE  \A m \in Modes : Waiting(queue[m])' \subseteq Connected
  BY <1>2, <1>3 DEF SnapshotOK, Waiting, Connected
<1>4. ASSUME NEW u, Takes(u)
      PROVE  Removes
  <2>1. queue' = [queue EXCEPT ![matcher.mode] = [@ EXCEPT ![u] = None, ![OpponentOf(u)] = None]]
    BY <1>4 DEF Takes, Removed
  <2> QED BY <2>1 DEF Removes, Inv, TypeOK, Hash
<1> QED BY <1>1, <1>3, <1>4 DEF TicketStep, Leaves, Joins

LEMMA SnapshotStep ==
  ASSUME Inv, TicketInv, SnapshotOK, [Next]_vars
  PROVE  SnapshotOK'
<1>1. \A m \in Modes : Waiting(queue[m])' \subseteq Connected
  BY NextTickets, QueueStaysConnected
<1>2. CASE UNCHANGED matcher
  BY <1>1, <1>2 DEF SnapshotOK, Waiting, Connected
<1>3. ASSUME NEW m \in Modes, ListWaiting(m)
      PROVE  SnapshotOK'
  <2>1. matcher'.waiting = queue[m] /\ matcher'.users = Waiting(queue[m])
    BY <1>3 DEF ListWaiting
  <2> QED BY <1>1, <2>1 DEF SnapshotOK, Waiting, Connected
<1>4. CASE matcher'.waiting = matcher.waiting /\ matcher'.users \subseteq matcher.users
  BY <1>1, <1>4 DEF SnapshotOK, Waiting, Connected
<1>5. CASE matcher'.waiting = EmptyHash /\ matcher'.users = {}
  BY <1>1, <1>5 DEF SnapshotOK, Waiting, Connected, EmptyHash
<1>6. StartTick \/ NotifyPair \/ (\E u \in Users : Consider(u) \/ ClaimUnanswered(u)) =>
        matcher'.waiting = matcher.waiting /\ matcher'.users \subseteq matcher.users
  BY DEF StartTick, NotifyPair, Consider, ClaimUnanswered, Inv, TypeOK, Matcher
<1>7. FinishMode => matcher'.waiting = EmptyHash /\ matcher'.users = {}
  BY DEF FinishMode, Idle
<1>8. (\E c \in Conns : HandlerStep(c) \/ ClientStep(c)) \/ Age \/ (\E m \in Modes : ExpireQueue(m))
        \/ UNCHANGED vars => UNCHANGED matcher
  BY DEF HandlerStep, ClientStep, FinishLeave, RejectJoin, Enqueue, RegisterConn, JoinFrame,
         LeaveFrame, Disconnect, Age, ExpireQueue, vars
<1> QED BY <1>2, <1>3, <1>4, <1>5, <1>6, <1>7, <1>8 DEF Next, MatcherStep

\* What a pass over a snapshot finds for u, if anybody.
Suits(u, w) ==
  /\ w \in Available(u)
  /\ Distance(matcher.waiting, u, w) <= LevelDist \/ PastFallbackDeadline(u)
  /\ \A v \in Available(u) \ {w} : IsBetter(matcher.waiting, w, v, u)

LEMMA OpponentSuits ==
  ASSUME Inv, SnapshotOK, NEW u \in Users, Turn(u), OpponentOf(u) \in Available(u)
  PROVE  Suits(u, OpponentOf(u))
<1> PICK hash : hash = matcher.waiting
  OBVIOUS
<1> PICK A : A = Available(u)
  OBVIOUS
<1> PICK N : N = {w \in A : Distance(hash, u, w) <= LevelDist}
  OBVIOUS
<1>1. hash \in Hash /\ u \in Waiting(hash)
  BY DEF Inv, TypeOK, Matcher, Turn, SnapshotOK
<1>2. /\ A \in SUBSET Waiting(hash) /\ IsFiniteSet(A) /\ N \in SUBSET Waiting(hash) /\ IsFiniteSet(N)
  BY SnapshotIsFinite DEF Available
<1>3. \A w \in Waiting(hash) : Distance(hash, u, w) \in Nat
  BY <1>1, DistanceIsNatural
<1> PICK near : near = Best(hash, u, N)
  OBVIOUS
<1>4. OpponentOf(u) = IF near = None /\ PastFallbackDeadline(u) THEN Best(hash, u, A) ELSE near
  BY DEF OpponentOf, NearestWithinDistance, NearestRegardless
<1>5. None \notin A
  BY <1>2, MatchmakingAssumption DEF Waiting
<1>6. CASE near # None
  <2>1. near \in N /\ \A v \in N : v # near => IsBetter(hash, near, v, u)
    BY <1>1, <1>2, <1>6, BestIsFirst
  <2>2. \A v \in A \ N : IsBetter(hash, near, v, u)
    <3> SUFFICES ASSUME NEW v \in A \ N PROVE IsBetter(hash, near, v, u)
      OBVIOUS
    <3> PICK dv, dn : dv = Distance(hash, u, v) /\ dn = Distance(hash, u, near)
      OBVIOUS
    <3>1. dv \in Nat /\ dn \in Nat /\ dn <= LevelDist /\ ~(dv <= LevelDist)
      BY <1>2, <1>3, <2>1
    <3>2. dn < dv
      BY <3>1, MatchmakingAssumption
    <3> QED BY <3>1, <3>2 DEF IsBetter
  <2>3. OpponentOf(u) = near
    BY <1>4, <1>6
  <2> QED BY <2>1, <2>2, <2>3 DEF Suits
<1>7. CASE near = None
  <2>1. PastFallbackDeadline(u) /\ OpponentOf(u) = Best(hash, u, A)
    BY <1>4, <1>5, <1>7
  <2>2. \A v \in A : v # Best(hash, u, A) => IsBetter(hash, Best(hash, u, A), v, u)
    BY <1>1, <1>2, BestIsFirst
  <2> QED BY <2>1, <2>2 DEF Suits
<1> QED BY <1>6, <1>7

\* Whoever a claim pairs, nobody the pass could have paired instead was closer, or as close and
\* waited longer, and a pair out of distance is one whose deadline has passed: for any levels,
\* any number of players and whatever became of the queue since the snapshot (tickMode,
\* NearestWithinDistance, NearestRegardless and isBetter of player.go).
THEOREM OpponentIsAlwaysClosest == Spec => OpponentIsClosest
<1>1. Init => SnapshotOK
  BY DEF Init, SnapshotOK, Waiting, EmptyHash, Idle
<1>2. Inv /\ TicketInv /\ SnapshotOK /\ [Next]_vars =>
        [\A pair \in matches' \ matches :
           LET hash == matcher.waiting
               u == pair.a[1]
               w == pair.b[1]
               Gap(v) == Distance(hash, u, v) IN
           /\ Gap(w) <= LevelDist \/ hash[u].at <= matcher.now
           /\ \A v \in Users \ {u, w} :
                \/ hash[v] = None \/ v \in matcher.paired
                \/ Gap(w) < Gap(v)
                \/ Gap(w) = Gap(v) /\ hash[w].at <= hash[v].at]_vars
  <2> SUFFICES ASSUME Inv, SnapshotOK, Next, NEW pair \in matches' \ matches
               PROVE  LET hash == matcher.waiting
                          u == pair.a[1]
                          w == pair.b[1]
                          Gap(v) == Distance(hash, u, v) IN
                      /\ Gap(w) <= LevelDist \/ hash[u].at <= matcher.now
                      /\ \A v \in Users \ {u, w} :
                           \/ hash[v] = None \/ v \in matcher.paired
                           \/ Gap(w) < Gap(v)
                           \/ Gap(w) = Gap(v) /\ hash[w].at <= hash[v].at
    BY DEF vars, history
  <2>1. PICK u \in Users : Consider(u) /\ Claims(u)
    BY DEF Next, HandlerStep, ClientStep, MatcherStep, FinishLeave, RejectJoin, Enqueue, RegisterConn,
       JoinFrame, LeaveFrame, Disconnect, Age, ExpireQueue, StartTick, NotifyPair, FinishMode,
       ListWaiting, Consider, ClaimUnanswered, history
  <2> PICK w : w = OpponentOf(u)
    OBVIOUS
  <2>2. pair.a[1] = u /\ pair.b[1] = w
    BY <2>1 DEF Consider, TicketOf
  <2>3. Suits(u, w)
    BY <2>1, OpponentSuits DEF Consider, Claims
  <2> PICK hash : hash = matcher.waiting
    OBVIOUS
  <2>4. hash \in Hash /\ u \in Waiting(hash) /\ w \in Waiting(hash)
    BY <2>1, <2>3 DEF Inv, TypeOK, Matcher, Consider, Turn, SnapshotOK, Suits, Available
  <2>5. Distance(hash, u, w) <= LevelDist \/ hash[u].at <= matcher.now
    BY <2>3 DEF Suits, PastFallbackDeadline
  <2>6. ASSUME NEW v \in Users \ {u, w}, hash[v] # None, v \notin matcher.paired
        PROVE  \/ Distance(hash, u, w) < Distance(hash, u, v)
               \/ Distance(hash, u, w) = Distance(hash, u, v) /\ hash[w].at <= hash[v].at
    <3>1. v \in Available(u) \ {w} /\ v \in Waiting(hash)
      BY <2>6 DEF Available, Waiting
    <3>2. IsBetter(hash, w, v, u)
      BY <2>3, <3>1 DEF Suits
    <3>3. hash[w].at \in Nat /\ hash[v].at \in Nat
      BY <2>4, <3>1, DistanceIsNatural
    <3> QED BY <3>2, <3>3 DEF IsBetter
  <2> QED BY <2>2, <2>5, <2>6
<1> QED
  BY <1>1, <1>2, InvInit, InvNext, TicketInvInit, TicketInvNext, SnapshotStep, PTL
     DEF Spec, OpponentIsClosest
==========================================================================
