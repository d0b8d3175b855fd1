------------------------- MODULE SignalingProofs -------------------------
(***************************************************************************)
(* What TLAPS proves about Signaling, for any set of connections, users,   *)
(* rooms and codes: type correctness; that a vacant room is clean and the  *)
(* first reporter a member; that each battle has one verdict, reached      *)
(* among its members and rated at most once; that whoever is registered    *)
(* has a handler; and that the hub keeps the promise of Arbiter.           *)
(***************************************************************************)
EXTENDS Signaling, TLAPS

LEMMA NoneApart ==
  None \notin Conns /\ None \notin Users /\ None \notin Rooms /\ None \notin Codes
BY ConnAssumption DEF Rooms

\* Every local record of a handler, and every verdict, has its type.
LEMMA VerdictType ==
  ASSUME TypeOK, NEW r \in Rooms, NEW w \in Users \cup {None}, NEW l \in Users,
         NEW how \in {"reports", "timeout", "forfeit"}, w # l
  PROVE  VerdictOn(r, w, l, how) \in Verdict
BY DEF TypeOK, VerdictOn, Verdict

LEMMA GotoType ==
  ASSUME TypeOK, NEW c \in Conns, NEW p \in Phases, NEW a \in Arg, Goto(c, p, a)
  PROVE  phase' \in [Conns -> Phases] /\ arg' \in [Conns -> Arg]
BY DEF TypeOK, Goto

LEMMA NoArgType == NoArg \in Arg
BY DEF NoArg, Local, Arg

LEMMA TypeRedisJoin ==
  ASSUME TypeOK, NEW c \in Conns, NEW r \in Rooms, NEW m \in Modes, RedisJoin(c, r, m)
  PROVE  /\ redisRooms' \in [Rooms -> SUBSET Users] /\ open' \in [Conns -> BOOLEAN]
         /\ phase' \in [Conns -> Phases] /\ arg' \in [Conns -> Arg]
<1>1. UserOf[c] \in Users
  BY ConnAssumption
<1>2. Local(r, m, None) \in Arg
  BY DEF Local, Arg
<1>3. CASE Admits(r, UserOf[c])
  <2>1. /\ redisRooms' = [redisRooms EXCEPT ![r] = @ \cup {UserOf[c]}]
        /\ Goto(c, "joining", Local(r, m, None)) \/ Goto(c, "read", NoArg)
        /\ open' = open
    BY <1>3 DEF RedisJoin
  <2>2. redisRooms' \in [Rooms -> SUBSET Users]
    BY <1>1, <2>1 DEF TypeOK
  <2>3. phase \in [Conns -> Phases] /\ arg \in [Conns -> Arg] /\ open \in [Conns -> BOOLEAN]
    BY DEF TypeOK
  <2>4. phase' \in [Conns -> Phases] /\ arg' \in [Conns -> Arg]
    BY <1>2, <2>1, <2>3, NoArgType DEF Goto, Phases
  <2> QED
    BY <2>1, <2>2, <2>3, <2>4
<1>4. CASE ~Admits(r, UserOf[c])
  <2>1. /\ redisRooms' = redisRooms /\ open' = [open EXCEPT ![c] = FALSE]
        /\ Goto(c, "read", NoArg)
    BY <1>4 DEF RedisJoin
  <2>2. phase \in [Conns -> Phases] /\ arg \in [Conns -> Arg] /\ open \in [Conns -> BOOLEAN]
        /\ redisRooms \in [Rooms -> SUBSET Users]
    BY DEF TypeOK
  <2>3. phase' \in [Conns -> Phases] /\ arg' \in [Conns -> Arg]
    BY <2>1, <2>2, NoArgType DEF Goto, Phases
  <2> QED
    BY <2>1, <2>2, <2>3
<1> QED
  BY <1>3, <1>4

LEMMA TypeRegisterConn ==
  ASSUME TypeOK, NEW c \in Conns, NEW r \in Rooms, NEW m \in Modes \cup {None},
         RegisterConn(c, r, m)
  PROVE  /\ rooms' \in [Rooms -> [Users -> Conns \cup {None}]]
         /\ roomModes' \in [Rooms -> Modes \cup {None}]
         /\ battleStart' \in [Rooms -> BOOLEAN]
         /\ battle' \in [Rooms -> Nat]
BY ConnAssumption DEF RegisterConn, TypeOK

LEMMA TypeInit == Init => TypeOK
BY NoneApart, NoArgType
   DEF Init, TypeOK, EmptyRoom, NoArbitration, Arb, Arbitration, NoLeaving, Leaving, Phases

LEMMA TypeJoin ==
  ASSUME TypeOK, NEW c \in Conns, NEW r \in Rooms, NEW m \in JoinModes, Join(c, r, m)
  PROVE  TypeOK'
<1>1. m \in Modes
  BY ConnAssumption
<1> QED
  BY <1>1, TypeRedisJoin DEF Join, TypeOK, hub, history

LEMMA TypeRegister ==
  ASSUME TypeOK, NEW c \in Conns, arg[c].room # None, Register(c)
  PROVE  TypeOK'
<1>1. arg[c].room \in Rooms /\ arg[c].mode \in Modes \cup {None}
  BY DEF TypeOK, Arg
<1>2. /\ rooms' \in [Rooms -> [Users -> Conns \cup {None}]]
      /\ roomModes' \in [Rooms -> Modes \cup {None}]
      /\ battleStart' \in [Rooms -> BOOLEAN]
      /\ battle' \in [Rooms -> Nat]
  BY <1>1, TypeRegisterConn DEF Register
<1> QED
  BY <1>1, <1>2, NoArgType DEF Register, TypeOK, redis, Goto, Phases

LEMMA TypeCreateRoom ==
  ASSUME TypeOK, NEW c \in Conns, NEW r \in PrivateRooms, CreateRoom(c, r)
  PROVE  TypeOK'
<1>1. r \in Rooms /\ UserOf[c] \in Users
  BY ConnAssumption DEF Rooms
<1>2. Local(r, None, None) \in Arg
  BY <1>1 DEF Local, Arg
<1> QED
  BY <1>1, <1>2 DEF CreateRoom, TypeOK, hub, history, Goto, Phases

LEMMA TypeRegisterCreator ==
  ASSUME TypeOK, NEW c \in Conns, arg[c].room # None, RegisterCreator(c)
  PROVE  TypeOK'
<1>1. arg[c].room \in Rooms /\ arg[c] \in Arg
  BY DEF TypeOK, Arg
<1>2. /\ rooms' \in [Rooms -> [Users -> Conns \cup {None}]]
      /\ roomModes' \in [Rooms -> Modes \cup {None}]
      /\ battleStart' \in [Rooms -> BOOLEAN]
      /\ battle' \in [Rooms -> Nat]
  BY <1>1, TypeRegisterConn DEF RegisterCreator, Modes
<1> QED
  BY <1>1, <1>2 DEF RegisterCreator, TypeOK, redis, Goto, Phases

LEMMA TypeCreateCode ==
  ASSUME TypeOK, NEW c \in Conns, NEW k \in Codes, arg[c].room # None, CreateCode(c, k)
  PROVE  TypeOK'
<1>1. arg[c].room \in Rooms /\ Local(arg[c].room, None, k) \in Arg
  BY DEF TypeOK, Arg, Local
<1> QED
  BY <1>1 DEF CreateCode, TypeOK, hub, history, Goto, Phases

LEMMA TypeRollbackHub ==
  ASSUME TypeOK, NEW c \in Conns, RollbackHub(c)
  PROVE  TypeOK'
<1>1. arg[c] \in Arg
  BY DEF TypeOK
<1> QED
  BY <1>1 DEF RollbackHub, RollbackRooms, EmptyRoom, TypeOK, redis, history, Goto, Phases

LEMMA TypeRollbackRedis ==
  ASSUME TypeOK, NEW c \in Conns, RollbackRedis(c)
  PROVE  TypeOK'
BY NoArgType DEF RollbackRedis, TypeOK, hub, history, Goto, Phases

LEMMA TypeStoreCode ==
  ASSUME TypeOK, NEW c \in Conns, arg[c].room # None, StoreCode(c)
  PROVE  TypeOK'
<1>1. arg[c].room \in Rooms /\ arg[c].code \in Codes \cup {None}
  BY DEF TypeOK, Arg
<1> QED
  BY <1>1, NoArgType DEF StoreCode, TypeOK, redis, history, Goto, Phases

LEMMA TypeResolveCode ==
  ASSUME TypeOK, NEW c \in Conns, NEW k \in Codes, ResolveCode(c, k)
  PROVE  TypeOK'
<1>1. Local(redisCodes[k], None, None) \in Arg
  BY DEF ResolveCode, TypeOK, Local, Arg
<1> QED
  BY <1>1 DEF ResolveCode, TypeOK, hub, redis, history, Goto, Phases

LEMMA TypeJoinByCode ==
  ASSUME TypeOK, NEW c \in Conns, arg[c].room # None, JoinByCode(c)
  PROVE  TypeOK'
<1>1. arg[c].room \in Rooms /\ "unranked" \in Modes
  BY DEF TypeOK, Arg, Modes
<1>2. /\ redisRooms' \in [Rooms -> SUBSET Users] /\ open' \in [Conns -> BOOLEAN]
      /\ phase' \in [Conns -> Phases] /\ arg' \in [Conns -> Arg]
  BY <1>1, TypeRedisJoin DEF JoinByCode
<1> QED
  BY <1>2 DEF JoinByCode, TypeOK, hub, history

LEMMA TypeFirstReport ==
  ASSUME TypeOK, NEW c \in Conns, NEW r \in Rooms, FirstReport(c, r)
  PROVE  TypeOK'
<1>1. UserOf[c] \in Users
  BY ConnAssumption
<1> QED
  BY <1>1 DEF FirstReport, ReportAccepted, BufferTimer, TypeOK, Arbitration, Arb, redis

\* A verdict, and its announcement by thread t, are added to typed sets.
LEMMA TypeAnnounce ==
  ASSUME TypeOK, NEW v \in Verdict, NEW t \in Conns \cup {None},
         verdicts' = verdicts \cup {v},
         announcing' = announcing \cup {[verdict |-> v, thread |-> t]}
  PROVE  verdicts' \in SUBSET Verdict /\ announcing' \in SUBSET Announcement
BY DEF TypeOK, Announcement

LEMMA TypeSecondReport ==
  ASSUME TypeOK, NEW c \in Conns, NEW r \in Rooms, SecondReport(c, r)
  PROVE  TypeOK'
<1> DEFINE first == arbitrations[r].firstReport
<1>1. UserOf[c] \in Users /\ first \in Users /\ UserOf[c] # first
  BY ConnAssumption DEF SecondReport, TypeOK, Arbitration
<1>2. /\ VerdictOn(r, UserOf[c], first, "reports") \in Verdict
      /\ VerdictOn(r, first, UserOf[c], "reports") \in Verdict
  BY <1>1, VerdictType
<1>3. verdicts' \in SUBSET Verdict /\ announcing' \in SUBSET Announcement
  BY <1>2, TypeAnnounce DEF SecondReport
<1>4. arbitrations' \in [Rooms -> Arbitration]
  BY DEF SecondReport, TypeOK, Arbitration, Arb, Stopped
<1>5. phase' \in [Conns -> Phases]
  BY DEF SecondReport, TypeOK, Phases
<1> QED
  BY <1>3, <1>4, <1>5 DEF SecondReport, ReportAccepted, TypeOK, redis

LEMMA TypeTimerFires ==
  ASSUME TypeOK, NEW r \in Rooms, TimerFires(r)
  PROVE  TypeOK'
BY DEF TimerFires, TypeOK, Arbitration, Arb, redis, handlers, history

LEMMA TypeResolveTimeout ==
  ASSUME TypeOK, NEW r \in Rooms, NEW t \in {"idle", "armed", "fired"}, ResolveTimeout(r, t)
  PROVE  /\ arbitrations' \in [Rooms -> Arbitration]
         /\ verdicts' \in SUBSET Verdict /\ announcing' \in SUBSET Announcement
<1> DEFINE loser == arbitrations[r].firstReport
<1>1. arbitrations' \in [Rooms -> Arbitration]
  <2>1. loser \in Users \cup {None} /\ arbitrations[r].decided \in BOOLEAN
    BY DEF TypeOK, Arbitration
  <2>2. \A done \in BOOLEAN : Arb(loser, done, t) \in Arbitration
    BY <2>1 DEF Arb, Arbitration
  <2>3. PICK done \in BOOLEAN :
          arbitrations' = [arbitrations EXCEPT ![r] = Arb(loser, done, t)]
    BY <2>1 DEF ResolveTimeout
  <2> QED
    BY <2>2, <2>3 DEF TypeOK
<1>2. CASE ~TimeoutApplies(arbitrations[r])
  BY <1>1, <1>2 DEF ResolveTimeout, TypeOK
<1>3. CASE TimeoutApplies(arbitrations[r])
  <2>1. loser \in Users
    BY <1>3 DEF TimeoutApplies, TypeOK, Arbitration
  <2>2. PICK w \in TimeoutWinners(r, loser) :
          /\ verdicts' = verdicts \cup {VerdictOn(r, w, loser, "timeout")}
          /\ announcing' = announcing \cup
               {[verdict |-> VerdictOn(r, w, loser, "timeout"), thread |-> None]}
    BY <1>3 DEF ResolveTimeout
  <2>3. w \in Users \cup {None} /\ w # loser
    BY <2>1, <2>2, NoneApart DEF TimeoutWinners, Others, Members
  <2> QED
    BY <1>1, <2>1, <2>2, <2>3, VerdictType, TypeAnnounce
<1> QED
  BY <1>2, <1>3

LEMMA TypeTimeouts ==
  ASSUME TypeOK, NEW r \in Rooms, OwnTimeout(r) \/ OrphanTimeout(r)
  PROVE  TypeOK'
<1>1. arbitrations[r].timer \in {"idle", "armed", "fired"}
  BY DEF TypeOK, Arbitration
<1>2. /\ arbitrations' \in [Rooms -> Arbitration]
      /\ verdicts' \in SUBSET Verdict /\ announcing' \in SUBSET Announcement
  BY <1>1, TypeResolveTimeout DEF OwnTimeout, OrphanTimeout
<1>3. orphans' \in [Rooms -> Nat]
  <2>1. orphans[r] > 0 => orphans[r] - 1 \in Nat
    BY DEF TypeOK
  <2> QED
    BY <2>1 DEF OwnTimeout, OrphanTimeout, OrphanDue, TypeOK
<1> QED
  BY <1>2, <1>3 DEF OwnTimeout, OrphanTimeout, TypeOK, redis, handlers

LEMMA TypeFireRatingsCall ==
  ASSUME TypeOK, NEW a \in announcing, FireRatingsCall(a)
  PROVE  TypeOK'
<1>1. a \in Announcement
  BY DEF TypeOK
<1>2. [verdict |-> a.verdict, started |-> battleStart[a.verdict.room]] \in RatingsCall
  BY <1>1 DEF TypeOK, Announcement, RatingsCall, Verdict
<1>3. rated' \in Seq(RatingsCall)
  BY <1>2 DEF FireRatingsCall, TypeOK
<1>4. phase' \in [Conns -> Phases]
  BY DEF FireRatingsCall, TypeOK, Phases
<1> QED
  BY <1>3, <1>4 DEF FireRatingsCall, TypeOK, hub, redis

LEMMA TypeExit ==
  ASSUME TypeOK, NEW c \in Conns, Exit(c)
  PROVE  TypeOK'
BY NoArgType DEF Exit, TypeOK, hub, redis, history, Goto, Phases

LEMMA TypeLeaveHub ==
  ASSUME TypeOK, NEW c \in Conns, LeaveHub(c)
  PROVE  TypeOK'
<1> DEFINE r == joinedRoomID[c]
           u == UserOf[c]
           l(v) == [peers |-> {rooms[r][w] : w \in Others(r, u)}, code |-> roomCodes[r],
                    verdict |-> v, started |-> battleStart[r]]
<1>1. r \in Rooms /\ u \in Users
  BY ConnAssumption DEF LeaveHub, TypeOK
<1>2. PICK v \in IF Forfeits(r, u)
                   THEN {VerdictOn(r, w, u, "forfeit") : w \in Others(r, u)}
                   ELSE {None} :
        /\ verdicts' = IF v = None THEN verdicts ELSE verdicts \cup {v}
        /\ leaving' = [leaving EXCEPT ![c] = l(v)]
        /\ Goto(c, AfterHub(l(v).code, l(v).peers), NoArg)
  BY DEF LeaveHub
<1>3. v \in Verdict \cup {None}
  <2>1. \A w \in Others(r, u) : VerdictOn(r, w, u, "forfeit") \in Verdict
    BY <1>1, VerdictType DEF Others, Members
  <2> QED
    BY <1>2, <2>1
<1>4. {rooms[r][w] : w \in Others(r, u)} \subseteq Conns
  BY <1>1 DEF Others, Members, TypeOK
<1>5. l(v) \in Leaving
  BY <1>1, <1>3, <1>4 DEF Leaving, TypeOK
<1>6. verdicts' \in SUBSET Verdict /\ leaving' \in [Conns -> Leaving]
  BY <1>2, <1>3, <1>5 DEF TypeOK
<1>7. AfterHub(l(v).code, l(v).peers) \in Phases
  BY DEF AfterHub, Phases
<1>8. phase' \in [Conns -> Phases] /\ arg' \in [Conns -> Arg]
  BY <1>2, <1>7, NoArgType, GotoType
<1>9. rooms' \in [Rooms -> [Users -> Conns \cup {None}]]
  BY <1>1 DEF LeaveHub, RoomsAfterLeave, EmptyRoom, TypeOK
<1>10. arbitrations' \in [Rooms -> Arbitration] /\ orphans' \in [Rooms -> Nat]
  BY <1>1 DEF LeaveHub, AfterLeave, LeftTimers, NoArbitration, Arb, Arbitration, TypeOK
<1> QED
  BY <1>1, <1>6, <1>8, <1>9, <1>10 DEF LeaveHub, TypeOK, redis

LEMMA TypeLeaveCode ==
  ASSUME TypeOK, NEW c \in Conns, LeaveCode(c)
  PROVE  TypeOK'
<1>1. AfterHub(None, leaving[c].peers) \in Phases
  BY DEF AfterHub, Phases
<1>2. phase' \in [Conns -> Phases] /\ arg' \in [Conns -> Arg]
  BY <1>1, NoArgType, GotoType DEF LeaveCode
<1> QED
  BY <1>2 DEF LeaveCode, TypeOK, hub, history

LEMMA TypeLeavePeers ==
  ASSUME TypeOK, NEW c \in Conns, LeavePeers(c)
  PROVE  TypeOK'
<1>1. CASE OwesCall(c)
  <2>1. [verdict |-> leaving[c].verdict, started |-> leaving[c].started] \in RatingsCall
    BY <1>1 DEF OwesCall, TypeOK, Leaving, RatingsCall
  <2> QED
    BY <1>1, <2>1, NoArgType DEF LeavePeers, TypeOK, hub, redis, Goto, Phases
<1>2. CASE ~OwesCall(c)
  BY <1>2, NoArgType DEF LeavePeers, TypeOK, hub, redis, Goto, Phases
<1> QED
  BY <1>1, <1>2

LEMMA TypeLeaveRedis ==
  ASSUME TypeOK, NEW c \in Conns, LeaveRedis(c)
  PROVE  TypeOK'
<1>1. NoLeaving \in Leaving
  BY DEF NoLeaving, Leaving
<1>2. /\ leaving' \in [Conns -> Leaving] /\ joinedRoomID' \in [Conns -> Rooms \cup {None}]
      /\ redisRooms' \in [Rooms -> SUBSET Users]
  BY <1>1 DEF LeaveRedis, TypeOK
<1>3. phase' \in [Conns -> Phases] /\ arg' \in [Conns -> Arg]
  BY NoArgType DEF LeaveRedis, TypeOK, Goto, Phases
<1>4. /\ UNCHANGED <<rooms, roomModes, battleStart, arbitrations, roomCodes, redisCodes, open>>
      /\ UNCHANGED <<orphans, issued, announcing, battle, verdicts, rated>>
  BY DEF LeaveRedis, hub, history
<1> QED
  BY <1>2, <1>3, <1>4 DEF TypeOK

LEMMA TypeExpire ==
  ASSUME TypeOK, (\E r \in Rooms : ExpireRoom(r)) \/ (\E k \in Codes : ExpireCode(k))
  PROVE  TypeOK'
<1>1. CASE \E r \in Rooms : ExpireRoom(r)
  BY <1>1 DEF ExpireRoom, TypeOK, hub, handlers, history
<1>2. CASE \E k \in Codes : ExpireCode(k)
  BY <1>2 DEF ExpireCode, TypeOK, hub, handlers, history
<1> QED BY <1>1, <1>2

----------------------------------------------------------------------------
(* What the locals of a handler say about the rooms *)

Creating == {"creating", "minting", "minted", "rollback"}

\* A handler creating a room holds a secret private id and is in no room yet; one that
\* joins holds a room clients know; one in a room knows a known room.
LocalsOK(c) ==
  /\ phase[c] \in Creating =>
       /\ joinedRoomID[c] = None
       /\ arg[c].room \in PrivateRooms /\ issued[arg[c].room] = "secret"
  /\ phase[c] \in {"resolved", "joining"} =>
       arg[c].room \in KnownRooms /\ joinedRoomID[c] \in {None, arg[c].room}
  /\ joinedRoomID[c] \in KnownRooms \cup {None}

HandlerOK == \A c \in Conns : LocalsOK(c)

\* Two handlers never create the same room.
OneCreator ==
  \A c, d \in Conns :
    phase[c] \in Creating /\ phase[d] \in Creating /\ arg[c].room = arg[d].room => c = d

HandlerInv == TypeOK /\ HandlerOK /\ OneCreator

\* Every step keeps the types, given what a handler's locals say.
LEMMA TypeNext ==
  ASSUME TypeOK, HandlerOK, [Next]_vars
  PROVE  TypeOK'
<1> USE NoneApart
<1>1. ASSUME NEW c \in Conns, phase[c] \in {"joining", "resolved"} \cup Creating
      PROVE  arg[c].room # None
  BY <1>1 DEF HandlerOK, LocalsOK, KnownRooms, Rooms
<1>2. ASSUME NEW c \in Conns, HandlerStep(c)  PROVE TypeOK'
  <2>1. CASE Register(c)
    BY <1>1, <2>1, TypeRegister DEF Register
  <2>2. CASE JoinByCode(c)
    BY <1>1, <2>2, TypeJoinByCode DEF JoinByCode
  <2>3. CASE RegisterCreator(c)
    BY <1>1, <2>3, TypeRegisterCreator DEF RegisterCreator, Creating
  <2>4. CASE RollbackHub(c) \/ RollbackRedis(c)
    BY <2>4, TypeRollbackHub, TypeRollbackRedis
  <2>5. CASE StoreCode(c)
    BY <1>1, <2>5, TypeStoreCode DEF StoreCode, Creating
  <2>6. CASE \E k \in Codes : CreateCode(c, k)
    BY <1>1, <2>6, TypeCreateCode DEF CreateCode, Creating
  <2>7. CASE \E a \in announcing : FireRatingsCall(a)
    BY <2>7, TypeFireRatingsCall
  <2>8. CASE LeaveCode(c) \/ LeavePeers(c) \/ LeaveRedis(c)
    BY <2>8, TypeLeaveCode, TypeLeavePeers, TypeLeaveRedis
  <2> QED
    BY <1>2, <2>1, <2>2, <2>3, <2>4, <2>5, <2>6, <2>7, <2>8 DEF HandlerStep
<1>3. ASSUME NEW c \in Conns, ClientStep(c)  PROVE TypeOK'
  BY <1>3, TypeJoin, TypeResolveCode, TypeCreateRoom, TypeFirstReport, TypeSecondReport
     DEF ClientStep
<1>4. ASSUME NEW c \in Conns, ReadFails(c)  PROVE TypeOK'
  BY <1>4, TypeExit, TypeLeaveHub DEF ReadFails
<1>5. CASE TimerStep
  BY <1>5, TypeTimerFires, TypeTimeouts, TypeFireRatingsCall DEF TimerStep
<1>6. CASE (\E r \in Rooms : ExpireRoom(r)) \/ (\E k \in Codes : ExpireCode(k))
  BY <1>6, TypeExpire
<1>7. CASE UNCHANGED vars
  BY <1>7 DEF TypeOK, vars, hub, redis, handlers, history
<1> QED
  BY <1>2, <1>3, <1>4, <1>5, <1>6, <1>7 DEF Next

\* A step of handler c disturbs what the locals of the others say only through issued.
LEMMA HandlerFrame ==
  ASSUME HandlerInv, NEW c \in Conns,
         \A d \in Conns \ {c} : /\ phase'[d] = phase[d] /\ arg'[d] = arg[d]
                                 /\ joinedRoomID'[d] = joinedRoomID[d],
         KnownRooms \subseteq KnownRooms',
         \A r \in PrivateRooms : issued[r] = "secret" =>
            issued'[r] = "secret" \/ (phase[c] \in Creating /\ arg[c].room = r),
         phase'[c] \in Creating =>
            \/ phase[c] \in Creating /\ arg'[c].room = arg[c].room
            \/ issued[arg'[c].room] = "unused",
         LocalsOK(c)'
  PROVE  HandlerOK' /\ OneCreator'
<1>1. ASSUME NEW d \in Conns \ {c}  PROVE LocalsOK(d)'
  <2>1. LocalsOK(d) /\ phase'[d] = phase[d] /\ arg'[d] = arg[d]
        /\ joinedRoomID'[d] = joinedRoomID[d]
    BY DEF HandlerInv, HandlerOK
  <2>2. phase[d] \in Creating => issued'[arg[d].room] = "secret"
    BY <2>1 DEF HandlerInv, OneCreator, LocalsOK
  <2> QED
    BY <2>1, <2>2 DEF LocalsOK
<1>2. HandlerOK'
  BY <1>1 DEF HandlerOK
<1>3. OneCreator'
  BY DEF HandlerInv, OneCreator, HandlerOK, LocalsOK
<1> QED
  BY <1>2, <1>3

\* The steps that leave the locals of every handler alone, or end one.
LEMMA HandlerIdle ==
  ASSUME HandlerInv, UNCHANGED <<arg, issued>>, 
         \A d \in Conns : \/ UNCHANGED <<phase[d], joinedRoomID[d]>>
                          \/ /\ phase'[d] \notin Creating \cup {"resolved", "joining"}
                             /\ joinedRoomID'[d] \in {joinedRoomID[d], None}
  PROVE  HandlerOK' /\ OneCreator'
BY DEF HandlerInv, HandlerOK, LocalsOK, OneCreator, KnownRooms

\* What Goto does to the handlers.
LEMMA GotoMoves ==
  ASSUME TypeOK, NEW c \in Conns, NEW p, NEW a, Goto(c, p, a)
  PROVE  /\ phase'[c] = p /\ arg'[c] = a
         /\ \A d \in Conns \ {c} : phase'[d] = phase[d] /\ arg'[d] = arg[d]
BY DEF TypeOK, Goto

\* RedisJoin sends a handler to register, or back to its read loop.
LEMMA HandlerRedisJoin ==
  ASSUME HandlerInv, NEW c \in Conns, NEW r \in KnownRooms, NEW m, RedisJoin(c, r, m),
         joinedRoomID[c] \in {None, r}, UNCHANGED <<joinedRoomID, issued>>
  PROVE  HandlerOK' /\ OneCreator'
<1>1. TypeOK /\ LocalsOK(c)
  BY DEF HandlerInv, HandlerOK
<1>2. PICK p, a : /\ Goto(c, p, a)
                  /\ \/ p = "joining" /\ a = Local(r, m, None)
                     \/ p = "read"
  BY DEF RedisJoin
<1>3. /\ phase'[c] = p /\ arg'[c] = a
      /\ \A d \in Conns \ {c} : phase'[d] = phase[d] /\ arg'[d] = arg[d]
  BY <1>1, <1>2, GotoMoves
<1>4. LocalsOK(c)'
  BY <1>1, <1>2, <1>3 DEF LocalsOK, Local, Creating, KnownRooms
<1> QED
  BY <1>2, <1>3, <1>4, HandlerFrame DEF Creating, KnownRooms

\* One step per way a handler moves.
LEMMA HandlerMoves ==
  ASSUME HandlerInv, NEW c \in Conns,
         HandlerStep(c) \/ ClientStep(c) \/ ReadFails(c)
  PROVE  HandlerOK' /\ OneCreator'
<1> DEFINE Good == HandlerOK' /\ OneCreator'
<1>0. TypeOK /\ LocalsOK(c)
  BY DEF HandlerInv, HandlerOK
<1>1. CASE Register(c)
  <2>1. Goto(c, "read", NoArg) /\ phase[c] = "joining" /\ issued' = issued
        /\ joinedRoomID' = [joinedRoomID EXCEPT ![c] = arg[c].room]
    BY <1>1 DEF Register
  <2>2. joinedRoomID'[c] = arg[c].room
        /\ \A d \in Conns \ {c} : joinedRoomID'[d] = joinedRoomID[d]
    BY <1>0, <2>1 DEF TypeOK
  <2>3. LocalsOK(c)'
    BY <1>0, <2>1, <2>2, GotoMoves DEF LocalsOK, Creating, KnownRooms
  <2> QED
    BY <1>0, <2>1, <2>2, <2>3, GotoMoves, HandlerFrame DEF Creating, KnownRooms
<1>2. CASE JoinByCode(c)
  BY <1>0, <1>2, HandlerRedisJoin DEF JoinByCode, LocalsOK
<1>3. CASE RegisterCreator(c) \/ RollbackHub(c) \/ \E k \in Codes : CreateCode(c, k)
  <2>1. PICK p, a : /\ Goto(c, p, a) /\ {p, phase[c]} \subseteq Creating
                    /\ a.room = arg[c].room /\ UNCHANGED <<issued, joinedRoomID>>
    BY <1>3 DEF RegisterCreator, RollbackHub, CreateCode, Local, Creating
  <2>2. phase'[c] = p /\ arg'[c] = a
    BY <1>0, <2>1, GotoMoves
  <2>3. LocalsOK(c)'
    BY <1>0, <2>1, <2>2 DEF LocalsOK, Creating, KnownRooms
  <2> QED
    BY <1>0, <2>1, <2>2, <2>3, GotoMoves, HandlerFrame DEF KnownRooms
<1>4. CASE StoreCode(c)
  <2> DEFINE r == arg[c].room
  <2>1. /\ Goto(c, "read", NoArg) /\ phase[c] = "minted" /\ r \in PrivateRooms
        /\ joinedRoomID' = [joinedRoomID EXCEPT ![c] = r]
        /\ issued' = [issued EXCEPT ![r] = "known"]
    BY <1>0, <1>4 DEF StoreCode, LocalsOK, Creating
  <2>2. joinedRoomID'[c] = r
        /\ \A d \in Conns \ {c} : joinedRoomID'[d] = joinedRoomID[d]
    BY <1>0, <2>1 DEF TypeOK
  <2>3. KnownRooms' = KnownRooms \cup {r}
    BY <1>0, <2>1 DEF KnownRooms, TypeOK
  <2>4. \A s \in PrivateRooms : issued[s] = "secret" => issued'[s] = "secret" \/ s = r
    BY <1>0, <2>1 DEF TypeOK
  <2>5. LocalsOK(c)'
    BY <1>0, <2>1, <2>2, <2>3, GotoMoves DEF LocalsOK, Creating
  <2> QED
    BY <1>0, <2>1, <2>2, <2>3, <2>4, <2>5, GotoMoves, HandlerFrame DEF Creating
<1>5. CASE \E r \in PrivateRooms : CreateRoom(c, r)
  <2>1. PICK r \in PrivateRooms : CreateRoom(c, r)
    BY <1>5
  <2>2. /\ Goto(c, "creating", Local(r, None, None)) /\ UNCHANGED joinedRoomID
        /\ issued[r] = "unused" /\ issued' = [issued EXCEPT ![r] = "secret"]
        /\ joinedRoomID[c] = None
    BY <2>1 DEF CreateRoom
  <2>3. phase'[c] = "creating" /\ arg'[c].room = r
    BY <1>0, <2>2, GotoMoves DEF Local
  <2>4. KnownRooms' = KnownRooms
    BY <1>0, <2>2 DEF KnownRooms, TypeOK
  <2>5. \A s \in PrivateRooms : issued[s] = "secret" => issued'[s] = "secret"
    BY <1>0, <2>2 DEF TypeOK
  <2>6. LocalsOK(c)'
    BY <1>0, <2>2, <2>3, <2>4 DEF LocalsOK, Creating, TypeOK
  <2> QED
    BY <1>0, <2>2, <2>3, <2>4, <2>5, <2>6, GotoMoves, HandlerFrame
<1>6. CASE \E r \in Rooms, m \in JoinModes : Join(c, r, m)
  BY <1>6, HandlerRedisJoin DEF Join
<1>7. CASE \E k \in Codes : ResolveCode(c, k)
  <2>1. PICK k \in Codes : /\ redisCodes[k] \in KnownRooms /\ joinedRoomID[c] = None
                           /\ Goto(c, "resolved", Local(redisCodes[k], None, None))
                           /\ UNCHANGED <<issued, joinedRoomID>>
    BY <1>7 DEF ResolveCode
  <2>2. phase'[c] = "resolved" /\ arg'[c].room = redisCodes[k]
    BY <1>0, <2>1, GotoMoves DEF Local
  <2>3. LocalsOK(c)'
    BY <1>0, <2>1, <2>2 DEF LocalsOK, Creating, KnownRooms
  <2> QED
    BY <1>0, <2>1, <2>2, <2>3, GotoMoves, HandlerFrame DEF Creating, KnownRooms
<1>8. CASE RollbackRedis(c) \/ LeaveCode(c) \/ LeavePeers(c) \/ Exit(c) \/ LeaveHub(c)
  <2>1. PICK p, a : /\ Goto(c, p, a) /\ p \notin Creating \cup {"resolved", "joining"}
                    /\ UNCHANGED <<issued, joinedRoomID>>
    BY <1>8 DEF RollbackRedis, LeaveCode, LeavePeers, Exit, LeaveHub, AfterHub, Creating
  <2>2. phase'[c] = p
    BY <1>0, <2>1, GotoMoves
  <2>3. LocalsOK(c)'
    BY <1>0, <2>1, <2>2 DEF LocalsOK, KnownRooms
  <2> QED
    BY <1>0, <2>1, <2>2, <2>3, GotoMoves, HandlerFrame DEF KnownRooms
<1>9. CASE LeaveRedis(c)
  <2>1. /\ Goto(c, "done", NoArg) /\ UNCHANGED issued
        /\ joinedRoomID' = [joinedRoomID EXCEPT ![c] = None]
    BY <1>9 DEF LeaveRedis
  <2>2. joinedRoomID'[c] = None
        /\ \A d \in Conns \ {c} : joinedRoomID'[d] = joinedRoomID[d]
    BY <1>0, <2>1 DEF TypeOK
  <2>3. LocalsOK(c)'
    BY <1>0, <2>1, <2>2, GotoMoves DEF LocalsOK, Creating
  <2> QED
    BY <1>0, <2>1, <2>2, <2>3, GotoMoves, HandlerFrame DEF Creating, KnownRooms
<1>10. CASE \E r \in Rooms : FirstReport(c, r) \/ SecondReport(c, r)
  <2>1. UNCHANGED <<arg, issued, joinedRoomID>>
    BY <1>10 DEF FirstReport, SecondReport, ReportAccepted
  <2>2. \A d \in Conns : phase'[d] = phase[d] \/ phase'[d] = "announcing"
    BY <1>0, <1>10 DEF FirstReport, SecondReport, TypeOK
  <2> QED
    BY <2>1, <2>2, HandlerIdle DEF Creating
<1>11. CASE \E a \in announcing : FireRatingsCall(a)
  BY <1>0, <1>11, HandlerIdle DEF FireRatingsCall, Creating, TypeOK
<1> QED
  BY <1>1, <1>2, <1>3, <1>4, <1>5, <1>6, <1>7, <1>8, <1>9, <1>10, <1>11
     DEF HandlerStep, ClientStep, ReadFails

LEMMA HandlerInvInit == Init => HandlerInv
<1>1. Init => HandlerOK /\ OneCreator
  BY DEF Init, HandlerOK, LocalsOK, OneCreator, Creating
<1> QED
  BY <1>1, TypeInit DEF HandlerInv

LEMMA HandlerInvNext == HandlerInv /\ [Next]_vars => HandlerInv'
<1> SUFFICES ASSUME HandlerInv, [Next]_vars  PROVE HandlerInv'
  OBVIOUS
<1>1. TypeOK'
  BY TypeNext DEF HandlerInv
<1>2. ASSUME NEW c \in Conns, HandlerStep(c) \/ ClientStep(c) \/ ReadFails(c)
      PROVE  HandlerOK' /\ OneCreator'
  BY <1>2, HandlerMoves
<1>3. HandlerOK' /\ OneCreator'
  <2>1. CASE \E r \in Rooms : TimerFires(r) \/ OwnTimeout(r) \/ OrphanTimeout(r)
    BY <2>1, HandlerIdle DEF TimerFires, OwnTimeout, OrphanTimeout, handlers
  <2>2. CASE \E a \in announcing : FireRatingsCall(a)
    <3>1. UNCHANGED <<arg, issued, joinedRoomID>>
      BY <2>2 DEF FireRatingsCall
    <3>2. \A d \in Conns : phase'[d] = phase[d] \/ phase'[d] = "read"
      BY <2>2 DEF FireRatingsCall, HandlerInv, TypeOK
    <3> QED
      BY <3>1, <3>2, HandlerIdle DEF Creating
  <2>3. CASE (\E r \in Rooms : ExpireRoom(r)) \/ (\E k \in Codes : ExpireCode(k))
    BY <2>3, HandlerIdle DEF ExpireRoom, ExpireCode, handlers
  <2>4. CASE UNCHANGED vars
    BY <2>4, HandlerIdle DEF vars, handlers
  <2> QED
    BY <1>2, <2>1, <2>2, <2>3, <2>4 DEF Next, TimerStep
<1> QED
  BY <1>1, <1>3 DEF HandlerInv

LEMMA HandlersAlways == Spec => []HandlerInv
BY HandlerInvInit, HandlerInvNext, PTL DEF Spec

\* Every reachable state is well typed, whatever the interleaving of handlers, timer
\* callbacks and Redis expiry.
THEOREM TypeCorrect == Spec => []TypeOK
<1>1. HandlerInv => TypeOK
  BY DEF HandlerInv
<1> QED
  BY <1>1, HandlersAlways, PTL

----------------------------------------------------------------------------
(* The rooms and their battles *)

\* What holds of each room: no arbitration or code before clients know it, nothing left
\* behind in it when it is vacant, and a first reporter who is a member.
RoomOK(r) ==
  /\ r \notin KnownRooms => arbitrations[r] = NoArbitration /\ roomCodes[r] = None
  /\ Vacant(r) => /\ arbitrations[r] = NoArbitration
                  /\ roomModes[r] = None /\ ~battleStart[r] /\ roomCodes[r] = None
  /\ arbitrations[r].firstReport \in Members(r) \cup {None}

RoomsOK == \A r \in Rooms : RoomOK(r)

\* The creator of a room is in it until its code is stored or rolled back.
CreatorIsMember ==
  \A c \in Conns : phase[c] \in {"minting", "minted"} => UserOf[c] \in Members(arg[c].room)

\* Every verdict is on a battle begun before, the open battle has none.
VerdictsOK ==
  /\ \A v \in verdicts : /\ v.battle <= battle[v.room]
                         /\ v.battle = battle[v.room] => StateOf(v.room) # "open"
  /\ OneVerdictPerBattle

HubInv == HandlerInv /\ RoomsOK /\ CreatorIsMember /\ VerdictsOK

----------------------------------------------------------------------------
(* The four things a step can do to the battles *)

SameState(S) == \A s \in S : StateOf(s)' = StateOf(s)

Idles == SameState(Rooms) /\ UNCHANGED <<battle, verdicts>>

Opens(r) ==
  /\ StateOf(r) = "vacant" /\ StateOf(r)' = "open" /\ SameState(Rooms \ {r})
  /\ battle' = [battle EXCEPT ![r] = @ + 1]
  /\ verdicts' = verdicts

Closes(r) ==
  /\ StateOf(r) # "vacant" /\ StateOf(r)' = "vacant" /\ SameState(Rooms \ {r})
  /\ UNCHANGED <<battle, verdicts>>

Decides(r, v, state) ==
  /\ StateOf(r) = "open" /\ StateOf(r)' = state /\ SameState(Rooms \ {r})
  /\ v.room = r /\ v.battle = battle[r] /\ verdicts' = verdicts \cup {v}
  /\ battle' = battle

Effect ==
  \/ Idles
  \/ \E r \in Rooms :
       \/ Opens(r) \/ Closes(r)
       \/ \E v \in Verdict : Decides(r, v, "decided")
       \/ \E v \in Verdict : v.by = "forfeit" /\ Decides(r, v, "vacant")

LEMMA StateCases ==
  ASSUME NEW r \in Rooms
  PROVE  /\ StateOf(r) = "vacant" <=> Vacant(r)
         /\ StateOf(r) = "decided" <=> ~Vacant(r) /\ arbitrations[r].decided
         /\ StateOf(r) = "open" <=> ~Vacant(r) /\ ~arbitrations[r].decided
         /\ StateOf(r) \in {"vacant", "open", "decided"}
BY DEF StateOf

LEMMA SameRoomSameState ==
  ASSUME NEW r \in Rooms, rooms'[r] = rooms[r],
         arbitrations'[r].decided = arbitrations[r].decided
  PROVE  StateOf(r)' = StateOf(r) /\ Members(r)' = Members(r)
BY DEF StateOf, Vacant, Members

\* Whatever the step, the verdicts stay settled.
LEMMA EffectKeepsVerdicts ==
  ASSUME HubInv, Effect
  PROVE  VerdictsOK'
<1> USE DEF HubInv, HandlerInv, TypeOK, VerdictsOK, Verdict
<1>1. CASE Idles
  BY <1>1 DEF Idles, SameState, OneVerdictPerBattle
<1>2. ASSUME NEW r \in Rooms, Opens(r)  PROVE VerdictsOK'
  <2>1. \A v \in verdicts : /\ v.battle <= battle'[v.room]
                            /\ v.battle = battle'[v.room] => v.room # r
    BY <1>2 DEF Opens
  <2> QED
    BY <1>2, <2>1 DEF Opens, SameState, OneVerdictPerBattle
<1>3. ASSUME NEW r \in Rooms, Closes(r)  PROVE VerdictsOK'
  BY <1>3 DEF Closes, SameState, OneVerdictPerBattle
<1>4. ASSUME NEW r \in Rooms, NEW v \in Verdict, NEW s \in {"decided", "vacant"},
             Decides(r, v, s)
      PROVE  VerdictsOK'
  <2>1. \A w \in verdicts : ~(w.room = r /\ w.battle = battle[r])
    BY <1>4 DEF Decides
  <2>2. OneVerdictPerBattle'
    BY <1>4, <2>1 DEF Decides, OneVerdictPerBattle
  <2>3. \A w \in verdicts' : /\ w.battle <= battle[w.room]
                             /\ w.battle = battle[w.room] => StateOf(w.room)' # "open"
    BY <1>4 DEF Decides, SameState
  <2> QED
    BY <1>4, <2>2, <2>3 DEF Decides
<1> QED
  BY <1>1, <1>2, <1>3, <1>4 DEF Effect

\* ... and the step is one that Arbiter allows.
LEMMA EffectIsPromised ==
  ASSUME HubInv, Effect
  PROVE  [Promise!Next]_(Promise!avars)
<1> DEFINE state == [r \in Rooms |-> StateOf(r)]
           decided == {<<v.room, v.battle, ResultOf(v)>> : v \in verdicts}
<1>1. CASE Idles
  <2>1. state' = state /\ decided' = decided /\ battle' = battle
    BY <1>1 DEF Idles, SameState
  <2> QED
    BY <2>1 DEF Promise!avars
<1>2. ASSUME NEW r \in Rooms, Opens(r)  PROVE Promise!Next
  <2>1. state' = [state EXCEPT ![r] = "open"] /\ state[r] = "vacant" /\ decided' = decided
    BY <1>2 DEF Opens, SameState
  <2> QED
    BY <1>2, <2>1 DEF Opens, Promise!Next, Promise!Open
<1>3. ASSUME NEW r \in Rooms, Closes(r)  PROVE Promise!Next
  <2>1. state' = [state EXCEPT ![r] = "vacant"] /\ state[r] # "vacant" /\ decided' = decided
    BY <1>3 DEF Closes, SameState
  <2> QED
    BY <1>3, <2>1 DEF Closes, Promise!Next, Promise!Close
<1>4. ASSUME NEW r \in Rooms, NEW v \in Verdict, NEW s \in {"decided", "vacant"},
             Decides(r, v, s)
      PROVE  Promise!Next
  <2> DEFINE d == <<v.room, v.battle, ResultOf(v)>>
  <2>1. state' = [state EXCEPT ![r] = s] /\ state[r] = "open"
    BY <1>4 DEF Decides, SameState
  <2>2. \A w \in verdicts : ~(w.room = r /\ w.battle = battle[r])
    BY <1>4 DEF Decides, HubInv, HandlerInv, TypeOK, VerdictsOK, Verdict
  <2>3. d \notin decided
    BY <1>4, <2>2 DEF Decides
  <2>4. decided' = decided \cup {d}
    BY <1>4 DEF Decides
  <2>5. d \in {r} \X {battle[r]} \X Results
    BY <1>4 DEF Decides, Verdict, ResultOf, Results
  <2>6. Promise!Verdict(r)
    BY <2>3, <2>4, <2>5 DEF Promise!Verdict
  <2> QED
    BY <1>4, <2>1, <2>6 DEF Decides, Promise!Next, Promise!Decide, Promise!Forfeit
<1> QED
  BY <1>1, <1>2, <1>3, <1>4 DEF Effect

----------------------------------------------------------------------------
(* The steps of the hub *)

\* A room the step does not touch stays as it was.
LEMMA RoomFrame ==
  ASSUME NEW r \in Rooms, RoomOK(r), KnownRooms \subseteq KnownRooms',
         rooms'[r] = rooms[r], arbitrations'[r] = arbitrations[r],
         roomModes'[r] = roomModes[r], battleStart'[r] = battleStart[r],
         roomCodes'[r] = roomCodes[r]
  PROVE  RoomOK(r)' /\ StateOf(r)' = StateOf(r)
<1>1. StateOf(r)' = StateOf(r) /\ Members(r)' = Members(r)
  BY SameRoomSameState
<1>2. Vacant(r)' <=> Vacant(r)
  BY <1>1 DEF Vacant
<1> QED
  BY <1>1, <1>2 DEF RoomOK

LEMMA HubIdle ==
  ASSUME HubInv, UNCHANGED <<hub, battle, verdicts>>, KnownRooms \subseteq KnownRooms'
  PROVE  RoomsOK' /\ Effect
BY RoomFrame DEF HubInv, RoomsOK, Effect, Idles, SameState, hub

\* The first registration opens the battle of a clean room, a later one changes nothing
\* that its outcome depends on.
LEMMA HubRegisterConn ==
  ASSUME HubInv, NEW c \in Conns, NEW r \in Rooms, NEW m, RegisterConn(c, r, m),
         UNCHANGED <<arbitrations, roomCodes, issued, verdicts>>
  PROVE  /\ RoomsOK' /\ Effect
         /\ Members(r)' = Members(r) \cup {UserOf[c]}
         /\ \A s \in Rooms \ {r} : Members(s)' = Members(s)
<1>1. TypeOK /\ RoomOK(r) /\ UserOf[c] \in Users /\ c # None
  BY ConnAssumption DEF HubInv, HandlerInv, RoomsOK
<1>2. Members(r)' = Members(r) \cup {UserOf[c]}
  BY <1>1 DEF RegisterConn, Members, TypeOK
<1>3. ASSUME NEW s \in Rooms \ {r}
      PROVE  RoomOK(s)' /\ StateOf(s)' = StateOf(s) /\ Members(s)' = Members(s)
  <2>1. /\ rooms'[s] = rooms[s] /\ arbitrations'[s] = arbitrations[s]
        /\ roomModes'[s] = roomModes[s] /\ battleStart'[s] = battleStart[s]
        /\ roomCodes'[s] = roomCodes[s] /\ KnownRooms' = KnownRooms
    BY <1>1 DEF RegisterConn, TypeOK, KnownRooms
  <2> QED
    BY <2>1, RoomFrame, SameRoomSameState DEF HubInv, RoomsOK
<1>4. RoomOK(r)'
  BY <1>1, <1>2 DEF RoomOK, Vacant, KnownRooms
<1>5. RoomsOK'
  BY <1>3, <1>4 DEF RoomsOK
<1>6. CASE Vacant(r)
  <2>0. /\ arbitrations[r] = NoArbitration /\ battle' = [battle EXCEPT ![r] = @ + 1]
        /\ UserOf[c] \in Members(r)' /\ arbitrations' = arbitrations
    BY <1>1, <1>2, <1>6 DEF RegisterConn, RoomOK
  <2>1. Opens(r)
    BY <1>2, <1>3, <1>6, <2>0, StateCases
       DEF Opens, SameState, StateOf, Vacant, NoArbitration, Arb
  <2> QED
    BY <1>2, <1>3, <1>5, <2>1 DEF Effect
<1>7. CASE ~Vacant(r)
  <2>1. StateOf(r)' = StateOf(r)
    BY <1>2, <1>7 DEF StateOf, Vacant
  <2>2. Idles
    BY <1>3, <1>7, <2>1 DEF Idles, SameState, RegisterConn
  <2> QED
    BY <1>2, <1>3, <1>5, <2>2 DEF Effect
<1> QED
  BY <1>6, <1>7

\* Steps that change nothing but the arbitration of a room with somebody in it, or that
\* leave that of the room undecided.
LEMMA HubArbitrate ==
  ASSUME HubInv, NEW r \in Rooms, NEW arb \in Arbitration,
         arbitrations' = [arbitrations EXCEPT ![r] = arb],
         UNCHANGED <<rooms, roomModes, battleStart, roomCodes, issued, battle>>,
         \/ arb = arbitrations[r]
         \/ ~Vacant(r) /\ r \in KnownRooms /\ arb.firstReport \in Members(r) \cup {None},
         \/ arb.decided = arbitrations[r].decided /\ UNCHANGED verdicts
         \/ /\ ~arbitrations[r].decided /\ arb.decided /\ ~Vacant(r)
            /\ \E v \in Verdict : /\ v.room = r /\ v.battle = battle[r]
                                 /\ verdicts' = verdicts \cup {v}
  PROVE  RoomsOK' /\ Effect
<1>1. TypeOK /\ RoomOK(r) /\ arbitrations'[r] = arb /\ KnownRooms' = KnownRooms
  BY DEF HubInv, HandlerInv, RoomsOK, TypeOK, KnownRooms
<1>2. \A s \in Rooms : Members(s)' = Members(s)
  BY DEF Members
<1>3. ASSUME NEW s \in Rooms \ {r}  PROVE RoomOK(s)' /\ StateOf(s)' = StateOf(s)
  BY <1>1, RoomFrame DEF HubInv, RoomsOK, TypeOK
<1>4. RoomOK(r)'
  BY <1>1, <1>2 DEF RoomOK, Vacant
<1>5. RoomsOK'
  BY <1>3, <1>4 DEF RoomsOK
<1>6. CASE arb.decided = arbitrations[r].decided /\ UNCHANGED verdicts
  <2>1. StateOf(r)' = StateOf(r)
    BY <1>1, <1>6, SameRoomSameState
  <2> QED
    BY <1>3, <1>5, <1>6, <2>1 DEF Effect, Idles, SameState
<1>7. CASE /\ ~arbitrations[r].decided /\ arb.decided /\ ~Vacant(r)
           /\ \E v \in Verdict : /\ v.room = r /\ v.battle = battle[r]
                                /\ verdicts' = verdicts \cup {v}
  <2>1. StateOf(r) = "open" /\ StateOf(r)' = "decided"
    BY <1>1, <1>2, <1>7 DEF StateOf, Vacant
  <2> QED
    BY <1>3, <1>5, <1>7, <2>1 DEF Effect, Decides, SameState
<1> QED
  BY <1>6, <1>7

\* A room with a report or an armed timer is known and not vacant.
LEMMA ArbitratedRoom ==
  ASSUME HubInv, NEW r \in Rooms, arbitrations[r] # NoArbitration
  PROVE  ~Vacant(r) /\ r \in KnownRooms
BY DEF HubInv, RoomsOK, RoomOK

LEMMA HubFirstReport ==
  ASSUME HubInv, NEW c \in Conns, NEW r \in Rooms, FirstReport(c, r)
  PROVE  RoomsOK' /\ Effect
<1> DEFINE arb == Arb(UserOf[c], FALSE, BufferTimer(r))
<1>1. UserOf[c] \in Users /\ UserOf[c] \in Members(r) /\ r \in KnownRooms
  BY ConnAssumption DEF FirstReport, ReportAccepted
<1>2. arb \in Arbitration /\ arb.firstReport = UserOf[c] /\ arb.decided = FALSE
  BY <1>1 DEF Arb, Arbitration, BufferTimer
<1>3. arbitrations[r].decided = FALSE
  BY DEF FirstReport, ReportAccepted, HubInv, HandlerInv, TypeOK, Arbitration
<1> QED
  BY <1>1, <1>2, <1>3, HubArbitrate DEF FirstReport, ReportAccepted, Vacant

LEMMA HubSecondReport ==
  ASSUME HubInv, NEW c \in Conns, NEW r \in Rooms, SecondReport(c, r)
  PROVE  RoomsOK' /\ Effect
<1> DEFINE first == arbitrations[r].firstReport
           arb == Arb(first, TRUE, Stopped(arbitrations[r].timer))
<1>1. UserOf[c] \in Members(r) /\ r \in KnownRooms /\ ~arbitrations[r].decided
  BY DEF SecondReport, ReportAccepted
<1>2. TypeOK /\ UserOf[c] \in Users /\ first \in Users /\ first \in Members(r) /\ UserOf[c] # first
  BY ConnAssumption DEF SecondReport, HubInv, HandlerInv, TypeOK, Arbitration, RoomsOK, RoomOK
<1>3. arb \in Arbitration /\ arb.firstReport = first /\ arb.decided
  BY <1>2 DEF Arb, Arbitration, Stopped, TypeOK
<1>4. PICK v : /\ v \in {VerdictOn(r, UserOf[c], first, "reports"),
                         VerdictOn(r, first, UserOf[c], "reports")}
               /\ verdicts' = verdicts \cup {v}
  BY DEF SecondReport
<1>5. v \in Verdict /\ v.room = r /\ v.battle = battle[r]
  <2>1. /\ VerdictOn(r, UserOf[c], first, "reports") \in Verdict
        /\ VerdictOn(r, first, UserOf[c], "reports") \in Verdict
    BY <1>2, VerdictType
  <2> QED
    BY <1>4, <2>1 DEF VerdictOn
<1>6. arbitrations' = [arbitrations EXCEPT ![r] = arb]
  BY DEF SecondReport
<1> QED
  BY <1>1, <1>2, <1>3, <1>4, <1>5, <1>6, HubArbitrate DEF SecondReport, ReportAccepted, Vacant

LEMMA HubTimerFires ==
  ASSUME HubInv, NEW r \in Rooms, TimerFires(r)
  PROVE  RoomsOK' /\ Effect
<1> DEFINE old == arbitrations[r]
           arb == Arb(old.firstReport, old.decided, "fired")
<1>1. TypeOK /\ old # NoArbitration /\ old.firstReport \in Members(r) \cup {None}
  BY DEF TimerFires, NoArbitration, Arb, HubInv, HandlerInv, RoomsOK, RoomOK
<1>2. arb \in Arbitration /\ arb.firstReport = old.firstReport /\ arb.decided = old.decided
  BY <1>1 DEF Arb, Arbitration, TypeOK
<1> QED
  BY <1>1, <1>2, ArbitratedRoom, HubArbitrate DEF TimerFires, history

\* A timer callback, of this battle or of an earlier one under the same room id.
LEMMA HubTimeout ==
  ASSUME HubInv, NEW r \in Rooms, NEW t \in {"idle", "armed", "fired"},
         ResolveTimeout(r, t), UNCHANGED <<rooms, roomModes, battleStart, roomCodes, issued, battle>>,
         t = arbitrations[r].timer \/ arbitrations[r].timer = "fired"
  PROVE  RoomsOK' /\ Effect
<1> DEFINE old == arbitrations[r]
           loser == old.firstReport
<1>1. /\ TypeOK /\ loser \in Users \cup {None} /\ old.decided \in BOOLEAN
      /\ loser \in Members(r) \cup {None}
      /\ old = Arb(loser, old.decided, old.timer)
  BY DEF HubInv, HandlerInv, TypeOK, Arbitration, RoomsOK, RoomOK, Arb
<1>2. \A d \in BOOLEAN : /\ Arb(loser, d, t) \in Arbitration
                         /\ Arb(loser, d, t).firstReport = loser
                         /\ Arb(loser, d, t).decided = d
  BY <1>1 DEF Arb, Arbitration
<1>3. CASE ~TimeoutApplies(old)
  <2> DEFINE arb == Arb(loser, old.decided, t)
  <2>1. arbitrations' = [arbitrations EXCEPT ![r] = arb] /\ UNCHANGED verdicts
    BY <1>3 DEF ResolveTimeout
  <2>2. arb = old \/ old # NoArbitration
    BY <1>1 DEF NoArbitration, Arb
  <2> QED
    BY <1>1, <1>2, <2>1, <2>2, ArbitratedRoom, HubArbitrate
<1>4. CASE TimeoutApplies(old)
  <2> DEFINE arb == Arb(loser, TRUE, t)
  <2>1. loser \in Users /\ ~old.decided /\ old # NoArbitration
    BY <1>1, <1>4, NoneApart DEF TimeoutApplies, NoArbitration, Arb
  <2>2. PICK w \in TimeoutWinners(r, loser) :
          verdicts' = verdicts \cup {VerdictOn(r, w, loser, "timeout")}
    BY <1>4 DEF ResolveTimeout
  <2>3. w \in Users \cup {None} /\ w # loser
    BY <2>1, <2>2, NoneApart DEF TimeoutWinners, Others, Members
  <2>4. \E v \in Verdict : v.room = r /\ v.battle = battle[r] /\ verdicts' = verdicts \cup {v}
    BY <1>1, <2>1, <2>2, <2>3, VerdictType DEF VerdictOn
  <2>5. arbitrations' = [arbitrations EXCEPT ![r] = arb]
    BY <1>4 DEF ResolveTimeout
  <2> QED
    BY <1>1, <1>2, <2>1, <2>4, <2>5, ArbitratedRoom, HubArbitrate
<1> QED
  BY <1>3, <1>4

\* The steps that empty a room: only its entries change, and nothing is left of them.
LEMMA HubEmpties ==
  ASSUME HubInv, NEW r \in Rooms, rooms' = [rooms EXCEPT ![r] = EmptyRoom],
         arbitrations' = [arbitrations EXCEPT ![r] = NoArbitration],
         roomModes' = [roomModes EXCEPT ![r] = None],
         battleStart' = [battleStart EXCEPT ![r] = FALSE],
         roomCodes' = [roomCodes EXCEPT ![r] = None],
         UNCHANGED <<issued, battle>>,
         \/ UNCHANGED verdicts
         \/ /\ StateOf(r) = "open"
            /\ \E v \in Verdict : /\ v.room = r /\ v.battle = battle[r] /\ v.by = "forfeit"
                                 /\ verdicts' = verdicts \cup {v}
  PROVE  RoomsOK' /\ Effect
<1>1. TypeOK /\ KnownRooms' = KnownRooms
  BY DEF HubInv, HandlerInv, KnownRooms
<1>2. Members(r)' = {}
  BY <1>1 DEF Members, EmptyRoom, TypeOK
<1>3. ASSUME NEW s \in Rooms \ {r}  PROVE RoomOK(s)' /\ StateOf(s)' = StateOf(s)
  BY <1>1, RoomFrame DEF HubInv, RoomsOK, TypeOK
<1>4. RoomOK(r)'
  BY <1>1, <1>2 DEF RoomOK, Vacant, TypeOK, NoArbitration, Arb
<1>5. RoomsOK'
  BY <1>3, <1>4 DEF RoomsOK
<1>6. StateOf(r)' = "vacant"
  BY <1>2 DEF StateOf, Vacant
<1>7. CASE UNCHANGED verdicts
  BY <1>3, <1>5, <1>6, <1>7 DEF Effect, Idles, Closes, SameState
<1>8. CASE /\ StateOf(r) = "open"
           /\ \E v \in Verdict : /\ v.room = r /\ v.battle = battle[r] /\ v.by = "forfeit"
                                /\ verdicts' = verdicts \cup {v}
  BY <1>3, <1>5, <1>6, <1>8 DEF Effect, Decides, SameState
<1> QED
  BY <1>7, <1>8

LEMMA HubRollback ==
  ASSUME HubInv, NEW c \in Conns, RollbackHub(c)
  PROVE  RoomsOK' /\ Effect
<1> DEFINE r == arg[c].room
<1>1. r \in PrivateRooms /\ r \notin KnownRooms /\ r \in Rooms
  BY ConnAssumption DEF RollbackHub, HubInv, HandlerInv, HandlerOK, LocalsOK, Creating, KnownRooms, Rooms
<1>2. arbitrations[r] = NoArbitration /\ roomCodes[r] = None /\ TypeOK
  BY <1>1 DEF HubInv, HandlerInv, RoomsOK, RoomOK
<1>3. /\ arbitrations' = [arbitrations EXCEPT ![r] = NoArbitration]
      /\ roomCodes' = [roomCodes EXCEPT ![r] = None]
  BY <1>2 DEF RollbackHub, TypeOK
<1> QED
  BY <1>1, <1>3, HubEmpties DEF RollbackHub, RollbackRooms, history

LEMMA HubLeave ==
  ASSUME HubInv, NEW c \in Conns, LeaveHub(c)
  PROVE  RoomsOK' /\ Effect
<1> DEFINE r == joinedRoomID[c]
           u == UserOf[c]
<1>1. TypeOK /\ r \in Rooms /\ u \in Users
  BY ConnAssumption DEF LeaveHub, HubInv, HandlerInv, TypeOK
<1>2. PICK v \in IF Forfeits(r, u)
                   THEN {VerdictOn(r, w, u, "forfeit") : w \in Others(r, u)}
                   ELSE {None} :
        verdicts' = IF v = None THEN verdicts ELSE verdicts \cup {v}
  BY DEF LeaveHub
<1>3. CASE ~Forfeits(r, u)
  <2>1. UNCHANGED verdicts
    BY <1>2, <1>3
  <2> QED
    BY <1>1, <2>1, HubEmpties DEF LeaveHub, RoomsAfterLeave, AfterLeave
<1>4. CASE Forfeits(r, u)
  <2>1. StateOf(r) = "open"
    BY <1>4 DEF Forfeits, Others, StateOf, Vacant
  <2>2. PICK w \in Others(r, u) : v = VerdictOn(r, w, u, "forfeit")
    BY <1>2, <1>4
  <2>3. v \in Verdict
    BY <1>1, <2>2, VerdictType DEF Others, Members
  <2>4. v.room = r /\ v.battle = battle[r] /\ v.by = "forfeit"
    BY <2>2 DEF VerdictOn
  <2>5. verdicts' = verdicts \cup {v} \/ UNCHANGED verdicts
    BY <1>2
  <2> QED
    BY <1>1, <2>1, <2>3, <2>4, <2>5, HubEmpties DEF LeaveHub, RoomsAfterLeave, AfterLeave
<1> QED
  BY <1>3, <1>4

\* The code is stored for a room its creator is in.
LEMMA HubStoreCode ==
  ASSUME HubInv, NEW c \in Conns, StoreCode(c), NEW r, r = arg[c].room
  PROVE  RoomsOK' /\ Effect
<1>1. TypeOK /\ r \in PrivateRooms /\ r \in Rooms /\ ~Vacant(r)
  BY DEF StoreCode, HubInv, HandlerInv, HandlerOK, LocalsOK, Creating, CreatorIsMember, Vacant,
         Rooms
<1>2. r \in KnownRooms' /\ KnownRooms \subseteq KnownRooms'
  BY <1>1 DEF StoreCode, KnownRooms, TypeOK
<1>3. \A s \in Rooms : Members(s)' = Members(s) /\ StateOf(s)' = StateOf(s)
  BY SameRoomSameState DEF StoreCode
<1>4. ASSUME NEW s \in Rooms \ {r}  PROVE RoomOK(s)'
  BY <1>1, <1>2, RoomFrame DEF HubInv, RoomsOK, TypeOK, StoreCode
<1>5. RoomOK(r)'
  BY <1>1, <1>2, <1>3 DEF HubInv, RoomsOK, RoomOK, Vacant, StoreCode
<1>6. Effect
  BY <1>3 DEF Effect, Idles, SameState, StoreCode, history
<1> QED
  BY <1>4, <1>5, <1>6 DEF RoomsOK

----------------------------------------------------------------------------
(* Every step *)

LEMMA HubHandlerStep ==
  ASSUME HubInv, NEW c \in Conns, HandlerStep(c)
  PROVE  RoomsOK' /\ Effect
<1>1. CASE Register(c) \/ RegisterCreator(c)
  <2>1. arg[c].room \in Rooms
    BY <1>1, ConnAssumption
       DEF Register, RegisterCreator, HubInv, HandlerInv, HandlerOK, LocalsOK, Creating,
           KnownRooms, Rooms
  <2> QED
    BY <1>1, <2>1, HubRegisterConn DEF Register, RegisterCreator
<1>2. CASE RollbackHub(c)
  BY <1>2, HubRollback
<1>3. CASE StoreCode(c)
  BY <1>3, HubStoreCode
<1>4. CASE \/ JoinByCode(c) \/ RollbackRedis(c) \/ LeaveCode(c) \/ LeavePeers(c)
           \/ LeaveRedis(c) \/ (\E k \in Codes : CreateCode(c, k))
           \/ \E a \in announcing : a.thread = c /\ FireRatingsCall(a)
  <2>1. UNCHANGED <<hub, battle, verdicts, issued>>
    BY <1>4 DEF JoinByCode, RollbackRedis, LeaveCode, LeavePeers, LeaveRedis, CreateCode,
                FireRatingsCall, history
  <2> QED
    BY <2>1, HubIdle DEF KnownRooms
<1> QED
  BY <1>1, <1>2, <1>3, <1>4 DEF HandlerStep

LEMMA HubClientStep ==
  ASSUME HubInv, NEW c \in Conns, ClientStep(c) \/ ReadFails(c)
  PROVE  RoomsOK' /\ Effect
<1>1. CASE \/ \E r \in Rooms, m \in JoinModes : Join(c, r, m)
           \/ \E k \in Codes : ResolveCode(c, k)
           \/ \E r \in PrivateRooms : CreateRoom(c, r)
           \/ Exit(c)
  <2>1. UNCHANGED <<hub, battle, verdicts>>
    BY <1>1 DEF Join, ResolveCode, CreateRoom, Exit, history
  <2>2. KnownRooms \subseteq KnownRooms'
    BY <1>1 DEF Join, ResolveCode, CreateRoom, Exit, KnownRooms, HubInv, HandlerInv, TypeOK
  <2> QED
    BY <2>1, <2>2, HubIdle
<1>2. CASE \E r \in Rooms : FirstReport(c, r) \/ SecondReport(c, r)
  BY <1>2, HubFirstReport, HubSecondReport
<1>3. CASE LeaveHub(c)
  BY <1>3, HubLeave
<1> QED
  BY <1>1, <1>2, <1>3 DEF ClientStep, ReadFails

LEMMA HubNext ==
  ASSUME HubInv, [Next]_vars
  PROVE  RoomsOK' /\ Effect
<1>1. CASE \E r \in Rooms : TimerFires(r)
  BY <1>1, HubTimerFires
<1>2. ASSUME NEW r \in Rooms, OwnTimeout(r) \/ OrphanTimeout(r)
      PROVE  RoomsOK' /\ Effect
  <2>1. arbitrations[r].timer \in {"idle", "armed", "fired"}
    BY DEF HubInv, HandlerInv, TypeOK, Arbitration
  <2> QED
    BY <1>2, <2>1, HubTimeout DEF OwnTimeout, OrphanTimeout
<1>3. CASE \/ \E a \in announcing : FireRatingsCall(a)
           \/ (\E r \in Rooms : ExpireRoom(r)) \/ (\E k \in Codes : ExpireCode(k))
           \/ UNCHANGED vars
  <2>1. UNCHANGED <<hub, battle, verdicts, issued>>
    BY <1>3 DEF FireRatingsCall, ExpireRoom, ExpireCode, vars, history
  <2> QED
    BY <2>1, HubIdle DEF KnownRooms
<1> QED
  BY <1>1, <1>2, <1>3, HubHandlerStep, HubClientStep DEF Next, TimerStep

\* Who is creating a room after a step was creating it before, or begins to.
LEMMA CreatingPhases ==
  ASSUME TypeOK, [Next]_vars, NEW d \in Conns, phase'[d] \in {"minting", "minted"}
  PROVE  \/ RegisterCreator(d)
         \/ phase[d] \in {"minting", "minted"} /\ arg'[d].room = arg[d].room
<1> DEFINE Good == \/ RegisterCreator(d)
                   \/ phase[d] \in {"minting", "minted"} /\ arg'[d].room = arg[d].room
<1>1. ASSUME NEW c \in Conns, NEW p, NEW a, Goto(c, p, a),
             c # d \/ p \notin {"minting", "minted"}
      PROVE  Good
  BY <1>1, GotoMoves
<1>2. ASSUME NEW c \in Conns, RegisterCreator(c)  PROVE Good
  BY <1>1, <1>2 DEF RegisterCreator
<1>3. ASSUME NEW c \in Conns, NEW k \in Codes, CreateCode(c, k)  PROVE Good
  <2>1. Goto(c, "minted", Local(arg[c].room, None, k)) /\ phase[c] = "minting"
    BY <1>3 DEF CreateCode
  <2> QED
    BY <1>1, <2>1, GotoMoves DEF Local
<1>4. ASSUME NEW c \in Conns,
             \/ Register(c) \/ JoinByCode(c) \/ RollbackHub(c) \/ RollbackRedis(c)
             \/ StoreCode(c) \/ LeaveCode(c) \/ LeavePeers(c) \/ LeaveRedis(c)
             \/ Exit(c) \/ LeaveHub(c)
             \/ (\E r \in Rooms, m \in JoinModes : Join(c, r, m))
             \/ (\E k \in Codes : ResolveCode(c, k))
             \/ \E r \in PrivateRooms : CreateRoom(c, r)
      PROVE  Good
  <2>1. \E p, a : Goto(c, p, a) /\ p \notin {"minting", "minted"}
    BY <1>4 DEF Register, JoinByCode, RollbackHub, RollbackRedis, StoreCode, LeaveCode,
       LeavePeers, LeaveRedis, Exit, LeaveHub, Join, ResolveCode, CreateRoom, RedisJoin, AfterHub
  <2> QED
    BY <1>1, <2>1
<1>5. ASSUME NEW c \in Conns, NEW r \in Rooms, FirstReport(c, r) \/ SecondReport(c, r)
      PROVE  Good
  <2>1. arg' = arg /\ (phase'[d] = phase[d] \/ phase'[d] = "announcing")
    BY <1>5 DEF FirstReport, SecondReport, ReportAccepted, TypeOK
  <2> QED
    BY <2>1
<1>6. ASSUME NEW a \in announcing, FireRatingsCall(a)  PROVE Good
  <2>1. arg' = arg /\ (phase'[d] = phase[d] \/ phase'[d] = "read")
    BY <1>6 DEF FireRatingsCall, TypeOK
  <2> QED
    BY <2>1
<1>7. CASE \/ \E r \in Rooms : TimerFires(r) \/ OwnTimeout(r) \/ OrphanTimeout(r)
           \/ (\E r \in Rooms : ExpireRoom(r)) \/ (\E k \in Codes : ExpireCode(k))
           \/ UNCHANGED vars
  BY <1>7 DEF TimerFires, OwnTimeout, OrphanTimeout, ExpireRoom, ExpireCode, vars, handlers
<1> QED
  BY <1>2, <1>3, <1>4, <1>5, <1>6, <1>7
     DEF Next, HandlerStep, ClientStep, ReadFails, TimerStep

\* Who is registered in a room stays, unless its creation is rolled back or somebody in
\* it leaves.
LEMMA MembersStay ==
  ASSUME TypeOK, HandlerOK, [Next]_vars, NEW r \in Rooms, NEW u \in Users, rooms[r][u] # None,
         \A c \in Conns : RollbackHub(c) => arg[c].room # r,
         \A c \in Conns : LeaveHub(c) => joinedRoomID[c] # r
  PROVE  rooms'[r][u] # None
<1> USE NoneApart DEF TypeOK
<1>1. ASSUME NEW c \in Conns, NEW s \in Rooms, NEW m, RegisterConn(c, s, m)
      PROVE  rooms'[r][u] # None
  BY <1>1, ConnAssumption DEF RegisterConn
<1>2. ASSUME NEW c \in Conns, Register(c) \/ RegisterCreator(c)
      PROVE  rooms'[r][u] # None
  <2>1. arg[c].room \in Rooms
    BY <1>2 DEF Register, RegisterCreator, HandlerOK, LocalsOK, Creating, KnownRooms, Rooms
  <2> QED
    BY <1>1, <1>2, <2>1 DEF Register, RegisterCreator
<1>3. ASSUME NEW c \in Conns, RollbackHub(c)  PROVE rooms'[r][u] # None
  BY <1>3 DEF RollbackHub, RollbackRooms
<1>4. ASSUME NEW c \in Conns, LeaveHub(c)  PROVE rooms'[r][u] # None
  BY <1>4 DEF LeaveHub, RoomsAfterLeave
<1>5. ASSUME NEW c \in Conns, ClientStep(c) \/ Exit(c)  PROVE rooms' = rooms
  BY <1>5 DEF ClientStep, Exit, Join, ResolveCode, CreateRoom, FirstReport, SecondReport,
              ReportAccepted, hub
<1>6. ASSUME NEW c \in Conns,
             \/ JoinByCode(c) \/ RollbackRedis(c) \/ StoreCode(c) \/ LeaveCode(c)
             \/ LeavePeers(c) \/ LeaveRedis(c) \/ \E k \in Codes : CreateCode(c, k)
      PROVE  rooms' = rooms
  BY <1>6 DEF JoinByCode, RollbackRedis, StoreCode, LeaveCode, LeavePeers, LeaveRedis,
              CreateCode, hub
<1>7. CASE \/ TimerStep \/ (\E a \in announcing : FireRatingsCall(a))
           \/ (\E s \in Rooms : ExpireRoom(s)) \/ (\E k \in Codes : ExpireCode(k))
           \/ UNCHANGED vars
  <2>1. rooms' = rooms
    BY <1>7 DEF TimerStep, TimerFires, OwnTimeout, OrphanTimeout, FireRatingsCall,
                ExpireRoom, ExpireCode, vars, hub
  <2> QED
    BY <2>1
<1> QED
  BY <1>2, <1>3, <1>4, <1>5, <1>6, <1>7 DEF Next, HandlerStep, ReadFails

\* A creator loses his membership only by his own rollback: the room is secret.
LEMMA CreatorStays ==
  ASSUME HubInv, [Next]_vars
  PROVE  CreatorIsMember'
<1> DEFINE P == {"minting", "minted"}
<1>1. TypeOK /\ HandlerOK /\ OneCreator /\ CreatorIsMember
  BY DEF HubInv, HandlerInv
<1> SUFFICES ASSUME NEW d \in Conns, phase'[d] \in P
             PROVE  UserOf[d] \in Members(arg[d].room)'
  BY DEF CreatorIsMember
<1>2. UserOf[d] \in Users /\ d # None
  BY ConnAssumption
<1>3. CASE RegisterCreator(d)
  <2>1. arg[d].room \in Rooms /\ arg'[d] = arg[d]
    BY <1>1, <1>3, GotoMoves
       DEF RegisterCreator, HandlerOK, LocalsOK, Creating, Rooms
  <2>2. rooms'[arg[d].room][UserOf[d]] # None
    BY <1>1, <1>2, <1>3, <2>1 DEF RegisterCreator, RegisterConn, TypeOK
  <2> QED
    BY <1>2, <2>1, <2>2 DEF Members
<1>4. CASE ~RegisterCreator(d)
  <2>1. phase[d] \in P /\ arg'[d].room = arg[d].room
    BY <1>1, <1>4, CreatingPhases
  <2>2. /\ arg[d].room \in Rooms /\ arg[d].room \notin KnownRooms
        /\ rooms[arg[d].room][UserOf[d]] # None
    BY <1>1, <2>1, ConnAssumption
       DEF HandlerOK, LocalsOK, Creating, KnownRooms, Rooms, CreatorIsMember, Members
  <2>3. ASSUME NEW c \in Conns, RollbackHub(c)  PROVE arg[c].room # arg[d].room
    <3>1. phase[c] = "minting" /\ phase'[c] = "rollback"
      BY <1>1, <2>3, GotoMoves DEF RollbackHub
    <3> QED
      BY <1>1, <2>1, <3>1 DEF OneCreator, Creating
  <2>4. ASSUME NEW c \in Conns, LeaveHub(c)  PROVE joinedRoomID[c] # arg[d].room
    BY <1>1, <2>2, <2>4, NoneApart DEF LeaveHub, HandlerOK, LocalsOK
  <2>5. rooms'[arg[d].room][UserOf[d]] # None
    BY <1>1, <1>2, <2>2, <2>3, <2>4, MembersStay
  <2> QED
    BY <1>2, <2>1, <2>5 DEF Members
<1> QED
  BY <1>3, <1>4

LEMMA HubInvInit == Init => HubInv
<1> SUFFICES ASSUME Init  PROVE HubInv
  OBVIOUS
<1>1. RoomsOK
  BY DEF Init, RoomsOK, RoomOK, NoArbitration, Arb
<1>2. CreatorIsMember /\ VerdictsOK
  BY DEF Init, CreatorIsMember, VerdictsOK, OneVerdictPerBattle
<1> QED
  BY <1>1, <1>2, HandlerInvInit DEF HubInv

LEMMA HubInvNext == HubInv /\ [Next]_vars => HubInv' /\ [Promise!Next]_(Promise!avars)
<1> SUFFICES ASSUME HubInv, [Next]_vars  PROVE HubInv' /\ [Promise!Next]_(Promise!avars)
  OBVIOUS
<1>1. RoomsOK' /\ Effect
  BY HubNext
<1>2. HandlerInv' /\ CreatorIsMember'
  BY HandlerInvNext, CreatorStays DEF HubInv
<1> QED
  BY <1>1, <1>2, EffectKeepsVerdicts, EffectIsPromised DEF HubInv

LEMMA HubInvAlways == Spec => []HubInv
BY HubInvInit, HubInvNext, PTL DEF Spec

----------------------------------------------------------------------------
\* The next battle of a room inherits nothing: no arbitration, mode, start time or code
\* survives the last member, whether by Leave or by the rollback of CreateRoom.
THEOREM VacantRoomIsCleanAlways == Spec => []VacantRoomIsClean
<1>1. HubInv => VacantRoomIsClean
  BY DEF HubInv, RoomsOK, RoomOK, VacantRoomIsClean
<1> QED
  BY <1>1, HubInvAlways, PTL

\* Whoever is the first reporter of an arbitration is a member of its room.
THEOREM FirstReporterIsMemberAlways == Spec => []FirstReporterIsMember
<1>1. HubInv => FirstReporterIsMember
  BY DEF HubInv, RoomsOK, RoomOK, FirstReporterIsMember
<1> QED
  BY <1>1, HubInvAlways, PTL

\* ReportEvent, resolveTimeout and Leave never decide one battle twice.
THEOREM OneVerdictAlways == Spec => []OneVerdictPerBattle
<1>1. HubInv => OneVerdictPerBattle
  BY DEF HubInv, VerdictsOK
<1> QED
  BY <1>1, HubInvAlways, PTL

\* The hub, its timers and its handlers implement the arbiter they promise to be.
THEOREM HubImplementsArbiter == Spec => ImplementsArbiter
<1>1. Init => Promise!Init
  BY NoneApart DEF Init, Promise!Init, StateOf, Vacant, Members, EmptyRoom
<1> QED
  BY <1>1, HubInvInit, HubInvNext, PTL DEF Spec, ImplementsArbiter, Promise!Spec

----------------------------------------------------------------------------
(* Who answers for a member *)

\* The handler c will take its user off room r.
AnswersFor(c, r) ==
  \/ joinedRoomID[c] = r /\ phase[c] \in {"read", "joining", "announcing"}
  \/ arg[c].room = r /\ phase[c] \in {"minting", "minted"}

\* A handler that has an outcome to announce does nothing else, and has one only.
AnnouncersWait ==
  /\ \A a \in announcing : a.thread \in Conns => phase[a.thread] = "announcing"
  /\ \A a, b \in announcing : a.thread = b.thread /\ a.thread \in Conns => a = b

LEMMA AnnouncersFrame ==
  ASSUME TypeOK, AnnouncersWait, NEW c \in Conns, phase[c] # "announcing",
         \A d \in Conns \ {c} : phase'[d] = phase[d], UNCHANGED announcing
  PROVE  AnnouncersWait'
BY DEF AnnouncersWait

LEMMA AnnouncersNext ==
  ASSUME TypeOK, AnnouncersWait, [Next]_vars
  PROVE  AnnouncersWait'
<1>1. ASSUME NEW c \in Conns, NEW p, NEW a, Goto(c, p, a), phase[c] # "announcing",
             UNCHANGED announcing
      PROVE  AnnouncersWait'
  BY <1>1, GotoMoves, AnnouncersFrame
<1>2. ASSUME NEW c \in Conns,
             \/ Register(c) \/ JoinByCode(c) \/ RegisterCreator(c) \/ RollbackHub(c)
             \/ RollbackRedis(c) \/ StoreCode(c) \/ LeaveCode(c) \/ LeavePeers(c)
             \/ LeaveRedis(c) \/ Exit(c) \/ LeaveHub(c)
             \/ (\E k \in Codes : CreateCode(c, k) \/ ResolveCode(c, k))
             \/ (\E r \in Rooms, m \in JoinModes : Join(c, r, m))
             \/ \E r \in PrivateRooms : CreateRoom(c, r)
      PROVE  AnnouncersWait'
  <2>1. phase[c] # "announcing" /\ UNCHANGED announcing /\ \E p, a : Goto(c, p, a)
    BY <1>2 DEF Register, JoinByCode, RegisterCreator, RollbackHub, RollbackRedis, StoreCode,
       LeaveCode, LeavePeers, LeaveRedis, Exit, LeaveHub, CreateCode, ResolveCode, Join,
       CreateRoom, RedisJoin, Reading
  <2> QED
    BY <1>1, <2>1
<1>3. ASSUME NEW c \in Conns, NEW r \in Rooms, SecondReport(c, r)  PROVE AnnouncersWait'
  <2>1. phase[c] = "read" /\ phase' = [phase EXCEPT ![c] = "announcing"]
    BY <1>3 DEF SecondReport, ReportAccepted, Reading
  <2>2. \A a \in announcing : a.thread # c
    BY <2>1 DEF AnnouncersWait
  <2>3. PICK v : announcing' = announcing \cup {[verdict |-> v, thread |-> c]}
    BY <1>3 DEF SecondReport
  <2> QED
    BY <2>1, <2>2, <2>3 DEF AnnouncersWait, TypeOK
<1>4. ASSUME NEW a \in announcing, FireRatingsCall(a)  PROVE AnnouncersWait'
  <2>1. announcing' = announcing \ {a}
        /\ \A d \in Conns \ {a.thread} : phase'[d] = phase[d]
    BY <1>4 DEF FireRatingsCall, TypeOK
  <2> QED
    BY <2>1 DEF AnnouncersWait
<1>5. ASSUME NEW r \in Rooms, OwnTimeout(r) \/ OrphanTimeout(r)  PROVE AnnouncersWait'
  <2>1. UNCHANGED phase
    BY <1>5 DEF OwnTimeout, OrphanTimeout, handlers
  <2>2. \/ UNCHANGED announcing
        \/ \E v : announcing' = announcing \cup {[verdict |-> v, thread |-> None]}
    BY <1>5 DEF OwnTimeout, OrphanTimeout, ResolveTimeout
  <2> QED
    BY <2>1, <2>2, NoneApart DEF AnnouncersWait
<1>6. CASE \/ \E c \in Conns, r \in Rooms : FirstReport(c, r)
           \/ (\E r \in Rooms : TimerFires(r) \/ ExpireRoom(r))
           \/ (\E k \in Codes : ExpireCode(k)) \/ UNCHANGED vars
  <2>1. UNCHANGED <<phase, announcing>>
    BY <1>6 DEF FirstReport, TimerFires, ExpireRoom, ExpireCode, vars, handlers
  <2> QED
    BY <2>1 DEF AnnouncersWait
<1> QED
  BY <1>2, <1>3, <1>4, <1>5, <1>6 DEF Next, HandlerStep, ClientStep, ReadFails, TimerStep

\* A step of handler c that registers nobody else, and that c comes out of still answering
\* for the rooms it is registered in.
LEMMA AnswersFrame ==
  ASSUME TypeOK, NoGhostMember, NEW c \in Conns,
         \A d \in Conns \ {c} : /\ phase'[d] = phase[d] /\ arg'[d] = arg[d]
                                 /\ joinedRoomID'[d] = joinedRoomID[d],
         \A r \in Rooms, u \in Users :
            \/ rooms'[r][u] \in {rooms[r][u], None}
            \/ rooms'[r][u] = c /\ UserOf[c] = u /\ AnswersFor(c, r)',
         \A r \in Rooms : AnswersFor(c, r) =>
            AnswersFor(c, r)' \/ \A u \in Users : rooms'[r][u] = None
  PROVE  NoGhostMember'
<1> SUFFICES ASSUME NEW r \in Rooms, NEW u \in Users, NEW d, d = rooms'[r][u], d # None
             PROVE  UserOf[d] = u /\ AnswersFor(d, r)'
  BY DEF NoGhostMember, AnswersFor
<1>1. CASE d = rooms[r][u]
  <2>1. d \in Conns /\ UserOf[d] = u /\ AnswersFor(d, r)
    BY <1>1 DEF TypeOK, NoGhostMember, AnswersFor
  <2>2. CASE d = c
    BY <2>1, <2>2
  <2>3. CASE d # c
    BY <2>1, <2>3 DEF AnswersFor
  <2> QED
    BY <2>2, <2>3
<1>2. CASE d # rooms[r][u]
  BY <1>2
<1> QED
  BY <1>1, <1>2

\* What RegisterConn writes.
LEMMA RegistersOne ==
  ASSUME TypeOK, NEW c \in Conns, NEW s \in Rooms, NEW m, RegisterConn(c, s, m)
  PROVE  \A r \in Rooms, u \in Users :
           rooms'[r][u] = rooms[r][u] \/ (r = s /\ u = UserOf[c] /\ rooms'[r][u] = c)
BY ConnAssumption DEF TypeOK, RegisterConn

LEMMA AnswersHandler ==
  ASSUME HandlerInv, AnnouncersWait, NoGhostMember, NEW c \in Conns,
         HandlerStep(c) \/ ClientStep(c) \/ ReadFails(c)
  PROVE  NoGhostMember'
<1>0. TypeOK /\ LocalsOK(c)
  BY DEF HandlerInv, HandlerOK
<1>1. CASE Register(c)
  <2> PICK s : s = arg[c].room
    OBVIOUS
  <2>1. /\ phase[c] = "joining" /\ Goto(c, "read", NoArg) /\ RegisterConn(c, s, arg[c].mode)
        /\ joinedRoomID' = [joinedRoomID EXCEPT ![c] = s]
    BY <1>1 DEF Register
  <2>2. s \in Rooms /\ joinedRoomID[c] \in {None, s}
    BY <1>0, <2>1 DEF LocalsOK, KnownRooms, Rooms
  <2>3. /\ phase'[c] = "read" /\ joinedRoomID'[c] = s
        /\ \A d \in Conns \ {c} : /\ phase'[d] = phase[d] /\ arg'[d] = arg[d]
                                   /\ joinedRoomID'[d] = joinedRoomID[d]
    BY <1>0, <2>1, GotoMoves DEF TypeOK
  <2>4. AnswersFor(c, s)' /\ \A r \in Rooms : AnswersFor(c, r) => r = s
    BY <2>1, <2>2, <2>3, NoneApart DEF AnswersFor
  <2> QED
    BY <1>0, <2>1, <2>2, <2>3, <2>4, RegistersOne, AnswersFrame
<1>2. CASE RegisterCreator(c)
  <2> PICK s : s = arg[c].room
    OBVIOUS
  <2>1. /\ phase[c] = "creating" /\ Goto(c, "minting", arg[c])
        /\ RegisterConn(c, s, "unranked") /\ UNCHANGED joinedRoomID
    BY <1>2 DEF RegisterCreator
  <2>2. s \in Rooms
    BY <1>0, <2>1 DEF LocalsOK, Creating, Rooms
  <2>3. /\ phase'[c] = "minting" /\ arg'[c].room = s
        /\ \A d \in Conns \ {c} : phase'[d] = phase[d] /\ arg'[d] = arg[d]
    BY <1>0, <2>1, GotoMoves
  <2>4. AnswersFor(c, s)' /\ \A r \in Rooms : ~AnswersFor(c, r)
    BY <2>1, <2>3 DEF AnswersFor
  <2> QED
    BY <1>0, <2>1, <2>2, <2>3, <2>4, RegistersOne, AnswersFrame
<1>3. CASE RollbackHub(c) \/ LeaveHub(c)
  <2>1. PICK s \in Rooms : /\ rooms' = [rooms EXCEPT ![s] = EmptyRoom]
                          /\ \A r \in Rooms : AnswersFor(c, r) => r = s
    BY <1>0, <1>3 DEF RollbackHub, LeaveHub, RollbackRooms, RoomsAfterLeave, LocalsOK, Creating,
                      KnownRooms, Rooms, AnswersFor
  <2>2. UNCHANGED joinedRoomID /\ \E p, a : Goto(c, p, a)
    BY <1>3 DEF RollbackHub, LeaveHub
  <2>3. \A d \in Conns \ {c} : phase'[d] = phase[d] /\ arg'[d] = arg[d]
    BY <1>0, <2>2, GotoMoves
  <2>4. \A r \in Rooms, u \in Users :
          /\ rooms'[r][u] \in {rooms[r][u], None}
          /\ r = s => rooms'[r][u] = None
    BY <1>0, <2>1 DEF TypeOK, EmptyRoom
  <2> QED
    BY <1>0, <2>1, <2>2, <2>3, <2>4, AnswersFrame
<1>4. CASE StoreCode(c)
  <2>1. /\ phase[c] = "minted" /\ Goto(c, "read", NoArg) /\ UNCHANGED rooms
        /\ joinedRoomID' = [joinedRoomID EXCEPT ![c] = arg[c].room]
    BY <1>4 DEF StoreCode
  <2>2. /\ phase'[c] = "read" /\ joinedRoomID'[c] = arg[c].room
        /\ \A d \in Conns \ {c} : /\ phase'[d] = phase[d] /\ arg'[d] = arg[d]
                                   /\ joinedRoomID'[d] = joinedRoomID[d]
    BY <1>0, <2>1, GotoMoves DEF TypeOK
  <2>3. \A r \in Rooms : AnswersFor(c, r) => AnswersFor(c, r)'
    BY <2>1, <2>2 DEF AnswersFor
  <2> QED
    BY <1>0, <2>1, <2>2, <2>3, AnswersFrame
<1>5. ASSUME NEW p, NEW a, Goto(c, p, a), UNCHANGED rooms,
             \A d \in Conns \ {c} : joinedRoomID'[d] = joinedRoomID[d],
             \/ phase[c] \in {"creating", "resolved", "rollback", "leaveCode", "leavePeers",
                              "leaveRedis"}
             \/ phase[c] = "read" /\ joinedRoomID[c] = None
             \/ /\ phase[c] = "read" /\ p \in {"read", "joining"}
                /\ joinedRoomID'[c] = joinedRoomID[c]
             \/ phase[c] = "minting" /\ p = "minted" /\ a.room = arg[c].room
      PROVE  NoGhostMember'
  <2>1. /\ phase'[c] = p /\ arg'[c] = a
        /\ \A d \in Conns \ {c} : phase'[d] = phase[d] /\ arg'[d] = arg[d]
    BY <1>0, <1>5, GotoMoves
  <2>2. \A r \in Rooms : AnswersFor(c, r) => AnswersFor(c, r)'
    BY <1>5, <2>1, NoneApart DEF AnswersFor
  <2> QED
    BY <1>0, <1>5, <2>1, <2>2, AnswersFrame
<1>6. CASE \/ JoinByCode(c) \/ RollbackRedis(c) \/ LeaveCode(c) \/ LeavePeers(c) \/ LeaveRedis(c)
           \/ (\E k \in Codes : ResolveCode(c, k)) \/ Exit(c)
           \/ (\E r \in PrivateRooms : CreateRoom(c, r))
  <2>1. /\ UNCHANGED rooms /\ \E p, a : Goto(c, p, a)
        /\ \/ phase[c] \in {"creating", "resolved", "rollback", "leaveCode", "leavePeers",
                            "leaveRedis"}
           \/ phase[c] = "read" /\ joinedRoomID[c] = None
    BY <1>6 DEF JoinByCode, RollbackRedis, LeaveCode, LeavePeers, LeaveRedis, ResolveCode, Exit,
                CreateRoom, RedisJoin, Reading, hub
  <2>2. \A d \in Conns \ {c} : joinedRoomID'[d] = joinedRoomID[d]
    BY <1>0, <1>6 DEF JoinByCode, RollbackRedis, LeaveCode, LeavePeers, LeaveRedis, ResolveCode,
                Exit, CreateRoom, TypeOK
  <2> QED
    BY <1>5, <2>1, <2>2
<1>7. CASE \E r \in Rooms, m \in JoinModes : Join(c, r, m)
  <2>1. /\ UNCHANGED <<rooms, joinedRoomID>> /\ phase[c] = "read"
        /\ \E p \in {"read", "joining"} : \E a : Goto(c, p, a)
    BY <1>7 DEF Join, RedisJoin, Reading, hub
  <2> QED
    BY <1>5, <2>1
<1>8. CASE \E k \in Codes : CreateCode(c, k)
  <2>1. PICK k \in Codes : CreateCode(c, k)
    BY <1>8
  <2>2. /\ UNCHANGED <<rooms, joinedRoomID>> /\ phase[c] = "minting"
        /\ Goto(c, "minted", Local(arg[c].room, None, k))
    BY <2>1 DEF CreateCode, hub
  <2>3. Local(arg[c].room, None, k).room = arg[c].room
    BY DEF Local
  <2> QED
    BY <1>5, <2>2, <2>3
<1>9. CASE \/ \E r \in Rooms : FirstReport(c, r) \/ SecondReport(c, r)
           \/ \E a \in announcing : a.thread = c /\ FireRatingsCall(a)
  <2>1. UNCHANGED <<rooms, joinedRoomID, arg>>
    <3>1. CASE \E r \in Rooms : FirstReport(c, r) \/ SecondReport(c, r)
      BY <3>1 DEF FirstReport, SecondReport, ReportAccepted
    <3>2. CASE \E a \in announcing : FireRatingsCall(a)
      BY <3>2 DEF FireRatingsCall, hub
    <3> QED BY <1>9, <3>1, <3>2
  <2>2. /\ phase[c] \in {"read", "announcing"} /\ phase'[c] \in {"read", "announcing"}
        /\ \A d \in Conns \ {c} : phase'[d] = phase[d]
    <3>1. CASE \E r \in Rooms : FirstReport(c, r)
      BY <1>0, <3>1 DEF FirstReport, ReportAccepted, Reading, TypeOK
    <3>2. CASE \E r \in Rooms : SecondReport(c, r)
      BY <1>0, <3>2 DEF SecondReport, ReportAccepted, Reading, TypeOK
    <3>3. CASE \E a \in announcing : a.thread = c /\ FireRatingsCall(a)
      BY <1>0, <3>3 DEF FireRatingsCall, AnnouncersWait, TypeOK
    <3> QED BY <1>9, <3>1, <3>2, <3>3
  <2>3. \A r \in Rooms : AnswersFor(c, r) => AnswersFor(c, r)'
    BY <2>1, <2>2 DEF AnswersFor
  <2> QED
    BY <1>0, <2>1, <2>2, <2>3, AnswersFrame
<1> QED
  BY <1>1, <1>2, <1>3, <1>4, <1>6, <1>7, <1>8, <1>9 DEF HandlerStep, ClientStep, ReadFails

\* Timer callbacks and expiry move no handler and register nobody.
LEMMA AnswersOthers ==
  ASSUME NoGhostMember,
         \/ TimerStep \/ (\E r \in Rooms : ExpireRoom(r)) \/ (\E k \in Codes : ExpireCode(k))
         \/ UNCHANGED vars
  PROVE  NoGhostMember'
<1>1. UNCHANGED <<rooms, joinedRoomID, arg>>
  BY DEF TimerStep, TimerFires, OwnTimeout, OrphanTimeout, FireRatingsCall, ExpireRoom,
         ExpireCode, vars, hub, handlers
<1>2. UNCHANGED phase
  BY NoneApart DEF TimerStep, TimerFires, OwnTimeout, OrphanTimeout, FireRatingsCall, ExpireRoom,
         ExpireCode, vars, handlers
<1> QED
  BY <1>1, <1>2 DEF NoGhostMember

\* Whoever is registered has a handler that will call Leave, or the rollback, for him.
THEOREM NoGhostMemberAlways == Spec => []NoGhostMember
<1> DEFINE Inv == HandlerInv /\ AnnouncersWait /\ NoGhostMember
<1>1. Init => Inv
  <2>1. Init => AnnouncersWait /\ NoGhostMember
    BY DEF Init, AnnouncersWait, NoGhostMember, EmptyRoom
  <2> QED
    BY <2>1, HandlerInvInit
<1>2. Inv /\ [Next]_vars => Inv'
  <2> SUFFICES ASSUME Inv, [Next]_vars  PROVE Inv'
    OBVIOUS
  <2>1. NoGhostMember'
    BY AnswersHandler, AnswersOthers DEF Next
  <2> QED
    BY <2>1, HandlerInvNext, AnnouncersNext DEF HandlerInv
<1> QED
  BY <1>1, <1>2, PTL DEF Spec

----------------------------------------------------------------------------
(* The calls to the ratings service *)

\* The handler c is leaving and has a forfeit to announce.
OwesForfeit(c) == phase[c] \in {"leaveCode", "leavePeers"} /\ leaving[c].verdict # None

\* The verdicts the ratings service has been called with.
Called == {rated[i].verdict : i \in DOMAIN rated}

\* Every verdict is waiting for its call in one place at most, and in none once it was made.
CallsOK ==
  /\ Called \subseteq verdicts
  /\ \A i, j \in DOMAIN rated : rated[i].verdict = rated[j].verdict => i = j
AnnouncedOK ==
  /\ \A a \in announcing : a.verdict \in verdicts \ Called /\ a.verdict.by # "forfeit"
  /\ \A a, b \in announcing : a.verdict = b.verdict => a = b
ForfeitsOK ==
  /\ \A c \in Conns : OwesForfeit(c) =>
       leaving[c].verdict \in verdicts \ Called /\ leaving[c].verdict.by = "forfeit"
  /\ \A c, d \in Conns :
       OwesForfeit(c) /\ OwesForfeit(d) /\ leaving[c].verdict = leaving[d].verdict => c = d

PendingOK == CallsOK /\ AnnouncedOK /\ ForfeitsOK

\* The forfeits owed after a step were owed before it.
NoNewForfeit ==
  \A c \in Conns : OwesForfeit(c)' => OwesForfeit(c) /\ leaving'[c].verdict = leaving[c].verdict

LEMMA CallAppended ==
  ASSUME TypeOK, NEW x \in RatingsCall, rated' = Append(rated, x)
  PROVE  /\ Called' = Called \cup {x.verdict}
         /\ CallsOK /\ x.verdict \in verdicts \ Called /\ UNCHANGED verdicts => CallsOK'
<1>1. /\ DOMAIN rated' = DOMAIN rated \cup {Len(rated) + 1} /\ Len(rated) + 1 \notin DOMAIN rated
      /\ rated'[Len(rated) + 1] = x /\ \A i \in DOMAIN rated : rated'[i] = rated[i]
  BY DEF TypeOK
<1>2. Called' = Called \cup {x.verdict}
  BY <1>1 DEF Called
<1>3. CASE CallsOK /\ x.verdict \in verdicts \ Called /\ UNCHANGED verdicts
  BY <1>1, <1>2, <1>3 DEF CallsOK, Called
<1> QED
  BY <1>2, <1>3

\* Steps without a verdict or a call.
LEMMA PendingFrame ==
  ASSUME PendingOK, NoNewForfeit, UNCHANGED <<announcing, verdicts, rated>>
  PROVE  PendingOK'
BY DEF PendingOK, CallsOK, AnnouncedOK, ForfeitsOK, NoNewForfeit, Called

\* Reports or the timer decide a battle.
LEMMA PendingAnnounced ==
  ASSUME PendingOK, NoNewForfeit, NEW v, v \notin verdicts, v.by # "forfeit", NEW t,
         verdicts' = verdicts \cup {v},
         announcing' = announcing \cup {[verdict |-> v, thread |-> t]}, UNCHANGED rated
  PROVE  PendingOK'
<1>1. Called' = Called /\ v \notin Called
  BY DEF Called, PendingOK, CallsOK
<1>2. CallsOK' /\ ForfeitsOK'
  BY <1>1 DEF PendingOK, CallsOK, ForfeitsOK, NoNewForfeit
<1>3. AnnouncedOK'
  <2>1. \A a \in announcing : a.verdict # v
    BY DEF PendingOK, AnnouncedOK
  <2> QED
    BY <1>1, <2>1 DEF PendingOK, AnnouncedOK
<1> QED
  BY <1>2, <1>3 DEF PendingOK

\* A verdict given now is on the open battle of its room, which had none.
LEMMA FreshVerdict ==
  ASSUME HubInv, NEW r \in Rooms, ~Vacant(r), ~arbitrations[r].decided, NEW w, NEW l, NEW how
  PROVE  VerdictOn(r, w, l, how) \notin verdicts
<1>1. StateOf(r) = "open"
  BY DEF StateOf
<1> QED
  BY <1>1 DEF HubInv, VerdictsOK, VerdictOn

LEMMA PendingReport ==
  ASSUME HubInv, PendingOK, NEW c \in Conns, NEW r \in Rooms, SecondReport(c, r)
  PROVE  PendingOK'
<1>1. TypeOK /\ ~Vacant(r) /\ ~arbitrations[r].decided
  BY DEF SecondReport, ReportAccepted, Vacant, HubInv, HandlerInv
<1>2. PICK v : /\ \E w, l : v = VerdictOn(r, w, l, "reports")
               /\ verdicts' = verdicts \cup {v}
               /\ announcing' = announcing \cup {[verdict |-> v, thread |-> c]}
  BY DEF SecondReport
<1>3. v \notin verdicts /\ v.by # "forfeit"
  BY <1>1, <1>2, FreshVerdict DEF VerdictOn
<1>4. NoNewForfeit /\ UNCHANGED rated
  BY <1>1 DEF SecondReport, ReportAccepted, NoNewForfeit, OwesForfeit, TypeOK
<1> QED
  BY <1>2, <1>3, <1>4, PendingAnnounced

LEMMA PendingTimeout ==
  ASSUME HubInv, PendingOK, NEW r \in Rooms, OwnTimeout(r) \/ OrphanTimeout(r)
  PROVE  PendingOK'
<1>1. UNCHANGED rated /\ NoNewForfeit
  BY DEF OwnTimeout, OrphanTimeout, handlers, NoNewForfeit, OwesForfeit
<1>2. CASE TimeoutApplies(arbitrations[r])
  <2>1. ~Vacant(r) /\ ~arbitrations[r].decided
    BY <1>2, ArbitratedRoom DEF TimeoutApplies, NoArbitration, Arb
  <2>2. PICK v : /\ \E w, l : v = VerdictOn(r, w, l, "timeout")
                 /\ verdicts' = verdicts \cup {v}
                 /\ announcing' = announcing \cup {[verdict |-> v, thread |-> None]}
    BY <1>2 DEF OwnTimeout, OrphanTimeout, ResolveTimeout
  <2>3. v \notin verdicts /\ v.by # "forfeit"
    BY <2>1, <2>2, FreshVerdict DEF VerdictOn
  <2> QED
    BY <1>1, <2>2, <2>3, PendingAnnounced
<1>3. CASE ~TimeoutApplies(arbitrations[r])
  <2>1. UNCHANGED <<announcing, verdicts>>
    BY <1>3 DEF OwnTimeout, OrphanTimeout, ResolveTimeout
  <2> QED
    BY <1>1, <2>1, PendingFrame
<1> QED
  BY <1>2, <1>3

\* fireRatingsCall, with the mode the room has by then: the verdict is rated, or never will be.
LEMMA PendingFired ==
  ASSUME HubInv, PendingOK, NEW a \in announcing, FireRatingsCall(a)
  PROVE  PendingOK'
<1>1. TypeOK /\ a \in Announcement /\ a.verdict \in verdicts \ Called /\ a.verdict.by # "forfeit"
  BY DEF HubInv, HandlerInv, TypeOK, PendingOK, AnnouncedOK
<1>2. announcing' = announcing \ {a} /\ UNCHANGED <<verdicts, leaving>>
  BY DEF FireRatingsCall
<1>3. NoNewForfeit
  BY <1>1, <1>2 DEF FireRatingsCall, NoNewForfeit, OwesForfeit, TypeOK
<1>4. CallsOK' /\ Called' \subseteq Called \cup {a.verdict}
  <2>1. CASE rated' = rated
    BY <1>2, <2>1 DEF PendingOK, CallsOK, Called
  <2>2. CASE rated' # rated
    <3>1. PICK x : /\ x = [verdict |-> a.verdict, started |-> battleStart[a.verdict.room]]
                   /\ rated' = Append(rated, x)
      BY <2>2 DEF FireRatingsCall
    <3>2. x \in RatingsCall /\ x.verdict = a.verdict
      BY <1>1, <3>1 DEF TypeOK, Announcement, RatingsCall, Verdict
    <3> QED
      BY <1>1, <1>2, <3>1, <3>2, CallAppended DEF PendingOK
  <2> QED
    BY <2>1, <2>2
<1>5. AnnouncedOK'
  <2>1. \A b \in announcing' : b \in announcing /\ b.verdict # a.verdict
    BY <1>2 DEF PendingOK, AnnouncedOK
  <2> QED
    BY <1>2, <1>4, <2>1 DEF PendingOK, AnnouncedOK
<1>6. ForfeitsOK'
  BY <1>1, <1>2, <1>3, <1>4 DEF PendingOK, ForfeitsOK, NoNewForfeit
<1> QED
  BY <1>4, <1>5, <1>6 DEF PendingOK

\* Leave decides the battle it interrupts, if nobody did.
LEMMA PendingLeave ==
  ASSUME HubInv, PendingOK, NEW c \in Conns, LeaveHub(c)
  PROVE  PendingOK'
<1>1. TypeOK /\ joinedRoomID[c] \in Rooms /\ phase[c] = "read"
  BY DEF HubInv, HandlerInv, TypeOK, LeaveHub
<1>2. PICK r, u, v, l :
        /\ r = joinedRoomID[c] /\ u = UserOf[c]
        /\ v \in IF Forfeits(r, u) THEN {VerdictOn(r, w, u, "forfeit") : w \in Others(r, u)}
                                   ELSE {None}
        /\ l.verdict = v /\ leaving' = [leaving EXCEPT ![c] = l]
        /\ verdicts' = (IF v = None THEN verdicts ELSE verdicts \cup {v})
        /\ \E p : Goto(c, p, NoArg)
  BY DEF LeaveHub
<1>3. /\ leaving'[c].verdict = v /\ UNCHANGED <<announcing, rated>> /\ Called' = Called
      /\ \A d \in Conns \ {c} : leaving'[d] = leaving[d] /\ phase'[d] = phase[d]
      /\ ~OwesForfeit(c)
  BY <1>1, <1>2, GotoMoves DEF LeaveHub, TypeOK, OwesForfeit, Called
<1>4. CASE v = None
  <2>1. NoNewForfeit /\ UNCHANGED verdicts
    BY <1>2, <1>3, <1>4 DEF NoNewForfeit, OwesForfeit
  <2> QED
    BY <1>3, <2>1, PendingFrame
<1>5. CASE v # None
  <2>1. Forfeits(r, u) /\ \E w : v = VerdictOn(r, w, u, "forfeit")
    BY <1>2, <1>5
  <2>2. v \notin verdicts /\ v.by = "forfeit"
    BY <1>1, <1>2, <2>1, FreshVerdict DEF Forfeits, Others, Vacant, VerdictOn
  <2>3. verdicts' = verdicts \cup {v}
    BY <1>2, <1>5
  <2>4. \A d \in Conns : OwesForfeit(d)' =>
          IF d = c THEN leaving'[d].verdict = v
          ELSE OwesForfeit(d) /\ leaving'[d].verdict = leaving[d].verdict
    BY <1>3 DEF OwesForfeit
  <2>5. CallsOK' /\ AnnouncedOK'
    BY <1>3, <2>3 DEF PendingOK, CallsOK, AnnouncedOK
  <2>6. ForfeitsOK'
    BY <1>3, <2>2, <2>3, <2>4 DEF PendingOK, CallsOK, ForfeitsOK
  <2> QED
    BY <2>5, <2>6 DEF PendingOK
<1> QED
  BY <1>4, <1>5

\* The call for a forfeit is made while telling the peers.
LEMMA PendingPeers ==
  ASSUME HubInv, PendingOK, NEW c \in Conns, LeavePeers(c)
  PROVE  PendingOK'
<1>1. /\ TypeOK /\ phase[c] = "leavePeers" /\ Goto(c, "leaveRedis", NoArg)
      /\ UNCHANGED <<leaving, announcing, verdicts>>
  BY DEF HubInv, HandlerInv, LeavePeers
<1>2. \A d \in Conns : OwesForfeit(d)' => OwesForfeit(d) /\ d # c
  BY <1>1, GotoMoves DEF OwesForfeit
<1>3. CASE rated' = rated
  BY <1>1, <1>2, <1>3, PendingFrame DEF NoNewForfeit
<1>4. CASE rated' # rated
  <2> DEFINE v == leaving[c].verdict
  <2>1. OwesForfeit(c) /\ v \in Verdict
    BY <1>1, <1>4 DEF LeavePeers, OwesCall, OwesForfeit, TypeOK, Leaving
  <2>2. PICK x : x = [verdict |-> v, started |-> leaving[c].started] /\ rated' = Append(rated, x)
    BY <1>4 DEF LeavePeers
  <2>3. x \in RatingsCall /\ x.verdict = v
    BY <1>1, <2>1, <2>2 DEF RatingsCall, TypeOK, Leaving
  <2>4. v \in verdicts \ Called /\ v.by = "forfeit"
    BY <2>1 DEF PendingOK, ForfeitsOK
  <2>5. CallsOK' /\ Called' = Called \cup {v}
    BY <1>1, <2>2, <2>3, <2>4, CallAppended DEF PendingOK
  <2>6. AnnouncedOK'
    BY <1>1, <2>4, <2>5 DEF PendingOK, AnnouncedOK
  <2>7. ForfeitsOK'
    BY <1>1, <1>2, <2>1, <2>5 DEF PendingOK, ForfeitsOK
  <2> QED
    BY <2>5, <2>6, <2>7 DEF PendingOK
<1> QED
  BY <1>3, <1>4

LEMMA PendingNext ==
  ASSUME HubInv, PendingOK, [Next]_vars
  PROVE  PendingOK'
<1>0. TypeOK
  BY DEF HubInv, HandlerInv
<1>1. ASSUME NEW c \in Conns,
             \/ Register(c) \/ JoinByCode(c) \/ RegisterCreator(c) \/ RollbackHub(c)
             \/ RollbackRedis(c) \/ StoreCode(c) \/ LeaveCode(c) \/ LeaveRedis(c) \/ Exit(c)
             \/ (\E k \in Codes : CreateCode(c, k) \/ ResolveCode(c, k))
             \/ (\E r \in Rooms, m \in JoinModes : Join(c, r, m))
             \/ \E r \in PrivateRooms : CreateRoom(c, r)
      PROVE  PendingOK'
  <2>1. /\ UNCHANGED <<announcing, verdicts, rated>>
        /\ \A d \in Conns \ {c} : leaving'[d] = leaving[d]
    BY <1>0, <1>1 DEF Register, JoinByCode, RegisterCreator, RollbackHub, RollbackRedis, StoreCode,
       LeaveCode, LeaveRedis, Exit, CreateCode, ResolveCode, Join, CreateRoom, history, TypeOK
  <2>2. PICK p, a :
          /\ Goto(c, p, a)
          /\ \/ p \notin {"leaveCode", "leavePeers"}
             \/ phase[c] = "leaveCode" /\ UNCHANGED leaving
    BY <1>1 DEF Register, JoinByCode, RegisterCreator, RollbackHub, RollbackRedis, StoreCode,
       LeaveCode, LeaveRedis, Exit, CreateCode, ResolveCode, Join, CreateRoom, RedisJoin
  <2>3. NoNewForfeit
    BY <1>0, <2>1, <2>2, GotoMoves DEF NoNewForfeit, OwesForfeit
  <2> QED
    BY <2>1, <2>3, PendingFrame
<1>2. CASE \/ \E c \in Conns, r \in Rooms : FirstReport(c, r)
           \/ (\E r \in Rooms : TimerFires(r) \/ ExpireRoom(r))
           \/ (\E k \in Codes : ExpireCode(k)) \/ UNCHANGED vars
  <2>1. UNCHANGED <<announcing, verdicts, rated, phase, leaving>>
    BY <1>2 DEF FirstReport, ReportAccepted, TimerFires, ExpireRoom, ExpireCode, vars, handlers,
                history
  <2> QED
    BY <2>1, PendingFrame DEF NoNewForfeit, OwesForfeit
<1> QED
  BY <1>1, <1>2, PendingReport, PendingTimeout, PendingFired, PendingLeave, PendingPeers
     DEF Next, HandlerStep, ClientStep, ReadFails, TimerStep

\* ReportEvent, resolveTimeout and Leave start one ratings call per battle at most, with the
\* verdict they reached.
THEOREM RatedOnceAlways == Spec => []RatedOnce
<1>1. Init => HubInv /\ PendingOK
  <2>1. Init => PendingOK
    BY DEF Init, PendingOK, CallsOK, AnnouncedOK, ForfeitsOK, Called, OwesForfeit
  <2> QED
    BY <2>1, HubInvInit
<1>2. (HubInv /\ PendingOK) /\ [Next]_vars => (HubInv /\ PendingOK)'
  BY HubInvNext, PendingNext
<1>3. HubInv /\ PendingOK => RatedOnce
  BY DEF HubInv, VerdictsOK, OneVerdictPerBattle, PendingOK, CallsOK, Called, RatedOnce
<1> QED
  BY <1>1, <1>2, <1>3, PTL DEF Spec

\* Whoever loses by reports or by the timeout, and whoever wins, are members of the room at
\* that moment, whatever battle the callback of a timer was armed for.
THEOREM DecidedAmongMembersAlways == Spec => DecidedAmongMembers
<1> DEFINE Among(v) == /\ v.loser \in Members(v.room)
                       /\ \/ v.winner \in Others(v.room, v.loser)
                          \/ /\ v.winner = None /\ v.by = "timeout"
                             /\ Members(v.room) = {v.loser}
           Decent == \A v \in NewVerdicts : v.by # "forfeit" => Among(v)
<1>1. ASSUME HubInv, [Next]_vars  PROVE Decent
  <2>1. ASSUME NEW c \in Conns, NEW r \in Rooms, SecondReport(c, r)  PROVE Decent
    <3> DEFINE first == arbitrations[r].firstReport
    <3>1. /\ UserOf[c] \in Members(r) /\ first \in Members(r) /\ first # UserOf[c]
      BY <1>1, <2>1, NoneApart DEF SecondReport, ReportAccepted, HubInv, RoomsOK, RoomOK
    <3>2. NewVerdicts \subseteq {VerdictOn(r, UserOf[c], first, "reports"),
                                 VerdictOn(r, first, UserOf[c], "reports")}
      BY <2>1 DEF SecondReport, NewVerdicts
    <3> QED
      BY <3>1, <3>2 DEF VerdictOn, Others
  <2>2. ASSUME NEW r \in Rooms, OwnTimeout(r) \/ OrphanTimeout(r)  PROVE Decent
    <3> DEFINE loser == arbitrations[r].firstReport
    <3>1. \A v \in NewVerdicts : /\ TimeoutApplies(arbitrations[r])
                                 /\ \E w \in TimeoutWinners(r, loser) :
                                      v = VerdictOn(r, w, loser, "timeout")
      BY <2>2 DEF OwnTimeout, OrphanTimeout, ResolveTimeout, NewVerdicts
    <3>2. TimeoutApplies(arbitrations[r]) => loser \in Members(r)
      BY <1>1 DEF TimeoutApplies, HubInv, RoomsOK, RoomOK
    <3> QED
      BY <3>1, <3>2 DEF VerdictOn, TimeoutWinners, Others
  <2>3. ASSUME NEW c \in Conns, LeaveHub(c)  PROVE Decent
    <3>1. \A v \in NewVerdicts : \E w, l : v = VerdictOn(joinedRoomID[c], w, l, "forfeit")
      BY <2>3 DEF LeaveHub, NewVerdicts
    <3> QED
      BY <3>1 DEF VerdictOn
  <2>4. CASE UNCHANGED verdicts
    BY <2>4 DEF NewVerdicts
  <2>5. ASSUME NEW c \in Conns, HandlerStep(c) \/ ClientStep(c) \/ ReadFails(c)  PROVE Decent
    <3>1. \/ \E r \in Rooms : SecondReport(c, r)
          \/ LeaveHub(c)
          \/ UNCHANGED verdicts
      BY <2>5 DEF HandlerStep, ClientStep, ReadFails, Register, JoinByCode,
           RegisterCreator, RollbackHub, RollbackRedis, StoreCode, CreateCode, FireRatingsCall,
           LeaveCode, LeavePeers, LeaveRedis, Join, ResolveCode, CreateRoom, FirstReport, Exit, history
    <3> QED
      BY <2>1, <2>3, <2>4, <3>1
  <2>6. CASE TimerStep
    BY <2>2, <2>4, <2>6 DEF TimerStep, TimerFires, FireRatingsCall, history
  <2> QED
    BY <1>1, <2>4, <2>5, <2>6 DEF Next, ExpireRoom, ExpireCode, history, vars
<1>2. HubInv /\ [Next]_vars => [\A v \in NewVerdicts : v.by # "forfeit" =>
        /\ v.loser \in Members(v.room)
        /\ \/ v.winner \in Others(v.room, v.loser)
           \/ v.winner = None /\ v.by = "timeout" /\ Members(v.room) = {v.loser}]_vars
  BY <1>1
<1> QED
  BY <1>2, HubInvAlways, PTL DEF DecidedAmongMembers, Spec
==========================================================================
