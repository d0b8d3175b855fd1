---------------------------- MODULE Signaling ----------------------------
(***************************************************************************)
(* The signaling service: an in-process hub of rooms guarded by one mutex, *)
(* a Redis set of members per room, Redis invite codes, one handler        *)
(* goroutine per WebSocket connection, the confirmation-buffer timers that *)
(* arbitrate a battle, and the asynchronous calls to the ratings service.  *)
(*                                                                         *)
(* A section of code under the mutex is one action, and so is one Redis    *)
(* command or script; whatever lies between two of them interleaves.       *)
(* Abstracted: SDP/ICE relaying (it changes no state), frame contents,     *)
(* error frames, and wall-clock time: an armed timer may fire at any       *)
(* moment, and of two reports either may carry the earlier receive time,   *)
(* because each handler reads the clock before it takes the mutex.         *)
(***************************************************************************)
EXTENDS Naturals, Sequences, FiniteSets

CONSTANTS
  Conns,        \* WebSocket connections, one handler goroutine each
  Users,        \* authenticated users
  UserOf,       \* the user each connection's session cookie resolves to
  MatchRooms,   \* room ids handed out by matchmaking: known to clients
  PrivateRooms, \* room ids CreateRoom may generate (fresh, 128 random bits)
  Codes,        \* invite codes
  JoinModes,    \* the modes clients put in a join frame
  None          \* nil / "" / user id 0

Modes == {"ranked", "unranked"}   \* every mode string but "ranked" is unrated
Rooms == MatchRooms \cup PrivateRooms

ASSUME ConnAssumption ==
  /\ UserOf \in [Conns -> Users]
  /\ MatchRooms \cap PrivateRooms = {}
  /\ None \notin Conns \cup Users \cup Rooms \cup Codes
  /\ JoinModes \subseteq Modes

VARIABLES
  \* the hub's maps, under signalingService.mu
  rooms, roomModes, battleStart, arbitrations, roomCodes,
  \* Redis: room:<id>:members and roomcode:<code>
  redisRooms, redisCodes,
  \* handler goroutines: where each one is, its connection, its locals
  phase, open, joinedRoomID, arg, leaving,
  \* timer callbacks left behind by deleted arbitrations
  orphans,
  \* which private room ids were generated and shown to a client
  issued,
  \* verdicts decided whose fireRatingsCall has not run yet
  announcing,
  \* history: battles per room, verdicts reached, ratings calls issued
  battle, verdicts, rated

hub == <<rooms, roomModes, battleStart, arbitrations, roomCodes>>
redis == <<redisRooms, redisCodes>>
handlers == <<phase, open, joinedRoomID, arg, leaving>>
history == <<battle, verdicts, rated>>
vars == <<hub, redis, handlers, orphans, issued, announcing, history>>

----------------------------------------------------------------------------
(* Types *)

Phases == {"read", "joining", "resolved", "creating", "minting", "minted",
           "rollback", "announcing",
           "leaveCode", "leavePeers", "leaveRedis", "done"}

Arbitration == [firstReport : Users \cup {None}, decided : BOOLEAN,
                timer : {"idle", "armed", "fired"}]

\* A missing map entry and a fresh arbitrationState read the same everywhere.
Arb(first, done, timer) == [firstReport |-> first, decided |-> done, timer |-> timer]
NoArbitration == Arb(None, FALSE, "idle")

\* Nobody wins over himself: ratings would add and take the points of one player.
Verdict == {v \in [room : Rooms, battle : Nat, winner : Users \cup {None},
                   loser : Users, by : {"reports", "timeout", "forfeit"},
                   mode : Modes \cup {None}] : v.winner # v.loser}

Arg == [room : Rooms \cup {None}, mode : Modes \cup {None}, code : Codes \cup {None}]
Local(r, m, k) == [room |-> r, mode |-> m, code |-> k]
NoArg == Local(None, None, None)

Leaving == [peers : SUBSET Conns, code : Codes \cup {None},
            verdict : Verdict \cup {None}, started : BOOLEAN]
NoLeaving == [peers |-> {}, code |-> None, verdict |-> None, started |-> FALSE]

Announcement == [verdict : Verdict, thread : Conns \cup {None}]
RatingsCall == [verdict : Verdict, started : BOOLEAN]

TypeOK ==
  /\ rooms \in [Rooms -> [Users -> Conns \cup {None}]]
  /\ roomModes \in [Rooms -> Modes \cup {None}]
  /\ battleStart \in [Rooms -> BOOLEAN]
  /\ arbitrations \in [Rooms -> Arbitration]
  /\ roomCodes \in [Rooms -> Codes \cup {None}]
  /\ redisRooms \in [Rooms -> SUBSET Users]
  /\ redisCodes \in [Codes -> Rooms \cup {None}]
  /\ phase \in [Conns -> Phases]
  /\ open \in [Conns -> BOOLEAN]
  /\ joinedRoomID \in [Conns -> Rooms \cup {None}]
  /\ arg \in [Conns -> Arg]
  /\ leaving \in [Conns -> Leaving]
  /\ orphans \in [Rooms -> Nat]
  /\ issued \in [PrivateRooms -> {"unused", "secret", "known"}]
  /\ announcing \in SUBSET Announcement
  /\ battle \in [Rooms -> Nat]
  /\ verdicts \in SUBSET Verdict
  /\ rated \in Seq(RatingsCall)

----------------------------------------------------------------------------
(* State functions of the hub *)

Members(r) == {u \in Users : rooms[r][u] # None}
Vacant(r) == Members(r) = {}
Others(r, u) == Members(r) \ {u}
EmptyRoom == [u \in Users |-> None]

\* Rooms whose id some client holds: a private id is out once room_created is sent.
KnownRooms == MatchRooms \cup {r \in PrivateRooms : issued[r] = "known"}

\* A verdict on the battle now in room r.
VerdictOn(r, winner, loser, by) ==
  [room |-> r, battle |-> battle[r], winner |-> winner, loser |-> loser, by |-> by,
   mode |-> roomModes[r]]

\* time.Timer.Stop: it prevents the callback only while that has not started.
Stopped(timer) == IF timer = "armed" THEN "idle" ELSE timer

----------------------------------------------------------------------------
Init ==
  /\ rooms = [r \in Rooms |-> EmptyRoom]
  /\ roomModes = [r \in Rooms |-> None]
  /\ battleStart = [r \in Rooms |-> FALSE]
  /\ arbitrations = [r \in Rooms |-> NoArbitration]
  /\ roomCodes = [r \in Rooms |-> None]
  /\ redisRooms = [r \in Rooms |-> {}]
  /\ redisCodes = [k \in Codes |-> None]
  /\ phase = [c \in Conns |-> "read"]
  /\ open = [c \in Conns |-> TRUE]
  /\ joinedRoomID = [c \in Conns |-> None]
  /\ arg = [c \in Conns |-> NoArg]
  /\ leaving = [c \in Conns |-> NoLeaving]
  /\ orphans = [r \in Rooms |-> 0]
  /\ issued = [r \in PrivateRooms |-> "unused"]
  /\ announcing = {}
  /\ battle = [r \in Rooms |-> 0]
  /\ verdicts = {}
  /\ rated = <<>>

\* The handler c is in its read loop on a live socket.
Reading(c) == phase[c] = "read" /\ open[c]

\* The handler c goes to phase p with the locals a.
Goto(c, p, a) == phase' = [phase EXCEPT ![c] = p] /\ arg' = [arg EXCEPT ![c] = a]

----------------------------------------------------------------------------
(* Joining: Redis admits at most two users, then the hub registers *)

\* joinScript: a member is admitted again, a third user is not.
Admits(r, u) == u \in redisRooms[r] \/ Cardinality(redisRooms[r]) < 2

\* roomRepo.Join and the handling of JoinResultFull: the socket is closed. An error may hide
\* that the user was admitted; the client is told of an internal error.
RedisJoin(c, r, mode) ==
  LET u == UserOf[c] IN
  \/ /\ Admits(r, u)
     /\ redisRooms' = [redisRooms EXCEPT ![r] = @ \cup {u}]
     /\ Goto(c, "joining", Local(r, mode, None)) \/ Goto(c, "read", NoArg)
     /\ UNCHANGED open
  \/ /\ ~Admits(r, u)
     /\ open' = [open EXCEPT ![c] = FALSE]
     /\ Goto(c, "read", NoArg)
     /\ UNCHANGED redisRooms

\* registerConn: the first registration stores the mode, the second member starts the battle.
RegisterConn(c, r, mode) ==
  /\ rooms' = [rooms EXCEPT ![r][UserOf[c]] = c]
  /\ roomModes' = IF Vacant(r) THEN [roomModes EXCEPT ![r] = mode] ELSE roomModes
  /\ battle' = IF Vacant(r) THEN [battle EXCEPT ![r] = @ + 1] ELSE battle
  /\ battleStart' = [battleStart EXCEPT
       ![r] = @ \/ Cardinality(Members(r) \cup {UserOf[c]}) = 2]

\* A join frame: rejected while the connection is in another room.
Join(c, r, mode) ==
  /\ Reading(c)
  /\ r \in KnownRooms
  /\ joinedRoomID[c] \in {None, r}
  /\ RedisJoin(c, r, mode)
  /\ UNCHANGED <<hub, redisCodes, joinedRoomID, leaving, orphans, issued,
                 announcing, history>>

\* Join or JoinByCode registers the connection it was admitted for, and
\* the handler records the room.
Register(c) ==
  LET r == arg[c].room IN
  /\ phase[c] = "joining"
  /\ RegisterConn(c, r, arg[c].mode)
  /\ joinedRoomID' = [joinedRoomID EXCEPT ![c] = r]
  /\ Goto(c, "read", NoArg)
  /\ UNCHANGED <<arbitrations, roomCodes, redis, open, leaving, orphans, issued,
                 announcing, verdicts, rated>>

\* A join_room frame: ResolveCode. An unknown code changes nothing.
ResolveCode(c, k) ==
  /\ Reading(c)
  /\ joinedRoomID[c] = None
  /\ redisCodes[k] \in KnownRooms
  /\ Goto(c, "resolved", Local(redisCodes[k], None, None))
  /\ UNCHANGED <<hub, redis, open, joinedRoomID, leaving, orphans, issued,
                 announcing, history>>

JoinByCode(c) ==
  /\ phase[c] = "resolved"
  /\ RedisJoin(c, arg[c].room, "unranked")
  /\ UNCHANGED <<hub, redisCodes, joinedRoomID, leaving, orphans, issued,
                 announcing, history>>

----------------------------------------------------------------------------
(* CreateRoom: fresh id, Redis room, hub, invite code, hub again *)

\* A create_room frame: genRoomID and roomRepo.Join.
CreateRoom(c, r) ==
  /\ Reading(c)
  /\ joinedRoomID[c] = None
  /\ issued[r] = "unused"
  /\ issued' = [issued EXCEPT ![r] = "secret"]
  /\ redisRooms' = [redisRooms EXCEPT ![r] = {UserOf[c]}]
  /\ Goto(c, "creating", Local(r, None, None))
  /\ UNCHANGED <<hub, redisCodes, open, joinedRoomID, leaving, orphans,
                 announcing, history>>

RegisterCreator(c) ==
  /\ phase[c] = "creating"
  /\ RegisterConn(c, arg[c].room, "unranked")
  /\ Goto(c, "minting", arg[c])
  /\ UNCHANGED <<arbitrations, roomCodes, redis, open, joinedRoomID, leaving, orphans,
                 issued, announcing, verdicts, rated>>

\* CreateCode: SETNX of a code no room holds.
CreateCode(c, k) ==
  /\ phase[c] = "minting"
  /\ redisCodes[k] = None
  /\ redisCodes' = [redisCodes EXCEPT ![k] = arg[c].room]
  /\ Goto(c, "minted", Local(arg[c].room, None, k))
  /\ UNCHANGED <<hub, redisRooms, open, joinedRoomID, leaving, orphans, issued,
                 announcing, history>>

\* CreateCode failed: the hub is rolled back (arbitrations and codes are not touched).
RollbackRooms(r) == [rooms EXCEPT ![r] = EmptyRoom]
RollbackHub(c) ==
  LET r == arg[c].room IN
  /\ phase[c] = "minting"
  /\ rooms' = RollbackRooms(r)
  /\ roomModes' = [roomModes EXCEPT ![r] = None]
  /\ battleStart' = [battleStart EXCEPT ![r] = FALSE]
  /\ Goto(c, "rollback", arg[c])
  /\ UNCHANGED <<arbitrations, roomCodes, redis, open, joinedRoomID, leaving, orphans,
                 issued, announcing, history>>

\* RemoveRoom may fail: the key then stays until its TTL.
RollbackRedis(c) ==
  /\ phase[c] = "rollback"
  /\ \/ redisRooms' = [redisRooms EXCEPT ![arg[c].room] = {}]
     \/ UNCHANGED redisRooms
  /\ Goto(c, "read", NoArg)
  /\ UNCHANGED <<hub, redisCodes, open, joinedRoomID, leaving, orphans, issued,
                 announcing, history>>

\* The hub remembers the code, the handler its room, and the client both.
StoreCode(c) ==
  LET r == arg[c].room IN
  /\ phase[c] = "minted"
  /\ roomCodes' = [roomCodes EXCEPT ![r] = arg[c].code]
  /\ joinedRoomID' = [joinedRoomID EXCEPT ![c] = r]
  /\ issued' = [issued EXCEPT ![r] = "known"]
  /\ Goto(c, "read", NoArg)
  /\ UNCHANGED <<rooms, roomModes, battleStart, arbitrations, redis, open, leaving,
                 orphans, announcing, history>>

----------------------------------------------------------------------------
(* Arbitration *)

\* A blink or face_lost frame, the section under the lock: any connection of a member
\* may carry it. Reports that are refused (no member, match finished) or repeated by the
\* first reporter change nothing.
ReportAccepted(c, r) ==
  /\ Reading(c)
  /\ r \in KnownRooms /\ UserOf[c] \in Members(r)
  /\ ~arbitrations[r].decided
  /\ UNCHANGED <<rooms, roomModes, battleStart, roomCodes, redis, open, joinedRoomID, arg,
                 leaving, orphans, issued, battle, rated>>

\* afterFunc starts the confirmation buffer, whoever else is in the room.
BufferTimer_OnlyInFullRoom(r) ==   \* mutation: armed only when an opponent is there
  IF Cardinality(Members(r)) = 2 THEN "armed" ELSE "idle"
BufferTimer(r) == "armed"

FirstReport(c, r) ==
  /\ ReportAccepted(c, r)
  /\ arbitrations[r].firstReport = None
  /\ arbitrations' = [arbitrations EXCEPT ![r] = Arb(UserOf[c], FALSE, BufferTimer(r))]
  /\ UNCHANGED <<phase, announcing, verdicts>>

\* The other member's report decides: the earlier receive time loses.
SecondReport(c, r) ==
  LET first == arbitrations[r].firstReport IN
  /\ ReportAccepted(c, r)
  /\ first \notin {None, UserOf[c]}
  /\ arbitrations' = [arbitrations EXCEPT ![r] = Arb(first, TRUE, Stopped(@.timer))]
  /\ \E v \in {VerdictOn(r, UserOf[c], first, "reports"),
               VerdictOn(r, first, UserOf[c], "reports")} :
       /\ verdicts' = verdicts \cup {v}
       /\ announcing' = announcing \cup {[verdict |-> v, thread |-> c]}
  /\ phase' = [phase EXCEPT ![c] = "announcing"]

\* The buffer elapses: the runtime starts the callback, which Stop cannot reach any more.
TimerFires(r) ==
  /\ arbitrations[r].timer = "armed"
  /\ arbitrations' = [arbitrations EXCEPT ![r] = Arb(@.firstReport, @.decided, "fired")]
  /\ UNCHANGED <<rooms, roomModes, battleStart, roomCodes, redis, handlers, orphans,
                 issued, announcing, history>>

\* The check resolveTimeout makes under the lock.
TimeoutApplies_EvenDecided(arb) == arb.firstReport # None   \* mutation: guard dropped
TimeoutApplies(arb) == ~arb.decided /\ arb.firstReport # None

TimeoutWinners_Anybody(r, loser) ==   \* mutation: the loop over the members forgets uid != loserID
  IF Vacant(r) THEN {None} ELSE Members(r)
\* The first reporter loses to another member, or to user id 0 when there is none.
TimeoutWinners(r, loser) == IF Others(r, loser) = {} THEN {None} ELSE Others(r, loser)

\* resolveTimeout; timer is what the arbitration's own timer becomes.
ResolveTimeout(r, timer) ==
  LET loser == arbitrations[r].firstReport IN
  \/ /\ ~TimeoutApplies(arbitrations[r])
     /\ arbitrations' = [arbitrations EXCEPT ![r] = Arb(loser, @.decided, timer)]
     /\ UNCHANGED <<announcing, verdicts>>
  \/ /\ TimeoutApplies(arbitrations[r])
     /\ arbitrations' = [arbitrations EXCEPT ![r] = Arb(loser, TRUE, timer)]
     /\ \E winner \in TimeoutWinners(r, loser) :
          LET v == VerdictOn(r, winner, loser, "timeout") IN
          /\ verdicts' = verdicts \cup {v}
          /\ announcing' = announcing \cup {[verdict |-> v, thread |-> None]}

\* The callback of the timer this battle armed.
OwnTimeout(r) ==
  /\ arbitrations[r].timer = "fired"
  /\ ResolveTimeout(r, "idle")
  /\ UNCHANGED <<rooms, roomModes, battleStart, roomCodes, redis, handlers, orphans,
                 issued, battle, rated>>

\* The callback of a timer whose arbitration is gone: it holds only the room id.
OrphanDue(r) == orphans[r] > 0
OrphanTimeout(r) ==
  /\ OrphanDue(r)
  /\ orphans' = [orphans EXCEPT ![r] = @ - 1]
  /\ ResolveTimeout(r, arbitrations[r].timer)
  /\ UNCHANGED <<rooms, roomModes, battleStart, roomCodes, redis, handlers,
                 issued, battle, rated>>

\* After the outcome frames: fireRatingsCall takes the lock again and reads the
\* room's mode as it is now.
FireRatingsCall(a) ==
  /\ announcing' = announcing \ {a}
  /\ rated' = IF roomModes[a.verdict.room] = "ranked"
                THEN Append(rated, [verdict |-> a.verdict,
                                    started |-> battleStart[a.verdict.room]])
                ELSE rated
  /\ phase' = IF a.thread \in Conns THEN [phase EXCEPT ![a.thread] = "read"] ELSE phase
  /\ UNCHANGED <<hub, redis, open, joinedRoomID, arg, leaving, orphans, issued,
                 battle, verdicts>>

----------------------------------------------------------------------------
(* Disconnection and Leave *)

\* The read fails (the client went away, a keepalive ping failed, or this service
\* closed the socket) in a handler that joined no room.
Exit(c) ==
  /\ phase[c] = "read" /\ joinedRoomID[c] = None
  /\ open' = [open EXCEPT ![c] = FALSE]
  /\ Goto(c, "done", NoArg)
  /\ UNCHANGED <<hub, redis, joinedRoomID, leaving, orphans, issued,
                 announcing, history>>

\* The leaver forfeits a battle with somebody in it that is not decided.
Forfeits_EvenDecided(r, u) == Others(r, u) # {}   \* mutation: guard dropped
Forfeits(r, u) == Others(r, u) # {} /\ ~arbitrations[r].decided

\* The arbitration entry a deleted room leaves behind: none.
AfterLeave_Kept(r) == arbitrations[r]   \* mutation: the delete is forgotten
AfterLeave(r) == NoArbitration

\* The room entry goes with all its members, the leaver and the peers.
RoomsAfterLeave_OnlyIfAlone(r, u) ==   \* mutation: kept for the peers, leaver included
  IF Others(r, u) = {} THEN [rooms EXCEPT ![r] = EmptyRoom] ELSE rooms
RoomsAfterLeave(r, u) == [rooms EXCEPT ![r] = EmptyRoom]

\* Deleting the entry does not stop its timer unless the forfeit did.
LeftTimers(r, u) ==
  LET t == arbitrations[r].timer IN
  IF t = "fired" \/ (t = "armed" /\ ~Forfeits(r, u)) THEN 1 ELSE 0

\* Where Leave goes on: removing a code and telling the peers, if there are any.
AfterHub(code, peers) ==
  IF code # None THEN "leaveCode" ELSE IF peers # {} THEN "leavePeers" ELSE "leaveRedis"

\* The read fails in a room: Leave, the section under the lock. It gets a room and a user
\* id: nothing checks that c is the connection registered for him, or that he is a member.
LeaveHub(c) ==
  LET r == joinedRoomID[c] u == UserOf[c] IN
  /\ phase[c] = "read" /\ r # None
  /\ open' = [open EXCEPT ![c] = FALSE]
  /\ \E v \in IF Forfeits(r, u)
                THEN {VerdictOn(r, w, u, "forfeit") : w \in Others(r, u)}
                ELSE {None} :
       LET l == [peers |-> {rooms[r][w] : w \in Others(r, u)}, code |-> roomCodes[r],
                 verdict |-> v, started |-> battleStart[r]] IN
       /\ verdicts' = IF v = None THEN verdicts ELSE verdicts \cup {v}
       /\ leaving' = [leaving EXCEPT ![c] = l]
       /\ Goto(c, AfterHub(l.code, l.peers), NoArg)
  /\ rooms' = RoomsAfterLeave(r, u)
  /\ arbitrations' = [arbitrations EXCEPT ![r] = AfterLeave(r)]
  /\ orphans' = [orphans EXCEPT ![r] = @ + LeftTimers(r, u)]
  /\ roomModes' = [roomModes EXCEPT ![r] = None]
  /\ battleStart' = [battleStart EXCEPT ![r] = FALSE]
  /\ roomCodes' = [roomCodes EXCEPT ![r] = None]
  /\ UNCHANGED <<redis, joinedRoomID, issued, announcing, battle, rated>>

\* RemoveCode; its failure is logged and the code stays until its TTL.
LeaveCode(c) ==
  LET k == leaving[c].code IN
  /\ phase[c] = "leaveCode"
  /\ \/ redisCodes' = [redisCodes EXCEPT ![k] = None]
     \/ UNCHANGED redisCodes
  /\ Goto(c, AfterHub(None, leaving[c].peers), NoArg)
  /\ UNCHANGED <<hub, redisRooms, open, joinedRoomID, leaving, orphans, issued,
                 announcing, history>>

\* The sockets Leave closes after sending outcome and peer_left.
ClosedPeers_None(c) == {}   \* mutation: peer.Close is forgotten
ClosedPeers(c) == leaving[c].peers

\* The call a forfeit owes: with the mode and start captured under the lock.
OwesCall(c) == leaving[c].verdict # None /\ leaving[c].verdict.mode = "ranked"

LeavePeers(c) ==
  /\ phase[c] = "leavePeers"
  /\ open' = [d \in Conns |-> open[d] /\ d \notin ClosedPeers(c)]
  /\ rated' = IF OwesCall(c)
                THEN Append(rated, [verdict |-> leaving[c].verdict,
                                    started |-> leaving[c].started])
                ELSE rated
  /\ Goto(c, "leaveRedis", NoArg)
  /\ UNCHANGED <<hub, redis, joinedRoomID, leaving, orphans, issued, announcing,
                 battle, verdicts>>

\* RemoveRoom deletes the key, whoever has joined the room since; it may fail.
LeaveRedis(c) ==
  /\ phase[c] = "leaveRedis"
  /\ \/ redisRooms' = [redisRooms EXCEPT ![joinedRoomID[c]] = {}]
     \/ UNCHANGED redisRooms
  /\ Goto(c, "done", NoArg)
  /\ leaving' = [leaving EXCEPT ![c] = NoLeaving]
  /\ joinedRoomID' = [joinedRoomID EXCEPT ![c] = None]
  /\ UNCHANGED <<hub, redisCodes, open, orphans, issued, announcing, history>>

----------------------------------------------------------------------------
(* Redis keys expire on their own *)

\* A call in progress lasts seconds and refreshed the key, whose TTL is minutes.
NoCallInProgress == \A c \in Conns : phase[c] \in {"read", "done"}

ExpireRoom(r) ==
  /\ NoCallInProgress /\ redisRooms[r] # {}
  /\ redisRooms' = [redisRooms EXCEPT ![r] = {}]
  /\ UNCHANGED <<hub, redisCodes, handlers, orphans, issued, announcing, history>>

ExpireCode(k) ==
  /\ NoCallInProgress /\ redisCodes[k] # None
  /\ redisCodes' = [redisCodes EXCEPT ![k] = None]
  /\ UNCHANGED <<hub, redisRooms, handlers, orphans, issued, announcing, history>>

----------------------------------------------------------------------------
\* What a handler does next by itself, once it has read a frame or an error.
HandlerStep(c) ==
  \/ Register(c) \/ JoinByCode(c)
  \/ RegisterCreator(c) \/ RollbackHub(c) \/ RollbackRedis(c) \/ StoreCode(c)
  \/ \E k \in Codes : CreateCode(c, k)
  \/ \E a \in announcing : a.thread = c /\ FireRatingsCall(a)
  \/ LeaveCode(c) \/ LeavePeers(c) \/ LeaveRedis(c)

\* What the clients and the network do to it.
ClientStep(c) ==
  \/ \E r \in Rooms, m \in JoinModes : Join(c, r, m)
  \/ \E k \in Codes : ResolveCode(c, k)
  \/ \E r \in PrivateRooms : CreateRoom(c, r)
  \/ \E r \in Rooms : FirstReport(c, r) \/ SecondReport(c, r)

\* The read loop ends: when the client chooses, and for sure on a closed socket.
ReadFails(c) == Exit(c) \/ LeaveHub(c)

TimerStep ==
  \/ \E r \in Rooms : TimerFires(r) \/ OwnTimeout(r) \/ OrphanTimeout(r)
  \/ \E a \in announcing : a.thread = None /\ FireRatingsCall(a)

Next ==
  \/ \E c \in Conns : HandlerStep(c) \/ ClientStep(c) \/ ReadFails(c)
  \/ TimerStep
  \/ \E r \in Rooms : ExpireRoom(r)
  \/ \E k \in Codes : ExpireCode(k)

Spec == Init /\ [][Next]_vars

\* Goroutines are scheduled and timers fire; nothing is asked of clients or of expiry.
Fairness ==
  /\ \A c \in Conns : WF_vars(HandlerStep(c) \/ (~open[c] /\ ReadFails(c)))
  /\ \A r \in Rooms : WF_vars(TimerFires(r)) /\ WF_vars(OwnTimeout(r))

FairSpec == Spec /\ Fairness

----------------------------------------------------------------------------
(* The promise: Arbiter, seen through the hub *)

\* A room is decided when its arbitration is, vacant when nobody is registered.
StateOf(r) == CASE Vacant(r) -> "vacant"
                [] ~Vacant(r) /\ arbitrations[r].decided -> "decided"
                [] OTHER -> "open"

ResultOf(v) == <<v.winner, v.loser, v.by, v.mode>>
Results == (Users \cup {None}) \X Users \X {"reports", "timeout", "forfeit"}
             \X (Modes \cup {None})

Promise == INSTANCE Arbiter WITH
  state <- [r \in Rooms |-> StateOf(r)],
  number <- battle,
  decided <- {<<v.room, v.battle, ResultOf(v)>> : v \in verdicts}

\* Two reports, a timeout and a disconnection race for every battle, and the outcome is
\* computed under three different lock sections: still each battle of a room gets at most
\* one verdict, only while it is open, and no verdict is changed (ReportEvent,
\* resolveTimeout and Leave of signaling_service.go).
ImplementsArbiter == Promise!Spec

\* The same as a state predicate: at most one verdict per battle of a room.
OneVerdictPerBattle ==
  \A v, w \in verdicts : v.room = w.room /\ v.battle = w.battle => v = w

----------------------------------------------------------------------------
(* Properties *)

\* Whoever is registered in the hub has a handler that will take him off it: the
\* connection is his, its handler is alive and knows the room (or is still creating it),
\* so that a disconnect leads to Leave. Otherwise the room would stay for ever.
NoGhostMember ==
  \A r \in Rooms, u \in Users : rooms[r][u] # None =>
    LET c == rooms[r][u] IN
    /\ UserOf[c] = u
    /\ \/ joinedRoomID[c] = r /\ phase[c] \in {"read", "joining", "announcing"}
       \/ arg[c].room = r /\ phase[c] \in {"minting", "minted"}

\* What a battle leaves behind in a vacant room is nothing: no arbitration, no start
\* time, no mode and no code that the next battle under the same id would inherit.
VacantRoomIsClean ==
  \A r \in Rooms : Vacant(r) =>
    /\ arbitrations[r] = NoArbitration
    /\ roomModes[r] = None /\ ~battleStart[r] /\ roomCodes[r] = None

\* The first reporter of an undecided battle is still one of its members, so that the
\* timer has somebody to call the loser.
FirstReporterIsMember ==
  \A r \in Rooms : arbitrations[r].firstReport \in Members(r) \cup {None}

\* Verdicts a step adds.
NewVerdicts == verdicts' \ verdicts

\* A verdict by reports or by the timeout is between members of that very battle, two of
\* them; only a reporter who was alone when the buffer elapsed loses to user id 0.
DecidedAmongMembers ==
  [][\A v \in NewVerdicts : v.by # "forfeit" =>
       /\ v.loser \in Members(v.room)
       /\ \/ v.winner \in Others(v.room, v.loser)
          \/ v.winner = None /\ v.by = "timeout" /\ Members(v.room) = {v.loser}]_vars

\* The ratings service is called at most once for a battle, and with the verdict that
\* was announced, whichever of the three paths decided it.
RatedOnce ==
  /\ \A i, j \in DOMAIN rated :
       (/\ rated[i].verdict.room = rated[j].verdict.room
        /\ rated[i].verdict.battle = rated[j].verdict.battle) => i = j
  /\ \A i \in DOMAIN rated : rated[i].verdict \in verdicts

\* A reported blink is decided: the battle gets its verdict or the room is vacated.
ReportIsDecided ==
  \A r \in Rooms :
    arbitrations[r].firstReport # None ~> arbitrations[r].decided \/ Vacant(r)

\* When a player leaves, the handlers of everybody he left behind come to an end.
PeersAreReleased ==
  \A c, d \in Conns : d \in leaving[c].peers ~> phase[d] = "done"

\* Claims of the comments and tests that the code does not keep (see README).

\* A ranked verdict between two members reaches the ratings service: it is waiting for its
\* call or it was rated (fireRatingsCall).
RankedVerdictIsRated ==
  \A v \in verdicts : v.mode = "ranked" /\ v.winner # None =>
    \/ \E x \in announcing : x.verdict = v
    \/ \E c \in Conns : leaving[c].verdict = v
    \/ \E i \in DOMAIN rated : rated[i].verdict = v
==========================================================================
