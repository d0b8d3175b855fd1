--------------------------- MODULE Matchmaking ---------------------------
(***************************************************************************)
(* The matchmaking service: one handler goroutine per WebSocket            *)
(* connection, a Redis hash of waiting players per mode, the in-process    *)
(* registry of connections under a mutex, and the matcher goroutine.       *)
(*                                                                         *)
(* A Redis command or script is one action, a section under the mutex is   *)
(* one action, and whatever lies between two of them interleaves.          *)
(* Abstracted: wall-clock time. EnqueuedAt is a number drawn from a        *)
(* counter (no two joins carry the same time), and the players whose       *)
(* fallback deadline has passed are those up to a number that may grow at  *)
(* any moment. Frame contents and error frames are left out.               *)
(***************************************************************************)
EXTENDS Integers, FiniteSets, Folds

CONSTANTS
  Conns,      \* WebSocket connections, one handler goroutine each
  Users,      \* user ids
  UserOf,     \* the user each connection's session cookie resolves to
  LevelOf,    \* the level Join settles on: of the ratings service, or the default
  Modes,      \* queue modes
  LevelDist,  \* levelDist: the largest difference of an in-distance match
  MaxJoins,   \* bound: join frames that reach Join
  MaxErrors,  \* bound: entries that an error of Redis leaves in the queue
  None        \* nil / ""

ASSUME MatchmakingAssumption ==
  /\ Users \subseteq Nat /\ IsFiniteSet(Conns) /\ UserOf \in [Conns -> Users]
  /\ LevelOf \in [Users -> 1..10]
  /\ LevelDist \in Nat /\ MaxJoins \in Nat /\ MaxErrors \in Nat
  /\ None \notin Conns \cup Users \cup Modes
  /\ None \notin [level : 1..10, at : 1..MaxJoins]

VARIABLES
  \* Redis: mm:queue:<mode>, a hash from user to entry
  queue,
  \* the registry, under matchmakingService.mu
  conns, modes,
  \* handler goroutines: where each one is, its connection, its locals
  phase, currentMode, want, at,
  \* the matcher goroutine
  matcher,
  \* time: join times drawn, and those whose fallback deadline has passed
  joins, aged,
  \* history: pairs made, and tickets that an error of Redis left in the queue
  matches, lost

registry == <<conns, modes>>
handlers == <<phase, currentMode, want, at>>
clock == <<joins, aged>>
history == <<matches, lost>>
vars == <<queue, registry, handlers, matcher, clock, history>>

----------------------------------------------------------------------------
(* Types *)

Times == 1..MaxJoins
Entry == [level : 1..10, at : Times]       \* queueEntry
Hash == [Users -> Entry \cup {None}]
Ticket == Users \X Times                   \* a user and the time of one of his joins
Match == [mode : Modes, a : Ticket, b : Ticket]

\* joining: before Enqueue; enqueued: after it, not registered yet; and within Leave, after
\* the registry, what the handler does once the removal from Redis is done.
Phases == {"read", "joining", "enqueued", "rejoin", "unqueue", "exit", "done"}

\* Tick: the modes left; of the one in hand, its snapshot and deadline, the users left to
\* consider, those paired; and the pair claimed but not told yet.
Matcher == [todo : SUBSET Modes, mode : Modes \cup {None}, waiting : Hash, now : 0..MaxJoins,
            users : SUBSET Users, paired : SUBSET Users, claimed : Match \cup {None}]

EmptyHash == [u \in Users |-> None]
Idle == [todo |-> {}, mode |-> None, waiting |-> EmptyHash, now |-> 0,
         users |-> {}, paired |-> {}, claimed |-> None]

TypeOK ==
  /\ queue \in [Modes -> Hash]
  /\ conns \in [Users -> Conns \cup {None}]
  /\ modes \in [Users -> Modes \cup {None}]
  /\ phase \in [Conns -> Phases]
  /\ currentMode \in [Conns -> Modes \cup {None}]
  /\ want \in [Conns -> Modes \cup {None}]
  /\ at \in [Conns -> 0..MaxJoins]
  /\ matcher \in Matcher
  /\ joins \in 0..MaxJoins
  /\ aged \in 0..MaxJoins
  /\ matches \in SUBSET Match
  /\ lost \in SUBSET Ticket

----------------------------------------------------------------------------
(* The pure functions of player.go *)

\* The users waiting in a hash.
Waiting(hash) == {u \in Users : hash[u] # None}

Distance(hash, u, w) ==
  LET d == hash[u].level - hash[w].level IN IF d < 0 THEN -d ELSE d

\* isBetter(w, best, u): a smaller distance, then an earlier join, then a lower id.
IsBetter_LaterFirst(hash, w, best, u) ==   \* mutation: the tie goes to the later join
  LET dw == Distance(hash, u, w) db == Distance(hash, u, best) IN
  dw < db \/ (dw = db /\ hash[w].at > hash[best].at)
IsBetter(hash, w, best, u) ==
  LET dw == Distance(hash, u, w) db == Distance(hash, u, best) IN
  IF dw # db THEN dw < db
  ELSE IF hash[w].at # hash[best].at THEN hash[w].at < hash[best].at
  ELSE w < best

\* The loop both Nearest functions run over the opponents, keeping the best so far.
Best(hash, u, opponents) ==
  LET better(w, best) == IF best = None \/ IsBetter(hash, w, best, u) THEN w ELSE best
  IN  MapThenFoldSet(better, None, LAMBDA w : w, LAMBDA S : CHOOSE w \in S : TRUE, opponents)

NearestWithinDistance(hash, u, available) ==
  Best(hash, u, {w \in available : Distance(hash, u, w) <= LevelDist})
NearestRegardless(hash, u, available) == Best(hash, u, available)

----------------------------------------------------------------------------
Init ==
  /\ queue = [m \in Modes |-> EmptyHash]
  /\ conns = [u \in Users |-> None]
  /\ modes = [u \in Users |-> None]
  /\ phase = [c \in Conns |-> "read"]
  /\ currentMode = [c \in Conns |-> None]
  /\ want = [c \in Conns |-> None]
  /\ at = [c \in Conns |-> 0]
  /\ matcher = Idle
  /\ joins = 0 /\ aged = 0
  /\ matches = {} /\ lost = {}

----------------------------------------------------------------------------
(* The handler: join and leave frames, disconnection *)

Reading(c) == phase[c] = "read"

\* Bound: a join frame is read only if a join time is left for it.
Rejoining == {c \in Conns : phase[c] = "rejoin"}
JoinsLeft == joins + Cardinality(Rejoining) < MaxJoins

\* The handler calls Join, with the present time as EnqueuedAt.
CallJoin(c) ==
  /\ joins' = joins + 1
  /\ at' = [at EXCEPT ![c] = joins + 1]
  /\ phase' = [phase EXCEPT ![c] = "joining"]

\* Leave, the section under the lock: it knows the user, not the connection.
LeaveRegistry(u) ==
  /\ conns' = [conns EXCEPT ![u] = None]
  /\ modes' = [modes EXCEPT ![u] = None]

\* A join frame: a handler that queued before leaves the old slot first.
JoinFrame(c, m) ==
  /\ Reading(c)
  /\ JoinsLeft
  /\ want' = [want EXCEPT ![c] = m]
  /\ IF currentMode[c] = None
       THEN CallJoin(c) /\ UNCHANGED registry
       ELSE /\ LeaveRegistry(UserOf[c])
            /\ phase' = [phase EXCEPT ![c] = "rejoin"]
            /\ UNCHANGED <<joins, at>>
  /\ UNCHANGED <<queue, currentMode, matcher, aged, history>>

\* A leave frame of a handler that queued.
LeaveFrame(c) ==
  /\ Reading(c)
  /\ currentMode[c] # None
  /\ LeaveRegistry(UserOf[c])
  /\ phase' = [phase EXCEPT ![c] = "unqueue"]
  /\ UNCHANGED <<queue, currentMode, want, at, matcher, clock, history>>

\* The read fails: Leave only if the handler queued, whatever became of that since.
DisconnectPhase_NoLeave(c) == "done"   \* mutation: the handler returns without Leave
DisconnectPhase(c) == IF currentMode[c] = None THEN "done" ELSE "exit"
Disconnect(c) ==
  /\ Reading(c)
  /\ phase' = [phase EXCEPT ![c] = DisconnectPhase(c)]
  /\ IF DisconnectPhase(c) = "exit" THEN LeaveRegistry(UserOf[c]) ELSE UNCHANGED registry
  /\ UNCHANGED <<queue, currentMode, want, at, matcher, clock, history>>

\* An error of Redis leaves a ticket in the queue, for the expiry of the key.
Orphan(ticket) == Cardinality(lost) < MaxErrors /\ lost' = lost \cup {ticket}

\* Leave goes on: HDEL of the user's field, by whatever join it was put there. When it fails
\* the entry stays.
Unqueued_NewMode(c) ==   \* mutation: removed from the mode of the last join frame
  [queue EXCEPT ![want[c]][UserOf[c]] = None]
Unqueued(c) == [queue EXCEPT ![currentMode[c]][UserOf[c]] = None]
RemoveFromQueue(c) ==
  LET m == currentMode[c] u == UserOf[c] IN
  \/ queue' = Unqueued(c) /\ UNCHANGED lost
  \/ /\ queue[m][u] # None
     /\ Orphan(<<u, queue[m][u].at>>)
     /\ UNCHANGED queue

FinishLeave(c) ==
  /\ \/ phase[c] = "rejoin" /\ CallJoin(c) /\ UNCHANGED currentMode
     \/ /\ phase[c] = "unqueue"
        /\ phase' = [phase EXCEPT ![c] = "read"]
        /\ currentMode' = [currentMode EXCEPT ![c] = None]
        /\ UNCHANGED <<joins, at>>
     \/ /\ phase[c] = "exit"
        /\ phase' = [phase EXCEPT ![c] = "done"]
        /\ currentMode' = [currentMode EXCEPT ![c] = None]
        /\ UNCHANGED <<joins, at>>
  /\ RemoveFromQueue(c)
  /\ UNCHANGED <<registry, want, matcher, aged, matches>>

\* The turn of the read loop ends, and with it what it knew of the join frame.
EndJoin(c) ==
  /\ phase' = [phase EXCEPT ![c] = "read"]
  /\ want' = [want EXCEPT ![c] = None]
  /\ at' = [at EXCEPT ![c] = 0]

\* Enqueue: HSET, over whatever entry the user has in the mode.
Queued(c) ==
  [queue EXCEPT ![want[c]][UserOf[c]] = [level |-> LevelOf[UserOf[c]], at |-> at[c]]]

\* Join is refused: invalid mode, cooldown, or an error of Redis, which may come after the
\* HSET was done. currentMode stays what it was before the frame.
RejectJoin(c) ==
  /\ phase[c] = "joining"
  /\ \/ UNCHANGED <<queue, lost>>
     \/ queue' = Queued(c) /\ Orphan(<<UserOf[c], at[c]>>)
  /\ EndJoin(c)
  /\ UNCHANGED <<registry, currentMode, matcher, clock, matches>>

Enqueue(c) ==
  /\ phase[c] = "joining"
  /\ queue' = Queued(c)
  /\ phase' = [phase EXCEPT ![c] = "enqueued"]
  /\ UNCHANGED <<registry, currentMode, want, at, matcher, clock, history>>

\* Join, the section under the lock; the handler notes the mode.
RegisterConn(c) ==
  /\ phase[c] = "enqueued"
  /\ conns' = [conns EXCEPT ![UserOf[c]] = c]
  /\ modes' = [modes EXCEPT ![UserOf[c]] = want[c]]
  /\ currentMode' = [currentMode EXCEPT ![c] = want[c]]
  /\ EndJoin(c)
  /\ UNCHANGED <<queue, matcher, clock, history>>

----------------------------------------------------------------------------
(* The matcher *)

\* Tick: the modes with somebody registered.
ActiveModes_Unregistered == {modes[u] : u \in Users}   \* mutation: the mode of nobody, too
ActiveModes == {modes[u] : u \in Users} \ {None}
StartTick ==
  /\ matcher = Idle
  /\ matcher' = [matcher EXCEPT !.todo = ActiveModes]
  /\ UNCHANGED <<queue, registry, handlers, clock, history>>

\* tickMode: ListWaiting, then the time.
ListWaiting(m) ==
  /\ matcher.mode = None /\ m \in matcher.todo
  /\ matcher' = [todo |-> matcher.todo \ {m}, mode |-> m, waiting |-> queue[m], now |-> aged,
                 users |-> Waiting(queue[m]), paired |-> {}, claimed |-> None]
  /\ UNCHANGED <<queue, registry, handlers, clock, history>>

\* The users still unpaired in this tick, but for u.
Available(u) == Waiting(matcher.waiting) \ (matcher.paired \cup {u})

\* The opponent the tick finds for u: in distance first, past the deadline anybody.
PastFallbackDeadline_Before(u) == matcher.waiting[u].at > matcher.now   \* mutation: reversed
PastFallbackDeadline(u) == matcher.waiting[u].at <= matcher.now
OpponentOf(u) ==
  LET near == NearestWithinDistance(matcher.waiting, u, Available(u)) IN
  IF near = None /\ PastFallbackDeadline(u)
    THEN NearestRegardless(matcher.waiting, u, Available(u))
    ELSE near

\* pairScript: both are removed if both are there, by whatever join.
BothThere_OnlyFirst(m, u, w) == queue[m][u] # None   \* mutation: the second HEXISTS dropped
BothThere(m, u, w) == queue[m][u] # None /\ queue[m][w] # None
Removed_OnlyFirst(m, u, w) == [queue EXCEPT ![m][u] = None]   \* mutation: one HDEL
Removed(m, u, w) == [queue EXCEPT ![m] = [@ EXCEPT ![u] = None, ![w] = None]]

\* The ticket that a claim of u consumes: the one in Redis, not the one in the snapshot.
TicketOf(m, u) == <<u, IF queue[m][u] = None THEN matcher.waiting[u].at ELSE queue[m][u].at>>

\* The matcher considers u, finds an opponent, and the script claims both.
Claims(u) ==
  /\ u \notin matcher.paired /\ OpponentOf(u) \in Available(u)
  /\ BothThere(matcher.mode, u, OpponentOf(u))

\* One turn of the loop over the snapshot, in the order Redis returned it.
Turn(u) == matcher.mode # None /\ matcher.claimed = None /\ u \in matcher.users

\* The turn claims a pair, or finds nobody, or somebody who is gone.
Consider(u) ==
  /\ Turn(u)
  /\ IF Claims(u)
       THEN LET m == matcher.mode
                opp == OpponentOf(u)
                pair == [mode |-> m, a |-> TicketOf(m, u), b |-> TicketOf(m, opp)] IN
            /\ queue' = Removed(m, u, opp)
            /\ matches' = matches \cup {pair}
            /\ matcher' = [matcher EXCEPT !.users = @ \ {u}, !.paired = @ \cup {u, opp},
                                          !.claimed = pair]
       ELSE /\ matcher' = [matcher EXCEPT !.users = @ \ {u}]
            /\ UNCHANGED <<queue, matches>>
  /\ UNCHANGED <<registry, handlers, clock, lost>>

\* The script claims the pair and its answer is lost: tryPair returns on the error.
ClaimUnanswered(u) ==
  /\ Turn(u) /\ Claims(u)
  /\ queue' = Removed(matcher.mode, u, OpponentOf(u))
  /\ matcher' = [matcher EXCEPT !.users = @ \ {u}]
  /\ UNCHANGED <<registry, handlers, clock, history>>

\* tryPair goes on: it takes both connections off the registry and sends to those it found;
\* a send that fails closes the socket, and the handler's read fails (Disconnect).
NotifyPair ==
  LET pair == matcher.claimed
      both == {pair.a[1], pair.b[1]} IN
  /\ pair # None
  /\ conns' = [u \in Users |-> IF u \in both THEN None ELSE conns[u]]
  /\ modes' = [u \in Users |-> IF u \in both THEN None ELSE modes[u]]
  /\ matcher' = [matcher EXCEPT !.claimed = None]
  /\ UNCHANGED <<queue, phase, currentMode, want, at, clock, matches, lost>>

\* The mode is done: Refresh, and the next one or the end of the tick.
FinishMode ==
  /\ matcher.mode # None /\ matcher.claimed = None /\ matcher.users = {}
  /\ matcher' = [Idle EXCEPT !.todo = matcher.todo]
  /\ UNCHANGED <<queue, registry, handlers, clock, history>>

----------------------------------------------------------------------------
(* Time *)

\* The deadline of one more join passes. A tick reads the clock next to its snapshot, so
\* that what passes during a pass over a snapshot may as well pass before the next.
Age ==
  /\ matcher.mode = None
  /\ aged < joins
  /\ aged' = aged + 1
  /\ UNCHANGED <<queue, registry, handlers, matcher, joins, history>>

\* The key of a mode expires once nobody registered in it has refreshed it for minutes.
Unattended(m) ==
  /\ \A u \in Users : modes[u] # m
  /\ matcher.mode # m
  /\ \A c \in Conns : phase[c] \in {"read", "done"}
ExpireQueue(m) ==
  /\ Unattended(m) /\ queue[m] # EmptyHash
  /\ queue' = [queue EXCEPT ![m] = EmptyHash]
  /\ UNCHANGED <<registry, handlers, matcher, clock, history>>

----------------------------------------------------------------------------
HandlerStep(c) == FinishLeave(c) \/ RejectJoin(c) \/ Enqueue(c) \/ RegisterConn(c)
ClientStep(c) == (\E m \in Modes : JoinFrame(c, m)) \/ LeaveFrame(c) \/ Disconnect(c)

MatcherStep ==
  \/ StartTick \/ NotifyPair \/ FinishMode
  \/ \E m \in Modes : ListWaiting(m)
  \/ \E u \in Users : Consider(u)

Next ==
  \/ \E c \in Conns : HandlerStep(c) \/ ClientStep(c)
  \/ MatcherStep
  \/ \E u \in Users : ClaimUnanswered(u)
  \/ Age
  \/ \E m \in Modes : ExpireQueue(m)

Spec == Init /\ [][Next]_vars

\* Handlers and the matcher are scheduled, and time passes from tick to tick.
Fairness ==
  /\ \A c \in Conns : WF_vars(HandlerStep(c))
  /\ WF_vars(MatcherStep)
  /\ SF_vars(Age)
  /\ \A m \in Modes : WF_vars(ExpireQueue(m))

FairSpec == Spec /\ Fairness

----------------------------------------------------------------------------
(* Properties *)

\* The registry holds only handlers that are reading, of the user they are registered for,
\* and that know the mode they are registered in, so that their leaving cleans it up: no
\* handler that is gone or is leaving stays registered (Join and Leave, RegisterConn).
RegistryIsCurrent ==
  \A u \in Users :
    /\ (conns[u] = None) <=> (modes[u] = None)
    /\ conns[u] # None => LET c == conns[u] IN
         /\ UserOf[c] = u
         /\ phase[c] = "read"
         /\ currentMode[c] = modes[u]

\* Nobody haunts the queue: an entry whose removal or insertion did not fail is that of a
\* player with a handler that will remove it when it ends (leaveWithFreshCtx).
NoGhostEntry ==
  \A m \in Modes : \A u \in Waiting(queue[m]) :
    \/ <<u, queue[m][u].at>> \in lost
    \/ \E c \in Conns :
         /\ UserOf[c] = u /\ phase[c] # "done"
         /\ currentMode[c] = m \/ (phase[c] = "enqueued" /\ want[c] = m)

\* The opponent a claim takes is, among the players of the snapshot who were not paired in
\* this tick, one in distance if there is one, with nobody closer, nobody as close who
\* waited longer; and one out of distance only past the deadline (tickMode, isBetter).
OpponentIsClosest ==
  [][\A pair \in matches' \ matches :
       LET hash == matcher.waiting
           u == pair.a[1]
           w == pair.b[1]
           Gap(v) == Distance(hash, u, v) IN
       /\ Gap(w) <= LevelDist \/ hash[u].at <= matcher.now
       /\ \A v \in Users \ {u, w} :
            \/ hash[v] = None \/ v \in matcher.paired
            \/ Gap(w) < Gap(v)
            \/ Gap(w) = Gap(v) /\ hash[w].at <= hash[v].at]_vars

\* Matchmaking implements the lobby: a claim takes both tickets off the queue at once, they
\* were both waiting and of two players, and a ticket is never matched twice or queued again.
TicketsIn(m) == {<<u, queue[m][u].at>> : u \in Waiting(queue[m])}
WaitingTickets == UNION {TicketsIn(m) : m \in Modes}
MatchedTickets == {{pair.a, pair.b} : pair \in matches}
AsLobby == INSTANCE Lobby WITH
  Players <- Users, Numbers <- Times, waiting <- WaitingTickets, matched <- MatchedTickets
ImplementsLobby == AsLobby!Spec

\* Two players who wait in a mode do not wait side by side for ever, however far apart
\* their levels are: the fallback deadline passes (Tick, PastFallbackDeadline).
WaitersArePaired ==
  \A m \in Modes : \A u \in Users : \A w \in {w \in Users : w > u} :
    {u, w} \subseteq Waiting(queue[m]) ~> ~({u, w} \subseteq Waiting(queue[m]))

\* What the comment of tryPair says of it: "atomically claims the pair via the repo and
\* notifies both conns". A player whose handler has queued him and not registered him yet
\* is claimed, and nobody tells him.
MatchNotifiesBoth ==
  [][matcher.claimed # None /\ matcher'.claimed = None =>
       \A ticket \in {matcher.claimed.a, matcher.claimed.b} : conns[ticket[1]] # None]_vars
==========================================================================
