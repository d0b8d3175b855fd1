-------------------------------- MODULE App --------------------------------
(***************************************************************************)
(* The life of a service's process: it loads its configuration, opens what *)
(* it depends on, runs its workers until a signal or a failure, and closes *)
(* what it opened; a supervisor starts it again. What its websockets have  *)
(* in Redis (an entry of the queue, a member of a room) outlives it.       *)
(***************************************************************************)
EXTENDS Config, Requests, Sequences

CONSTANT MaxStarts   \* bound on starts of the process

ASSUME AppAssumption == MaxStarts \in Nat

VARIABLES
  app,        \* the service
  stage,      \* where Run is
  loaded,     \* what the configuration was just loaded from, until the next step
  opened,     \* how many of its dependencies are open
  cancelled,  \* the context of Run and its workers
  server,     \* the worker of HTTP or of websockets
  ticker,     \* koth's reset worker or the matcher
  handler,    \* what goroutine w of the server serves
  entries,    \* whose entries are in Redis, by the goroutine of their websocket
  excused,    \* entries a failure or an earlier process left behind
  starts

appVars == <<app, stage, loaded, opened, cancelled, server, ticker, handler, entries, excused, starts>>

Loaded == [source : Sources, odd : UNION {DOMAIN Settings[a] : a \in Apps}, raw : Raws, value : Outcomes]

AppTypeOK ==
  /\ app \in Apps
  /\ stage \in {"down", "open", "run", "closing"}
  /\ loaded \in Loaded \cup {None}
  /\ opened \in 0..4
  /\ cancelled \in BOOLEAN
  /\ server \in {"none", "serving", "draining", "returned"}
  /\ ticker \in {"none", "ready", "broken", "running", "returned"}
  /\ handler \in [Workers -> {"none", "request", "socket", "leaving"}]
  /\ entries \in SUBSET Workers
  /\ excused \in SUBSET entries
  /\ starts \in 0..MaxStarts

----------------------------------------------------------------------------
(* What each service opens, in this order, before it runs its workers *)

AuthOpens == <<"postgres", "redis">>
HealthOpens == <<>>
KothOpens == <<"postgres", "redis">>
MatchmakingOpens == <<"redis">>
MediaOpens == <<"postgres", "storage", "redis", "ffmpeg">>
RatingsOpens == <<"postgres", "redis">>
ReportsOpens == <<"postgres", "redis", "storage">>
SignalingOpens == <<"redis">>
StoreOpens == <<"postgres", "redis">>

Opens ==
  [auth |-> AuthOpens, health |-> HealthOpens, koth |-> KothOpens, matchmaking |-> MatchmakingOpens,
   media |-> MediaOpens, ratings |-> RatingsOpens, reports |-> ReportsOpens,
   signaling |-> SignalingOpens, store |-> StoreOpens]

Sockets == {"matchmaking", "signaling"}
Tickers == {"koth", "matchmaking"}

AppInit ==
  /\ app \in Apps
  /\ stage = "down"
  /\ loaded = None
  /\ opened = 0
  /\ cancelled = FALSE
  /\ server = "none"
  /\ ticker = "none"
  /\ handler = [w \in Workers |-> "none"]
  /\ entries = {}
  /\ excused = {}
  /\ starts = 0

----------------------------------------------------------------------------
(* Start *)

LoadConfig(source, odd, raw) ==
  LET value == Load(app, source, odd, raw) IN
  /\ stage = "down" /\ starts < MaxStarts
  /\ starts' = starts + 1
  /\ loaded' = [source |-> source, odd |-> odd, raw |-> raw, value |-> value]
  /\ IF value = "error"
       THEN UNCHANGED <<stage, ticker>>
       ELSE /\ stage' = "open"
            /\ ticker' = IF app \notin Tickers THEN "none"
                         ELSE IF odd = "check_interval" /\ value = "negative" THEN "broken" ELSE "ready"
  /\ UNCHANGED <<app, opened, cancelled, server, handler, entries, excused, faults>>

\* A client is there once its ping succeeds; after a signal it does not.
Pinged == {"postgres", "redis", "storage"}

OpenDependency ==
  /\ stage = "open" /\ opened < Len(Opens[app])
  /\ \/ /\ cancelled => Opens[app][opened + 1] \notin Pinged
        /\ opened' = opened + 1
        /\ UNCHANGED <<stage, faults>>
     \/ /\ stage' = "closing"
        /\ (cancelled /\ UNCHANGED faults) \/ Fault
        /\ UNCHANGED opened
  /\ UNCHANGED <<app, cancelled, server, ticker, handler, entries, excused, starts>>

StartWorkers ==
  /\ stage = "open" /\ opened = Len(Opens[app])
  /\ stage' = "run"
  /\ server' = "serving"
  /\ ticker' = IF ticker = "ready" THEN "running" ELSE ticker
  /\ UNCHANGED <<app, opened, cancelled, handler, entries, excused, starts, faults>>

----------------------------------------------------------------------------
(* Requests and websockets *)

Accept(w) ==
  /\ server = "serving" /\ handler[w] = "none"
  /\ handler' = [handler EXCEPT ![w] = IF app \in Sockets THEN "socket" ELSE "request"]
  /\ UNCHANGED <<app, stage, opened, cancelled, server, ticker, entries, excused, starts, faults>>

Respond(w) ==
  /\ handler[w] = "request"
  /\ handler' = [handler EXCEPT ![w] = "none"]
  /\ UNCHANGED <<app, stage, opened, cancelled, server, ticker, entries, excused, starts, faults>>

\* Join with the context of the request, which ends with that of the server.
Enter(w) ==
  /\ handler[w] = "socket" /\ ~cancelled /\ opened > 0
  /\ entries' = entries \cup {w}
  /\ excused' = excused \ {w}
  /\ UNCHANGED <<app, stage, opened, cancelled, server, ticker, handler, starts, faults>>

\* The read fails: the peer is gone, or the context is.
ReadFailed(w) ==
  /\ handler[w] = "socket"
  /\ handler' = [handler EXCEPT ![w] = "leaving"]
  /\ UNCHANGED <<app, stage, opened, cancelled, server, ticker, entries, excused, starts, faults>>

\* Leave has a context of its own, so that it works after a signal; the client may be closed by then.
LeaveWorks_InRequest == opened > 0 /\ ~cancelled   \* mutation: with the context of the request
LeaveWorks == opened > 0

LeaveQueue(w) ==
  /\ handler[w] = "leaving"
  /\ handler' = [handler EXCEPT ![w] = "none"]
  /\ \/ LeaveWorks /\ entries' = entries \ {w} /\ excused' = excused \ {w} /\ UNCHANGED faults
     \/ ~LeaveWorks /\ UNCHANGED <<entries, excused, faults>>
     \/ opened > 0 /\ Fault /\ excused' = excused \cup (entries \cap {w}) /\ UNCHANGED entries
  /\ UNCHANGED <<app, stage, opened, cancelled, server, ticker, starts>>

\* The matcher takes two players out of the queue.
Pair(v, w) ==
  /\ app = "matchmaking" /\ ticker = "running"
  /\ v # w /\ {v, w} \subseteq entries
  /\ entries' = entries \ {v, w}
  /\ excused' = excused \ {v, w}
  /\ UNCHANGED <<app, stage, opened, cancelled, server, ticker, handler, starts, faults>>

\* The members of a room have a TTL.
ExpireRoom(w) ==
  /\ app = "signaling" /\ w \in entries
  /\ entries' = entries \ {w}
  /\ excused' = excused \ {w}
  /\ UNCHANGED <<app, stage, opened, cancelled, server, ticker, handler, starts, faults>>

----------------------------------------------------------------------------
(* The end *)

\* SIGTERM, SIGINT and SIGHUP cancel the context.
Signal ==
  /\ stage # "down" /\ ~cancelled
  /\ cancelled' = TRUE
  /\ UNCHANGED <<app, stage, opened, server, ticker, handler, entries, excused, starts, faults>>

\* Only koth's runWorkers cancels the context of its other workers when one returns.
CancelsOthers_Never == FALSE   \* mutation: no cancel when a worker returns
CancelsOthers == app = "koth"

WorkerReturns == cancelled' = (cancelled \/ CancelsOthers)

\* The address is taken, or Accept fails for good.
ListenFails ==
  /\ server = "serving"
  /\ Fault
  /\ server' = "returned" /\ WorkerReturns
  /\ UNCHANGED <<app, stage, opened, ticker, handler, entries, excused, starts>>

BeginShutdown ==
  /\ server = "serving" /\ cancelled
  /\ server' = "draining"
  /\ UNCHANGED <<app, stage, opened, cancelled, ticker, handler, entries, excused, starts, faults>>

\* Shutdown waits for requests, ten seconds at most, and not for websockets.
ShutdownReturns ==
  /\ server = "draining"
  /\ server' = "returned" /\ WorkerReturns
  /\ ((\A w \in Workers : handler[w] # "request") /\ UNCHANGED faults) \/ Fault
  /\ UNCHANGED <<app, stage, opened, ticker, handler, entries, excused, starts>>

TickerStops ==
  /\ ticker = "running" /\ cancelled
  /\ ticker' = "returned" /\ WorkerReturns
  /\ UNCHANGED <<app, stage, opened, server, handler, entries, excused, starts, faults>>

RunReturns ==
  /\ stage = "run" /\ server = "returned"
  /\ ticker \in {"none", "returned"}
  /\ stage' = "closing"
  /\ UNCHANGED <<app, opened, cancelled, server, ticker, handler, entries, excused, starts, faults>>

\* The deferred calls, in reverse order; what is in Redis by then stays there.
CloseClient ==
  /\ stage = "closing" /\ opened > 0
  /\ opened' = opened - 1
  /\ excused' = IF Opens[app][opened] = "redis" THEN entries ELSE excused
  /\ UNCHANGED <<app, stage, cancelled, server, ticker, handler, entries, starts, faults>>

\* With the process go its connections and goroutines.
Dies ==
  /\ stage' = "down" /\ opened' = 0 /\ cancelled' = FALSE
  /\ server' = "none" /\ ticker' = "none"
  /\ handler' = [w \in Workers |-> "none"]
  /\ excused' = entries
  /\ UNCHANGED <<app, entries, starts>>

Exit == stage = "closing" /\ opened = 0 /\ Dies /\ UNCHANGED faults

\* NewTicker panics on an interval that is not positive.
TickerPanics == stage = "run" /\ ticker = "broken" /\ Dies /\ UNCHANGED faults

Kill == stage # "down" /\ Fault /\ Dies

AppNext ==
  \/ \E source \in Sources, odd \in DOMAIN Settings[app], raw \in Raws : LoadConfig(source, odd, raw)
  \/ /\ loaded' = None
     /\ \/ OpenDependency \/ StartWorkers
        \/ \E w \in Workers :
             \/ Accept(w) \/ Respond(w) \/ Enter(w) \/ ReadFailed(w) \/ LeaveQueue(w) \/ ExpireRoom(w)
             \/ \E v \in Workers : Pair(v, w)
        \/ Signal \/ ListenFails \/ BeginShutdown \/ ShutdownReturns \/ TickerStops
        \/ RunReturns \/ CloseClient \/ Exit \/ TickerPanics \/ Kill

AppSpec == AppInit /\ faults = 0 /\ [][AppNext]_<<appVars, faults>>

----------------------------------------------------------------------------
(* Properties *)

MayLack == {"password", "token", "amounts"}

\* A setting that is left out, or is not what it should be, is never taken for a zero or for
\* nothing: the process ends, or has the default. Koth's awards stay below those of a battle and
\* its thresholds ascend (config.go of each service, validate.go of koth).
ServesAsConfigured ==
  loaded # None /\ loaded.value # "error" =>
    /\ loaded.raw \in {"unset", "malformed"} /\ loaded.odd \notin MayLack =>
         loaded.value \in {"default", "good", "shorter"}
    /\ app = "koth" /\ loaded.raw = "excessive" =>
         loaded.odd \notin {"win_amount", "rank_amount", "thresholds"}

\* Workers run on open clients only. When one worker has returned, the others were told to: only
\* the matcher is left running by a server that fails (runWorkers and Run of each service).
ShutdownIsOrderly ==
  /\ server \in {"serving", "draining"} \/ ticker = "running" => opened = Len(Opens[app])
  /\ app # "matchmaking" /\ server = "returned" /\ ticker = "running" => cancelled

\* As long as Redis answers, an entry belongs to a websocket somebody serves, also while the
\* process shuts down: a player who is gone is neither matched nor in a room
\* (leaveWithFreshCtx of matchmaking_handler.go, leaveOnDisconnect of signaling_handler.go).
NoGhostWhileServing == \A w \in entries \ excused : handler[w] \in {"socket", "leaving"}
============================================================================
