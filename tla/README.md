# TLA+ models of the blink-battle game

The repository is a game: two players look at each other over WebRTC and the one who
blinks first loses. Seven Go services and a React client make it work. This directory
holds TLA+ models of them, the TLC configurations that check them on small
instances, and theorems about them checked by TLAPS. `PROJECT.json` maps every
definition to the lines it models.

    tlc -config MCSignaling.cfg MCSignaling        # any pair of .cfg and MC module
    tlapm SignalingProofs.tla                      # any module ending in Proofs

## Inventory

| Component | State | Operations | What is hard about it |
|---|---|---|---|
| `signaling` (Go) | hub of rooms, arbitrations with a timer, room modes, battle starts, invite codes, all under one mutex; Redis sets of room members and codes with a TTL | `join`, `create_room`, `join_room`, SDP/ICE relay, `blink`/`face_lost`, disconnection, the timer's callback, the ratings call | reports, callback and disconnection race for one verdict; hub and Redis change in separate steps; ids outlive rooms; callbacks outlive arbitrations |
| `matchmaking` (Go) | Redis hash of waiting players per mode, registry of connections under a mutex | `join`, `leave`, disconnection, the matcher's tick (list, choose, claim, notify) | the queue and the registry are two places; the matcher works on a snapshot; Redis may fail after it has applied a command |
| `store` (Go) | Postgres: products, purchases, inventory, points balance and ledger; Redis: balance cache, rate limit | credit, balance, purchase with money (Stripe webhook) or points, rewarded grant | transactions of concurrent requests, webhooks delivered twice, a cache beside the database |
| `ratings` (Go) | Postgres: ratings, match results | apply a match result, read ratings, levels and matches | rows inserted and locked in one order, ELO and level arithmetic, credits after the commit that may be lost |
| `koth` (Go) | Postgres: reigns of the hills, personal ranks | challenge, daily and monthly reset, submit and read a rank | challenges and the reset race for one hill across midnight; a rank is read and upserted in two transactions; side effects after the commit |
| `media` (Go) | Postgres and object storage: battle clips, king clips, conversions | upload, delete, convert, download, expire | claim of a conversion, a crash in it, files without rows and rows without files, uploads that cross |
| `reports` (Go) | Postgres: cheat reports; Redis: cooldown | report, cooldown, bug report | reports inserted and counted in two transactions, over the last matches only; the object, the row and the message of a bug |
| `auth` (Go) | Postgres: users, consents; Redis: sessions | Google login, logout, consent | first logins of one account in parallel, emails that change |
| `health` (Go) | none | ping | nothing |
| frontend (TypeScript) | rtc peer, CV engine, recorder, screens | the client side of everything above | timers, frames, the camera, the socket and the player call back in any order, also after the page is left |
| configuration | a value per setting | read the environment or a file, validate | what is missing, malformed, zero, negative or excessive |
| processes | clients, HTTP server, workers, the signal | start, serve, drain, close, exit | a worker or the server fails while others run; handlers use what is being closed |
| platform, deployment | connections | set-up | nothing of their own |

How they interact: a client searches with `matchmaking`, is told a room id, and joins that
room at `signaling`; `signaling` calls `ratings` with the verdict of a ranked battle;
`ratings` and `koth` credit points at `store`; `matchmaking` asks `ratings` for the level and
`reports` for a cooldown; `koth` asks `media` to expire the clip of a dethroned king. All
calls between services are HTTP, and the callers log a failure and go on.

What makes each component correct: a battle has at most one verdict, between its members,
and is rated once (`signaling`); a player is matched at most once per join, with the closest
opponent, and does not wait for ever beside another (`matchmaking`); the balance is the sum
of the ledger, never negative, nothing is paid or granted twice (`store`); a match changes
both ratings or none, as if matches came one after another (`ratings`); a hill has at most
one king, and a day's rank is the best of that day (`koth`); a clip in the database has its
file, and one goroutine at most converts it (`media`); enough reports start a cooldown
(`reports`); a session is the account's that logged in (`auth`); a page goes forward only and
leaves nothing on (frontend); a process serves on open clients only (processes). The hazards
behind these are listed at their lines in `PROJECT.json`.

## Modules

| Module | What it is |
|---|---|
| `Arbiter` | abstract: battles open in vacant rooms, get at most one verdict, end |
| `Signaling` | the signaling service; `MCSignaling` instantiates it |
| `SignalingProofs` | theorems about both |
| `Lobby` | abstract: tickets wait, are withdrawn, or are matched in pairs |
| `Matchmaking` | the matchmaking service; `MCMatchmaking` instantiates it |
| `FoldProofs` | lemmas for two of the proofs: what a fold over a finite set computes |
| `MatchmakingProofs` | theorems about it |
| `Ledger` | abstract: points are earned and spent in single steps, a key once |
| `Store` | the store service; `MCStore` instantiates it |
| `StoreProofs` | theorems about it |
| `Hill` | abstract: kings fall in one step, to who lasted as long or to the end of a period |
| `Koth` | the hills and the reset worker of the koth service; `MCKoth` instantiates it |
| `KothProofs` | theorems about it |
| `KingClips` | extends `Koth`: the king clips of the media service and the browsers that play a hill; `MCKingClips` and `MCScreens` instantiate it |
| `Requests` | what the small services share: request goroutines and a budget of faults |
| `Elo` | abstract: matches are applied one after another, each to the ratings of that moment |
| `Ratings` | the ratings service |
| `RatingsProofs` | theorems about it |
| `Ranks` | the ranked hill of the koth service |
| `Reports` | the reports service |
| `Clips` | the win clips of the media service and their conversion |
| `Accounts` | the auth service |
| `Config`, `App` | the settings of all services, and the process each of them is |
| `ServicesProofs` | theorems about `Ranks`, `Reports`, `Clips`, `Accounts`, `Config` and `App`, and the types of all in `MCServices` |
| `MCServices` | instantiates `Ratings`, `Ranks`, `Reports`, `Clips`, `Accounts` and `App` |
| `CvEngine`, `Screen` | the blink engine as a function of frames; what every page with a camera does |
| `Battle`, `Search` | the two pages with a protocol of their own |
| `Peer` | one WebRTC peer and its negotiation |
| `MCScreens` | instantiates `Battle`, `Search`, `Peer` and `KingClips` |
| `ScreensProofs` | theorems about these four |

Operators named `X_Y` and marked "mutation" are not used by a specification: they are the
plausible mistakes against which a property is tried (`PROJECT.json`, "mutants").

### Signaling

The grain is the code's: a section under `signalingService.mu`, a Redis command or a Lua
script is one action, and anything may happen between two of them.

- `rooms`, `roomModes`, `battleStart`, `arbitrations`, `roomCodes` are the service's maps. A
  missing entry and an empty one read the same in the code, so a missing entry is the empty value.
- `redisRooms`, `redisCodes` are the two kinds of Redis keys. They expire (`ExpireRoom`,
  `ExpireCode`) when no call is in progress, since a call lasts seconds and the TTL minutes.
- `phase`, `arg`, `joinedRoomID`, `leaving` are the program counter and the locals of each
  handler goroutine; `open` says that its socket was not closed by the service.
- `orphans` counts the callbacks of timers whose arbitration was deleted. A callback has only
  the room id, so it acts on whatever battle the room has when it runs.
- `announcing` holds the verdicts between the lock section that decided them and the one in
  which `fireRatingsCall` reads the room's mode.
- `battle`, `verdicts`, `rated` are history: battles are numbered per room, a verdict says
  which battle it is on, and `rated` are the calls issued to the ratings service.

Time is abstract: a timer fires at any moment after it was armed, and of two reports either may
carry the earlier receive time, since each handler reads the clock before it takes the mutex.
A Redis command may fail before or after it was applied, where the difference matters: an
admission whose answer is lost (`RedisJoin`), a code or a room whose removal fails. The
failures left out are those of `CreateRoom`'s first call (nobody knows the fresh id) and of a
`CreateCode` that was applied (nobody knows the code).

### Matchmaking

- `queue[mode]` is the Redis hash, `conns` and `modes` the registry.
- `phase`, `currentMode`, `want`, `at` are the handlers; `matcher` is the goroutine that
  ticks: the modes left, the snapshot of the one in hand, the users left to consider, those
  paired in this tick, and the pair claimed and not yet told.
- A join time is a number drawn from `joins`, so that a ticket (a user and a join time) names
  one join; `aged` is the latest time whose fallback deadline has passed.
- `MaxJoins` bounds the joins and `MaxErrors` the entries a failing Redis leaves behind. Both
  are in guards; everything else is finite by itself.

The order in which the matcher considers the players of a snapshot is any order: Redis
promises none. `Best` is the loop of `NearestWithinDistance` and `NearestRegardless` as a
fold; the order of ids, times and distances is total, so the order of the fold is immaterial.

### Store

The grain is that of READ COMMITTED: a SQL statement that may have to wait for a row, a commit
and a Redis command are one action each; statements between two waits are merged into one,
since a transaction that is given up leaves no trace of them.

- `balance`, `ledger`, `purchases`, `inventory` are the tables as committed. The catalog is
  constant: `Edits`, `FreeOnes`, `PointsPrice`.
- `tx` is what the open transaction of a handler has written. What it has written is locked:
  `BalanceFree`, `KeyFree`, `OrderFree`, `GoodsFree` are the waits of an UPDATE, of an upsert and
  of the unique index, and `Apply` is the commit, which adds to the balance as it is then.
- `phase` and `job` are the program counter and the locals of each handler goroutine.
- `cache` is the balance in Redis; its expiry is an action.
- `payment` is Stripe's side of a purchase: whether it was paid, and whether its event was
  acknowledged. An event is delivered any number of times, at once and later too.
- `failures` bounds the requests given up in any phase, a lost answer to the commit included;
  `rewards` and `lapsed` are history, for the properties.

A key of `Credit` is a reason and a reference; a credit without a reference is not
deduplicated and has a key of its own. The limiter of rewarded distractions may give any answer.

### Koth

- `reigns` is the table `king_reigns`. A reign keeps how it ended (`fate`) in place of when, and
  how it began (`made`); `since` is its `started_at`.
- A challenge is a handler goroutine (`phase`, `job`). `Challenge` begins its transaction,
  `Refused`, `Lost` and `Outlast` take the advisory lock of the hill and read the king under it,
  `Crown` is the rest up to the commit, `CreditWin` the call of the store. The transaction's
  `now()` is when it began, not when it got the lock: a challenge begun before midnight may open
  a reign that is already of a past period.
- `reset` is the worker: `CheckReset` reads the clock, `FoundFresh` and `FoundStale` lock and read,
  `CloseStale` commits, `CreditFinal` and `ExpireKingClip` are the calls after it.
- Time is a number of days, and a month has `MonthDays` of them; `Midnight` comes at any moment.
- `Fail`, `FailReset` and `Crash` are a failed statement or call and a restart, `MaxFailures` in all.
  A failed call after a commit is logged and dropped: a reward may be lost, and the properties
  say only that none is paid wrongly.
- Nothing in the code seats the first king of a hill. `Seed` is the operator, who does it by hand;
  without him a hill that was reset refuses every challenge (`ErrHillNotFound`).

### KingClips

- `rows` is the table `king_clips`, as ids, `clips` what each id stands for. Ids are given in order,
  and the model takes `created_at` to follow them. `Upload` is two actions, `Create` and `Evict`, so
  that uploads cross. `Lapse` is a deletion by the owner or the end of a clip's term, which may come
  at any time: the monthly term is 720 hours, less than most months.
- `play` is a player's browser: `Watch` loads the clip, `HandleOutcome` ends the battle at his blink or
  at that of the clip, whichever is first, `PlayChallenge` sends the challenge, an action of `Koth`.
  Because the timer ends a battle, a record is never beaten by more than the timer's delay.

### Ratings, Ranks, Reports, Clips, Accounts

Each request is a goroutine `w \in Workers` with a phase variable; a statement, a call of Redis,
of the object store or of another service is one action. `Fault`, in `Requests`, is an error of
any of these, also one that is reported after the call was done, and a restart; `MaxFaults` bounds
them.

- `Ratings`: `ratings` and `results` are the tables as committed. `UpsertDefault` is INSERT ... ON
  CONFLICT DO NOTHING, which waits for an uncommitted insert of the same row but not for a lock on a
  row that is there; `LockRating` is SELECT ... FOR UPDATE. So a row has a holder in `rowLock`
  already by its insert. `Commit` is the updates, the result and the commit, since both rows are
  locked then. `won` is what the store was asked to credit. The expected score is a table
  (`ExpectedScore`, thousandths) in place of the floating-point power; K-factors, the loser's
  discount, rounding and levels are the code's.
- `Ranks`: `hillRanks` is a row per user and day; a day is read once per attempt, so an attempt may end
  after midnight. `told` and `paid` are history.
- `Reports`: `cheatReports` keeps the order of insertion, which `CountRecent` needs: the last matches are
  those with the latest reports, as in the query, and not the last ones played. What is counted is a
  function of a table of rows, so that the property can speak of earlier tables. `served` is history: whose cooldown began after his last report.
- `Clips`: objects (`webms`, `mp4s`) and rows (`clips`, `status`) change in separate calls. A conversion
  goroutine outlives its request. `unanswered` are objects whose row was recorded by a `Create`
  that reported an error: the code removes the object, and the row leads nowhere.
- `Accounts`: a login exchanges a code of Google, upserts by `sub`, creates a session. `granted` is
  history: the code a session was created for.

### Config and App

`Config` gives each setting of each service its kind, and each kind what becomes of six ways of
writing it (left out, malformed, zero, negative, excessive, good) in the environment and in a file, and
what the validation refuses. `App` is `Run`: `LoadConfig` reads a configuration with at most one odd
setting, clients open in order, the server serves, a worker ticks or fails, a signal or a failure
begins the shutdown, and clients are closed in the order the code closes them, while handlers of
websockets still take out their entries in Redis. `Kill` ends the process anywhere. `excused`
are entries nobody can take out any more: those of a killed process, and those left while
Redis fails or is closed.

### Screens

- `CvEngine` has no variables: `AfterFace` and `AfterNoFace` are what a frame makes of the engine's
  state, `FiresBlink`, `FiresFaceLost` and `FiresFacePresent` say which callback it calls. A frame is
  abstracted to the set of eyes that are closed on it.
- `Screen` is what pages share: the page is mounted, then the router leaves it, then it unmounts;
  the camera answers at any moment, also too late; the socket opens, is lost, is closed.
  `socket` follows `WsClient`: `send` throws on a socket that connects or was closed.
- `Battle` adds the sanity timer, the countdown, the reports, the verdict, the recorder and the
  upload; `Search` the join of the queue and its leave. What a callback calls is all in its action.
  The server is whoever answers on the page's own socket, see the disagreements below for what it
  is in the whole system.
- `Peer`: the handlers of an offer and an answer are asynchronous, so each is a step and the
  candidates it has left to flush; other frames come between its steps.

## Runs

| Run | Instance | What it shows |
|---|---|---|
| `signaling` | two users, one with two connections, one ranked room | `ImplementsArbiter`: one verdict per battle whatever races; `RatedOnce`, `NoGhostMember` |
| `signaling_live` | two users, one matchmade and one private room, one code, fairness | a room that ends leaves nothing behind, a report is decided, the peer of a leaver is released |
| `signaling_rated` (violation) | three users, one ranked room | a ranked verdict is not rated when a member leaves between the verdict and `fireRatingsCall` |
| `matchmaking` | three users, one mode, three joins | `ImplementsLobby`: claims are atomic, tickets are matched once; `OpponentIsClosest` |
| `matchmaking_live` | two users, one with two connections, two modes, two joins, one Redis error, fairness | `RegistryIsCurrent`, `NoGhostEntry`, `WaitersArePaired` |
| `matchmaking_notify` (violation) | two users, one mode | a player claimed before his connection is registered is never told |
| `store` | two requests at a time, one user, an edit for one point, a free distraction for two, one credit of two points, two purchases, one reward, one failure; fairness | `ImplementsLedger`, `GoodsMatchPayments`, `StaleOnlyByLapse`, `PaymentIsGranted` |
| `store_owned` (violation) | as `store`, no failure | two purchases of one edit with points are both charged |
| `koth` | two challenges at a time, one user, three reigns, the last day of a month and the first of the next, one failure; fairness | `ImplementsHill`, `CreditsAreEarned`, `StaleReignEnds` |
| `king_clips_shown` (violation) | two players, three clips, two reigns, one day | a loser's upload replaces the king's clip, and who then outlasts the clip that is shown loses |
| `services` | three requests at a time in each of five services, with one fault, and the process of each service, started twice; requests are symmetric | `ImplementsElo`, `SomebodyGoesOn`, `PointsAreWon`, `BestRankKept`, `CooldownFollowsReports`, `ClipsMatchFiles`, `ConversionIsClaimed`, `SessionIsOwners`, `ServesAsConfigured`, `ShutdownIsOrderly`, `NoGhostWhileServing` |
| `screens` | a battle page, a search page, a peer with three candidates and one error, and two players' clips on one hill over two days; fairness of the battle page | `NothingIsLeftOn`, `VerdictIsFinal`, `WinnerIsNotStranded`, `NothingSaidIsLost`, `ClipGivesWayToLater` |

`services` and `screens` each hold several components that share nothing: a behaviour is one of a
single component, chosen in the initial state, so the run visits the sum of their states.

Bounds: two connections of one user are what it takes to replace one; a room admits two
members, and a third user only matters where Redis has forgotten the others. The levels of
the three players are 4, 6 and 5 with a distance of 1: two of them match only past the
deadline, and the third is as close to either, so that ties are broken by time. In `Store` every conflict is
between two transactions, and the credit pays for the edit twice or the distraction once, so
that two purchases can be too dear together; more requests come one after the other. In `Koth` a
conflict is between two challenges or one and the reset; who challenges does not matter to the
code, so the run has one user, who may depose himself; three reigns are a king, his successor
and one on the other hill or after a reset.

In `services` three requests with three users are what a circle of locks needs in `Ratings`, and
what it takes for a reader to be overtaken twice elsewhere. With three levels a few points apart a match
may raise a level or not; one game ends the doubled K-factor. Two days are a midnight;
two thresholds and the hold times below, at and above them give every rank. Two
reports start a cooldown and only the match with the last one counts (`LastNMatches = 1`): two
reports of one match are enough, and a report of another match pushes them out again. The code's own
numbers, five reports in ten matches, would leave the window without effect in a run (`WindowIsIdle`).
One clip is kept and two are uploaded; two claims are a conversion and its repetition.
The codes are of two accounts with an old and a new email each, which they swap: all four
combinations. Two starts are a restart. In `screens` three candidates may be one before, one
during and one after the flush; the countdown and the engine's windows are a few frames long, long
enough that each is interrupted anywhere. On the hill blinks do not matter (`MaxMs = 0`) and one reign is
enough, since only clips are asked about: two that cross.

Deadlock is not checked: when every handler is gone and every bound is reached, nothing is left to
do. Whether the transactions of `Ratings` wait for each other in a circle is `SomebodyGoesOn`.

Fairness (`FairSpec`): the Go runtime schedules a goroutine that can run and starts a timer's
callback that is due, so each handler's own steps, each timer and the matcher are weakly fair.
A handler whose socket was closed reads an error. Nothing is asked of clients, of expiry in
`Signaling`, or of Redis. In `Matchmaking` time passes between ticks (`Age`, strongly fair,
because it is disabled during a pass over a snapshot), and the key of a mode in which nobody is
registered expires. In `Store` a handler runs on, and Stripe delivers an event again until it
is acknowledged; the delivery is strongly fair because only the model has so few handlers that
others may keep them busy. In `Koth` handlers run on; the reset is strongly fair because Postgres
grants a lock in the order in which it was asked for, so that challenges cannot hold the hill
for ever against it. In `Battle` the recording of the winner ends, by a timer, and an upload is
answered or times out (`EditSlotEnds`, `UploadEnds`, weakly fair); nothing is asked of the
player, the camera or the server.

## Proofs

Every theorem is for all values of the constants under the named assumptions
`ConnAssumption`, `MatchmakingAssumption`, `StoreAssumption`, `NoneAssumption`, `KothAssumption`,
`NoneIsNoReign` and `NoneIsNoJob` (None is a value of its own), of the small services
`RequestsAssumption`, `RatingsAssumption`, `RanksAssumption`, `ReportsAssumption`, `ClipsAssumption`,
`AccountsAssumption` and `AppAssumption`, and of the screens theirs; TLC evaluates them on every run. Where
something is counted a theorem also says which sets it needs to be finite. None of them
restricts what the code leaves open: they say that constants have the type they are used at, that None
is none of them, and that a threshold which the code fixes at 5 is positive.

- `SignalingProofs`: `TypeCorrect`, then what holds of the handlers (`HandlerInv`): where a
  handler is determines which of its locals are set, a room that is being created is known to
  nobody else, and one creator works on it.
  The inductive invariant `HubInv` adds what holds of the rooms (a vacant
  room is clean, a room not yet known has no arbitration, the first reporter is a member), that a
  creator is a member until his code is stored or rolled back, and that a verdict is on a battle
  already begun and the open battle has none. From it `VacantRoomIsCleanAlways`,
  `FirstReporterIsMemberAlways`, `OneVerdictAlways`. Each action is shown to have one of four
  effects on the battles (nothing, open, close, decide), each effect is a step of `Arbiter`, and
  `HubImplementsArbiter` follows. Facts about handlers are needed because
  the rollback of `CreateRoom` deletes the room but not its arbitration: it is clean only because
  nobody else knew the room. `NoGhostMemberAlways` needs one fact more, that whoever is in the hub is
  there by a handler that is not past the point where it would take him out, also while it is being
  replaced. `RatedOnceAlways` follows a verdict from the section that decides it to the call: a
  verdict waits with at most one of the three paths (`announcing`), what waits was not rated yet, and
  two verdicts that wait are of two battles. `DecidedAmongMembersAlways` is an action property of the same
  invariant, which no run lists.
- `FoldProofs`: `Best` in `Matchmaking` and the sum in `BalanceIsLedgerSum` are folds of the community
  modules, recursive functions on the subsets of a set that take out one chosen element after the other.
  The library's induction theorems cannot be used here, so `Induction` and
  `SmallestSubset` state induction of sets, not of formulas, from the well-foundedness of strict
  inclusion. `FoldIsDefined` says that such a function exists (without it nothing is known of the
  fold), `FoldsAgree` that folds over two sets are the same on what they share, `SumTakesOut` that a sum does not
  depend on the order, and `SumGrows` what one more element adds.
- `MatchmakingProofs`: `Inv` (types, locals of handlers, the bound on joins as a budget, the
  registry) gives `MatchmakingTypeCorrect` and `RegistryIsCurrentAlways`; `TicketInv` (join times
  were drawn, a ticket a handler holds is fresh, a ticket waits in one queue) gives
  `MatchmakingImplementsLobby`. `NoGhostEntryAlways` adds that a handler between its insertion and its
  registration still knows the mode it wants, so that its end removes the entry.
  `OpponentIsAlwaysClosest` has three parts: distance, join time and id are an order of the players in a
  snapshot (`BetterIsAnOrder`); the loop, whatever order it goes in, ends with the first of it
  (`BestIsFirst`); and `SnapshotOK`, that the queue and the snapshot are of users with a connection, is
  what makes them finitely many.
- `StoreProofs`: the inductive invariant `Inv` says where a handler is determines its locals
  (`JobOK`) and what its transaction has written (`TxOK`), that an entry written has a new key and
  is covered by the balance (`EntryOK`), that an order written was not paid before (`OrderOK`), and
  that no two transactions have written the same balance, key or order (`Locks`); the last is what
  keeps the others true when somebody else commits. From it `StoreTypeCorrect` (no balance is
  negative), `GoodsMatchPaymentsAlways`, `KeyEnteredOnceAlways` and `StoreImplementsLedger`.
  `StaleOnlyByLapseAlways` rests on `CacheInv`: a reader that fills the cache holds the balance as it read
  it, or the user has lapsed, and whoever commits a balance is the one who goes on to delete the cached one.
  `BalanceIsAlwaysLedgerSum` adds up: a commit is one step of the ledger, which enters one new entry and
  changes one balance by its amount. The definition of the balance in `docs/specs/11` thus holds of ledgers of
  any length; no run lists it, since the runs check `ImplementsLedger`, which has it step by step.
- `KothProofs`: the inductive invariant `Inv` says what a handler and the reset worker know of the
  king they read (`JobOK`, `ResetOK`: he still is king, has not lasted longer, is of a past
  period, was not yet paid), that a hill is locked by one transaction (`HillsLocked`), which is
  what keeps that knowledge true when others commit, and that a hill has one king (`OneKing`).
  The three steps that change `reigns` are each reduced to what they do to the table
  (`Seeding`, `Crowning`, `Closing`). From it `KothTypeCorrect`, `CreditsAreAlwaysEarned` and
  `KothImplementsHill`.

- `RatingsProofs`: the inductive invariant `RowsInv` says what a transaction knows of the rows it has
  read (`Holding`: it has the lock, and what it read is what is there), and which rows it has in which
  phase (`LocksOK`: before its first lock only rows it inserted itself, and at its first lock both
  rows exist or are its own insert). The first is what makes `Commit` a single step of `Elo`
  (`RatingsImplementElo`); the second gives `SomebodyAlwaysGoesOn`: of the transactions that wait at
  their second row take the one with the largest second id. The holder of that row has it as its
  first, waits at its second, and that one is larger. It needs the set of users to be finite and
  nothing else. `PointsInv` follows each credit from the result to the store
  (`PointsAreAlwaysWon`). `RatingsAreTyped` contains that ELO stays an integer and a level a level.
- `ServicesProofs`: `BestRankIsKept` rests on what a request knows when it asks for the credit, namely
  that the rank on record is not lower than the one it achieved: the upsert compares again. `SessionIsAlwaysOwners`
  rests on rows never changing their `sub` and ids being given in order. `ShutdownIsAlwaysOrderly` and
  `NobodyIsLeftBehind` rest on an invariant of the process: which clients are open in which stage of it, what runs
  in that stage, and that no entry is left unexcused once Redis is closed. `AlwaysServesAsConfigured` goes
  through the settings by their kinds. `CooldownAlwaysFollows` rests on `ReportsInv`: while nothing fails,
  somebody whose recent reports are enough is served or has a request whose count is still to come, since the
  last inserter counts after everybody's insertion; and whoever has a cooldown had enough recent reports in
  some table of rows so far (`WasDue`), which stays true because no row is changed. This needs nothing of the
  threshold and the window. `WindowIsIdle` says what the code's choice of them means: with a window
  of at least as many matches as the threshold, so many reports in all are so many recent ones. If one
  is not counted, take the latest such: the matches of the reports after it fill the window, and
  those reports are counted. `ClipsAlwaysMatchFiles` and `ConversionAlwaysClaimed` share `ClipsInv`: what an upload
  knows of its object and its row at each of its phases, that an eviction lists objects of rows that are
  gone for newer ones, that a claim is a conversion's or a faulty end's, and that ids grow. How many are
  left after an eviction is a count: the rows beyond the limit are those with at least as many newer ones
  of the owner as the limit, and the proof takes them out in order. `ServicesAlwaysTyped` puts the six
  invariants together (`ServicesInv`: a service has its invariant while it is the one that runs) and adds
  what bounds its counters: claims and requests that claim are no more than a run allows (`ClaimsOK`),
  a user has the account of a code of his own, so that ids are no more than codes (`IdsOK`), and a start is
  one of those allowed. Because the bounds count, it needs the requests and the codes to be finitely many.
- `ScreensProofs`: `PagesInv` is an invariant of both pages, in parts: `PageInv` (what the camera, the frames
  and the socket may be on a page that is mounted, left or gone), `BattleInv` (which timers, recorder and reports
  go with which phase) and `SearchInv` (who is in the queue when the socket is in which state). From it
  `NothingIsEverLeftOn` and `VerdictAlwaysFinal`. `PeerInv` is what was sent (`SentOK`: the join first, then
  what was said, all of it while the socket is open) and what was received (`ReceivedOK`: each candidate is in one
  of the places it may be in, and none waits once the description is set, unless a flush is under way);
  from it `NothingSaidIsEverLost`. `ClipsInv` puts `Inv` of `KothProofs` together with the table of clips: ids in
  order, rows of clips that were uploaded (`InOrder`), what each browser and the reset worker hold
  (`PlayOK`, `ExpiringOK`), and that an upload about to evict is not later than what the hill has (`Later`).
  From it `ClipAlwaysGivesWayToLater`, and `CreditsAreEarnedByPlayers` and `PlayersImplementHill`, which
  carry the two results about `Koth` over to challenges that come out of battles against clips. The three step lemmas of
  `PlayersImplementHill` are those of `KothImplementsHill`. All inductive invariants were model-checked on the
  instances of the runs before they were proved.

Only model-checked: the liveness properties (`ReportIsDecided`, `PeersAreReleased`, `WaitersArePaired`,
`PaymentIsGranted`, `StaleReignEnds`, `WinnerIsNotStranded`), which are out of reach of the prover. Every
invariant and every action property of the passing runs is stated by a theorem.

## Where the code and its documents disagree

The four violation runs above are listed with their quotes under "findings". Others that were
met while reading and are not runs:

- The end of a connection that was replaced forfeits the battle of the one that replaced it
  (`signaling_service.go:308`), though the comment at line 322 speaks of a leaving peer.
- `resolveTimeout` (comment at line 460: "the other member wins") decides for user id 0 when the
  reporter is alone in the room.
- A code resolved before the creator left joins an empty room (`JoinByCode`), whose client
  shows that both peers are in it.
- A third user enters a room whose Redis set expired, or was deleted by a late `RemoveRoom`,
  while two members are still in the hub.
- An old connection's `Leave` at `matchmaking` takes the entry and the registration of the
  user's newer connection.
- `reports` counts the reports of the last ten matches in which a player was reported
  (`cheat_repository.go:58-67`), where `docs/specs/09-reporting.md:8` ("5 репортов за последние 10
  матчей → авто-кулдаун 30 мин") and the comment at `reports_service.go:46-47` ("across their 10 most recent
  matches") promise his last ten matches. Matches without a report never push one out, and with
  five reports of ten matches nothing else does: any five reports start the cooldown, however old they
  are (`WindowIsIdle`). `CooldownFollowsReports` is about what the code counts.
- The socket a battle page opens for its reports never sends `join` (`Battle.tsx:172`), so the hub holds the
  socket of the video link, which does (`rtc/index.ts:189`). The server accepts reports from either, as it
  asks only for the user, and sends `outcome` to the one in the hub, where the client ignores it
  (`rtc/index.ts:315`). End to end the page then waits for a verdict that went to its other socket.
  `VerdictIsFinal` and `WinnerIsNotStranded` are about the page alone: what it does with an
  `outcome` once one arrives on its own socket.
- A face lost before the countdown ends is not reported and never will be (`Battle.tsx:298-301`): the
  battle starts with nobody there.
- `InviteRoom` shows a face gate and attaches no camera to it, so the gate does not open.
- `store` in Docker takes a zero for its cap and window of rewards as it is
  (`config.go:35-36`), where its file gives them defaults.
- `koth` accepts a negative interval of its worker, and `NewTicker` panics; thresholds of ranks have to
  ascend and may be negative.
- `reports` in Docker does not read the name of the session cookie, nor its settings of bug
  reports and the cooldown.
- The `matchmaking` process does not stop its matcher when the listener fails
  (`run_workers.go:28`), so it neither serves nor exits. `ShutdownIsOrderly` excepts it, so no
  property catches this.
- A handler of a websocket that leaves after `Run` closed Redis cannot take its entry out; the
  property excuses such entries.

## Not modelled, and the plan

Not modelled, for good: the pages that only show what one request answered, recording formats,
the logger, deployment, the mocks. The check of the internal token compares two strings, `health` answers.
The relay of SDP and ICE at `signaling` changes no state. What is behind interfaces the code only
calls (Google, Stripe, Telegram, ffmpeg, the browser) appears as the answers it may give.

The models of the services are not composed into one: between services there are only HTTP
calls whose failure the caller logs, so each model has a call's effects as its own history
(`rated`, `won`, `paid`, credits) and the callee's model receives such calls in any order, twice
and at once.

What could follow, in this order:

1. The limiter of rewarded distractions (`rewarded_rate_limiter.go:47`): an error between INCR and EXPIRE
   leaves a counter without a window. In `Store` it may give any answer.
2. The objects of king clips, which follow their rows as those of win clips do.
3. The face that is gone before the countdown ends, as a run of `Battle`.
