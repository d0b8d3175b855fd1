------------------------------ MODULE Reports ------------------------------
(***************************************************************************)
(* The reports service. A cheat report is inserted, the reports of the     *)
(* player's last matches are counted, and enough of them start his         *)
(* cooldown in Redis. A bug report of a computer stores its recording      *)
(* first, then its row, then tells Telegram.                               *)
(*                                                                         *)
(* Each step may fail on its own, or be done and reported as failed.       *)
(***************************************************************************)
EXTENDS Requests, Sequences

CONSTANTS
  Players,        \* users who report and are reported
  Matches,        \* match ids
  Threshold,      \* reports that start a cooldown
  LastNMatches,   \* of this many matches
  MaxReports      \* bound on requests

ASSUME ReportsAssumption ==
  /\ None \notin Players
  /\ Threshold \in Nat \ {0} /\ LastNMatches \in Nat /\ MaxReports \in Nat

VARIABLES
  cheatReports,   \* the rows, in the order of their insertion
  cooldown,       \* users whose cooldown key exists
  served,         \* users whose cooldown was set after the last row about them
  bugReports,     \* the rows: the number of the recording, or 0 for a mobile
  recordings,     \* stored objects, by number
  pphase,         \* where each request is
  report,         \* the cheat it reports
  bug,            \* the number of its recording
  requests

reportsVars == <<cheatReports, cooldown, served, bugReports, recordings, pphase, report, bug, requests>>

\* Whoever leaves the reporter out of the request reports as user 0.
Reporters == Players \cup {None}
CheatReport == [reporter : Reporters, reported : Players, match : Matches]
CheatPhases == {"upsert", "count", "cooldown"}
BugPhases == {"storeRecording", "insertBug"}

ReportsTypeOK ==
  /\ cheatReports \in Seq(CheatReport)
  /\ cooldown \in SUBSET Players
  /\ served \in SUBSET Players
  /\ bugReports \in SUBSET (0..MaxReports)
  /\ recordings \in SUBSET (1..MaxReports)
  /\ pphase \in [Workers -> CheatPhases \cup BugPhases \cup {"idle"}]
  /\ report \in [Workers -> CheatReport \cup {None}]
  /\ bug \in [Workers -> 0..MaxReports]
  /\ requests \in 0..MaxReports

ReportsInit ==
  /\ cheatReports = <<>>
  /\ cooldown = {}
  /\ served = {}
  /\ bugReports = {}
  /\ recordings = {}
  /\ pphase = [w \in Workers |-> "idle"]
  /\ report = [w \in Workers |-> None]
  /\ bug = [w \in Workers |-> 0]
  /\ requests = 0

----------------------------------------------------------------------------
Rows == {cheatReports[i] : i \in DOMAIN cheatReports}

\* The query of the count, on a table with these rows.
About(rows, u) == {i \in DOMAIN rows : rows[i].reported = u}

\* The matches with the latest reports about a user; a later report of a match moves it up.
\* A match in which nobody reported him is not in the table, however lately he played it.
Recent(rows, u) ==
  {m \in Matches :
     \E i \in About(rows, u) :
       /\ rows[i].match = m
       /\ Cardinality({rows[j].match : j \in {k \in About(rows, u) : k > i}} \ {m}) < LastNMatches}

CountRecent(rows, u) == Cardinality({i \in About(rows, u) : rows[i].match \in Recent(rows, u)})

Enough_More(n) == n > Threshold   \* mutation: more than the threshold
Enough(n) == n >= Threshold

Begin(w, p, r, n) ==
  /\ pphase[w] = "idle"
  /\ requests < MaxReports
  /\ requests' = requests + 1
  /\ pphase' = [pphase EXCEPT ![w] = p]
  /\ report' = [report EXCEPT ![w] = r]
  /\ bug' = [bug EXCEPT ![w] = n]
Proceed(w, p) == pphase' = [pphase EXCEPT ![w] = p] /\ UNCHANGED <<report, bug>>
EndReport(w) ==
  /\ pphase' = [pphase EXCEPT ![w] = "idle"]
  /\ report' = [report EXCEPT ![w] = None]
  /\ bug' = [bug EXCEPT ![w] = 0]

\* Whoever names himself as the reporter cannot report himself.
ReportCheat(w, r) ==
  /\ r.reporter = None \/ r.reporter # r.reported
  /\ Begin(w, "upsert", r, 0)
  /\ UNCHANGED <<cheatReports, cooldown, served, bugReports, recordings, faults>>

\* One report of a match by each reporter: a second one is dropped, whomever it is about.
Upsert(r) ==
  IF \E q \in Rows : q.reporter = r.reporter /\ q.match = r.match
    THEN UNCHANGED <<cheatReports, served>>
    ELSE cheatReports' = Append(cheatReports, r) /\ served' = served \ {r.reported}

UpsertCheatReport(w) ==
  /\ pphase[w] = "upsert"
  /\ \/ Upsert(report[w]) /\ Proceed(w, "count") /\ UNCHANGED faults
     \/ /\ Upsert(report[w]) \/ UNCHANGED <<cheatReports, served>>
        /\ Fault
        /\ EndReport(w)
  /\ UNCHANGED <<cooldown, bugReports, recordings, requests>>

CountRecentCheatReports(w) ==
  /\ pphase[w] = "count"
  /\ \/ Enough(CountRecent(cheatReports, report[w].reported)) /\ Proceed(w, "cooldown") /\ UNCHANGED faults
     \/ ~Enough(CountRecent(cheatReports, report[w].reported)) /\ EndReport(w) /\ UNCHANGED faults
     \/ Fault /\ EndReport(w)
  /\ UNCHANGED <<cheatReports, cooldown, served, bugReports, recordings, requests>>

\* An error of Redis is logged: the report was recorded.
SetCooldown(w) ==
  LET u == report[w].reported IN
  /\ pphase[w] = "cooldown"
  /\ \/ cooldown' = cooldown \cup {u} /\ served' = served \cup {u} /\ UNCHANGED faults
     \/ Fault /\ UNCHANGED <<cooldown, served>>
  /\ EndReport(w)
  /\ UNCHANGED <<cheatReports, bugReports, recordings, requests>>

\* The key runs out.
CooldownEnds(u) ==
  /\ u \in cooldown
  /\ cooldown' = cooldown \ {u}
  /\ UNCHANGED <<cheatReports, served, bugReports, recordings, pphase, report, bug, requests, faults>>

\* A computer sends a recording along, a mobile does not.
ReportBug(w) ==
  /\ \/ Begin(w, "storeRecording", None, requests + 1)
     \/ Begin(w, "insertBug", None, 0)
  /\ UNCHANGED <<cheatReports, cooldown, served, bugReports, recordings, faults>>

StoreRecording(w) ==
  /\ pphase[w] = "storeRecording"
  /\ \/ /\ recordings' = recordings \cup {bug[w]}
        /\ Proceed(w, "insertBug")
        /\ UNCHANGED faults
     \/ recordings' \in {recordings, recordings \cup {bug[w]}} /\ Fault /\ EndReport(w)
  /\ UNCHANGED <<cheatReports, cooldown, served, bugReports, requests>>

\* The row, and the note to Telegram, whose error is logged.
InsertBugReport(w) ==
  /\ pphase[w] = "insertBug"
  /\ \/ bugReports' = bugReports \cup {bug[w]} /\ UNCHANGED faults
     \/ bugReports' \in {bugReports, bugReports \cup {bug[w]}} /\ Fault
  /\ EndReport(w)
  /\ UNCHANGED <<cheatReports, cooldown, served, recordings, requests>>

\* The process ends, or the caller goes away.
AbortReport(w) ==
  /\ pphase[w] # "idle"
  /\ Fault
  /\ EndReport(w)
  /\ UNCHANGED <<cheatReports, cooldown, served, bugReports, recordings, requests>>

ReportsNext ==
  \/ \E w \in Workers :
       \/ \E r \in CheatReport : ReportCheat(w, r)
       \/ UpsertCheatReport(w) \/ CountRecentCheatReports(w) \/ SetCooldown(w)
       \/ ReportBug(w) \/ StoreRecording(w) \/ InsertBugReport(w)
       \/ AbortReport(w)
  \/ \E u \in Players : CooldownEnds(u)

ReportsSpec == ReportsInit /\ faults = 0 /\ [][ReportsNext]_<<reportsVars, faults>>

----------------------------------------------------------------------------
(* Properties *)

\* Some table of rows so far, the first n of them, had enough recent reports about a user.
WasDue(u) ==
  \E n \in 0..Len(cheatReports) : CountRecent([i \in 1..n |-> cheatReports[i]], u) >= Threshold

\* Reports of one player arrive together, each counting a table the others still write to, and
\* a report of another match may push the counted ones out of the window; yet once they are over,
\* and nothing failed, a player with enough recent reports had a cooldown begin after the last of
\* them, and nobody is in one who never had enough at a time, however many he had in all
\* (ReportCheat of reports_service.go inserts before it counts). A row of a bug never lacks its
\* recording, and a recording without a row is one of a request that goes on or failed.
CooldownFollowsReports ==
  /\ faults = 0 => \A u \in Players :
       CountRecent(cheatReports, u) >= Threshold =>
         \/ u \in served
         \/ \E w \in Workers : pphase[w] \in CheatPhases /\ report[w].reported = u
  /\ \A u \in cooldown : WasDue(u)
  /\ bugReports \ {0} \subseteq recordings
  /\ faults = 0 => \A n \in recordings \ bugReports :
       \E w \in Workers : pphase[w] = "insertBug" /\ bug[w] = n
============================================================================
