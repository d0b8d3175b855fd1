------------------------------- MODULE Config -------------------------------
(***************************************************************************)
(* How the services read their configuration: from the environment in      *)
(* Docker, from a YAML file otherwise, with the validation that follows.   *)
(*                                                                         *)
(* A setting is abstracted to what was written for it (Raws) and to what   *)
(* becomes of that in either place; the text or the number itself does not *)
(* matter. One setting at a time is odd, the others have good values.      *)
(***************************************************************************)
EXTENDS Naturals

Sources == {"env", "file"}
Raws == {"unset", "malformed", "zero", "negative", "excessive", "good"}
Outcomes == (Raws \ {"unset", "malformed"}) \cup {"error", "empty", "default", "shorter"}

\* A text is what was written; nothing is malformed.
Text(unset) == [r \in Raws |-> IF r = "unset" THEN unset ELSE "good"]

Number(unset, malformed, zero) ==
  [r \in Raws |-> CASE r = "unset" -> unset [] r = "malformed" -> malformed
                    [] r = "zero" -> zero [] OTHER -> r]

\* What it becomes in the environment and in a file, and what the validation asks of it.
Setting(env, file, need) == [env |-> env, file |-> file, need |-> need]

Refused ==
  [any |-> {}, given |-> {"empty"}, nonzero |-> {"zero"}, positive |-> {"zero", "negative"},
   belowPvP |-> {"zero", "negative", "excessive"}, ascending |-> {"empty", "excessive"}]

----------------------------------------------------------------------------
(* Kinds of settings *)

Required == Setting(Text("empty"), Text("empty"), "given")
Defaulted == Setting(Text("default"), Text("default"), "given")
Optional == Setting(Text("empty"), Text("empty"), "any")

\* Signaling's durations: whatever the environment holds that is no duration is as good as nothing.
Lenient == Setting(Number("default", "default", "default"), Number("default", "error", "default"), "any")

\* Matchmaking's level distance and time until the fallback: the same.
Pairing == Setting(Number("default", "default", "default"), Number("default", "error", "default"), "any")

\* Media's terms of clips and links, and its limit of an upload: a zero is a zero.
Term == Setting(Number("default", "error", "zero"), Number("default", "error", "zero"), "any")
UploadLimit == Setting(Number("default", "error", "zero"), Number("default", "error", "default"), "any")

\* The store's rewarded grants: a zero in the environment is a zero, one in the file is not.
Grants_Unchecked ==   \* mutation: Atoi's error is dropped
  Setting(Number("default", "zero", "zero"), Number("default", "error", "default"), "any")
Grants == Setting(Number("default", "error", "zero"), Number("default", "error", "default"), "any")
Amounts == Setting(Number("empty", "error", "good"), Number("empty", "error", "good"), "any")

SessionTTL == Setting(Number("default", "default", "zero"), Number("default", "error", "default"), "nonzero")

\* Koth reads a value that is no number as zero and leaves it to the validation.
Interval == Setting(Number("zero", "zero", "zero"), Number("zero", "error", "zero"), "nonzero")
Points(need) == Setting(Number("zero", "zero", "zero"), Number("zero", "error", "zero"), need)

\* An entry that is no number is left out of the list.
RankThresholds == Setting(Number("empty", "shorter", "zero"), Number("empty", "error", "zero"), "ascending")

\* The knobs of reports are read from a file only; what is not positive has a default in the app.
Cooldown == Setting([r \in Raws |-> "default"],
                    [r \in Raws |-> CASE r = "malformed" -> "error" [] r = "good" -> "good"
                                      [] r = "excessive" -> r [] OTHER -> "default"], "any")
Recording == Setting([r \in Raws |-> "default"], Number("default", "error", "default"), "any")
FileOnly == Setting([r \in Raws |-> "default"], Text("default"), "any")

----------------------------------------------------------------------------
(* The settings of each service *)

AuthSettings ==
  [addr |-> Defaulted, dsn |-> Required, redis |-> Required, password |-> Optional,
   client_id |-> Required, client_secret |-> Required, redirect_url |-> Required,
   cookie |-> Defaulted, session_ttl |-> SessionTTL]

HealthSettings == [addr |-> Defaulted]

KothSettings ==
  [addr |-> Defaulted, dsn |-> Required, redis |-> Required, password |-> Optional,
   cookie |-> Defaulted, thresholds |-> RankThresholds, store_url |-> Required,
   media_url |-> Required, check_interval |-> Interval, win_amount |-> Points("belowPvP"),
   rank_amount |-> Points("belowPvP"), pvp_win_amount |-> Points("positive"), token |-> Optional]

MatchmakingSettings ==
  [addr |-> Defaulted, redis |-> Required, password |-> Optional, cookie |-> Defaulted,
   level_distance |-> Pairing, fallback_after |-> Pairing,
   ratings_url |-> Required, reports_url |-> Required]

MediaSettings ==
  [addr |-> Defaulted, dsn |-> Required, endpoint |-> Required, access_key |-> Required,
   secret_key |-> Required, bucket |-> Required, redis |-> Required, password |-> Optional,
   cookie |-> Defaulted, max_upload |-> UploadLimit, download_ttl |-> Term, daily_ttl |-> Term,
   monthly_ttl |-> Term, ranked_ttl |-> Term, token |-> Optional]

RatingsSettings ==
  [addr |-> Defaulted, dsn |-> Required, redis |-> Required, password |-> Optional,
   store_url |-> Required, token |-> Optional]

ReportsSettings ==
  [addr |-> Defaulted, dsn |-> Required, redis |-> Required, password |-> Optional,
   endpoint |-> Required, access_key |-> Required, secret_key |-> Required, bucket |-> Required,
   bot_token |-> Required, chat_id |-> Required, cookie |-> FileOnly,
   cooldown |-> Cooldown, max_upload |-> Recording, prefix |-> FileOnly]

SignalingSettings ==
  [addr |-> Defaulted, redis |-> Required, password |-> Optional, cookie |-> Defaulted,
   room_ttl |-> Lenient, room_code_ttl |-> Lenient, keepalive_interval |-> Lenient,
   ping_timeout |-> Lenient, confirmation_buffer |-> Lenient, ratings_url |-> Required]

StoreSettings ==
  [addr |-> Defaulted, dsn |-> Required, redis |-> Required, password |-> Optional,
   cookie |-> Defaulted, secret_key |-> Required, webhook_secret |-> Required,
   amounts |-> Amounts, cap |-> Grants, window |-> Grants, token |-> Optional]

Settings ==
  [auth |-> AuthSettings, health |-> HealthSettings, koth |-> KothSettings,
   matchmaking |-> MatchmakingSettings, media |-> MediaSettings, ratings |-> RatingsSettings,
   reports |-> ReportsSettings, signaling |-> SignalingSettings, store |-> StoreSettings]

Apps == DOMAIN Settings

\* What a process runs with when one setting is odd, or the error that ends it.
Load(app, source, odd, raw) ==
  LET s == Settings[app][odd] IN
  LET value == s[source][raw] IN
  IF value \in Refused[s.need] THEN "error" ELSE value
============================================================================
