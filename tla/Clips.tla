------------------------------- MODULE Clips -------------------------------
(***************************************************************************)
(* The win clips of the media service: an upload puts the object, records  *)
(* its row and evicts the oldest clips of its owner; a request to convert  *)
(* claims the row and leaves a goroutine that outlives it and records how  *)
(* the conversion ended.                                                   *)
(*                                                                         *)
(* Each call of Postgres or of the object store may fail on its own, or be *)
(* done and reported as failed.                                            *)
(***************************************************************************)
EXTENDS Requests, Sequences

CONSTANTS
  Owners,        \* users who upload
  MaxClipsPerUser,
  MaxUploads,    \* bound on uploads, which number the objects
  MaxClaims      \* bound on conversions

ASSUME ClipsAssumption ==
  /\ None \notin Owners \cup Nat
  /\ MaxClipsPerUser \in Nat /\ MaxUploads \in Nat /\ MaxClaims \in Nat

VARIABLES
  clips,        \* every row there was, by id: its object and its owner
  status,       \* the conversion of a row; "absent" before and after there is a row
  webms,        \* objects in the store, by number
  mp4s,         \* mp4 objects in the store, by clip id: an eviction leaves them there
  cphase,       \* where each request is
  upload,       \* its owner, its object, and what it evicts
  asked,        \* the clip it wants converted
  conversions,  \* goroutines: [clip, claim, stage]
  uploads,      \* uploads so far
  claims,       \* conversions so far
  unanswered    \* objects whose row was recorded although Create reported an error

clipsVars == <<clips, status, webms, mp4s, cphase, upload, asked, conversions, uploads, claims, unanswered>>

Objects == 1..MaxUploads
Ids == 1..MaxUploads
Clip == [object : Objects, owner : Owners]
Upload == [owner : Owners \cup {None}, object : 0..MaxUploads, evicted : SUBSET Objects]
NoUpload == [owner |-> None, object |-> 0, evicted |-> {}]
Conversion == [clip : Ids, claim : 1..MaxClaims, stage : {"encode", "put", "done", "failed"}]

ClipsStateOK ==
  /\ clips \in Seq(Clip) /\ Len(clips) <= MaxUploads
  /\ status \in [Ids -> {"absent", "none", "pending", "done", "failed"}]
  /\ webms \in SUBSET Objects
  /\ mp4s \in SUBSET Ids
  /\ cphase \in [Workers -> {"idle", "put", "create", "cleanup", "evict", "remove", "claim"}]
  /\ upload \in [Workers -> Upload]
  /\ asked \in [Workers -> Ids \cup {0}]
  /\ conversions \in SUBSET Conversion
  /\ uploads \in 0..MaxUploads
  /\ claims \in 0..MaxClaims
  /\ unanswered \in SUBSET Objects

ClipsInit ==
  /\ clips = <<>>
  /\ status = [i \in Ids |-> "absent"]
  /\ webms = {}
  /\ mp4s = {}
  /\ cphase = [w \in Workers |-> "idle"]
  /\ upload = [w \in Workers |-> NoUpload]
  /\ asked = [w \in Workers |-> 0]
  /\ conversions = {}
  /\ uploads = 0
  /\ claims = 0
  /\ unanswered = {}

----------------------------------------------------------------------------
(* Uploads *)

\* GetByID, and the check that the row is the caller's own.
Owns(u, i) == status[i] # "absent" /\ clips[i].owner = u

\* ListByUser. A newer row has a higher id: two that are inserted at a time could be dated the other way.
ClipsOf(u) == {i \in DOMAIN clips : Owns(u, i)}

\* The rows an eviction deletes: those with as many newer rows as a user may have.
BeyondLimit_One(u) ==   \* mutation: OFFSET one too far
  {i \in ClipsOf(u) : Cardinality({j \in ClipsOf(u) : j > i}) > MaxClipsPerUser}
BeyondLimit(u) == {i \in ClipsOf(u) : Cardinality({j \in ClipsOf(u) : j > i}) >= MaxClipsPerUser}

Goto(w, p) == cphase' = [cphase EXCEPT ![w] = p]
EndUpload(w) == Goto(w, "idle") /\ upload' = [upload EXCEPT ![w] = NoUpload]

BeginUpload(w, u) ==
  /\ cphase[w] = "idle"
  /\ uploads < MaxUploads
  /\ uploads' = uploads + 1
  /\ upload' = [upload EXCEPT ![w] = [NoUpload EXCEPT !.owner = u, !.object = uploads + 1]]
  /\ Goto(w, "put")
  /\ UNCHANGED <<clips, status, webms, mp4s, asked, conversions, claims, unanswered, faults>>

PutClip(w) ==
  LET with == webms \cup {upload[w].object} IN
  /\ cphase[w] = "put"
  /\ \/ webms' = with /\ Goto(w, "create") /\ UNCHANGED <<upload, faults>>
     \/ webms' \in {webms, with} /\ Fault /\ EndUpload(w)
  /\ UNCHANGED <<clips, status, mp4s, asked, conversions, uploads, claims, unanswered>>

InsertRow(w) ==
  /\ clips' = Append(clips, [object |-> upload[w].object, owner |-> upload[w].owner])
  /\ status' = [status EXCEPT ![Len(clips) + 1] = "none"]

CreateClip(w) ==
  /\ cphase[w] = "create"
  /\ \/ InsertRow(w) /\ Goto(w, "evict") /\ UNCHANGED <<faults, unanswered>>
     \/ /\ Fault
        /\ Goto(w, "cleanup")
        /\ \/ UNCHANGED <<clips, status, unanswered>>
           \/ InsertRow(w) /\ unanswered' = unanswered \cup {upload[w].object}
  /\ UNCHANGED <<webms, mp4s, upload, asked, conversions, uploads, claims>>

\* Best effort: the object of a row that was not recorded.
CleanUp(w) ==
  /\ cphase[w] = "cleanup"
  /\ \/ webms' = webms \ {upload[w].object} /\ UNCHANGED faults
     \/ Fault /\ UNCHANGED webms
  /\ EndUpload(w)
  /\ UNCHANGED <<clips, status, mp4s, asked, conversions, uploads, claims, unanswered>>

\* DeleteOldestBeyondLimit: an error is logged, and what it deleted is not known.
EvictOldest(w) ==
  LET gone == BeyondLimit(upload[w].owner)
      without == [i \in Ids |-> IF i \in gone THEN "absent" ELSE status[i]]
  IN /\ cphase[w] = "evict"
     /\ \/ /\ status' = without
           /\ upload' = [upload EXCEPT ![w].evicted = {clips[i].object : i \in gone}]
           /\ Goto(w, "remove")
           /\ UNCHANGED faults
        \/ status' \in {status, without} /\ Fault /\ EndUpload(w)
     /\ UNCHANGED <<clips, webms, mp4s, asked, conversions, uploads, claims, unanswered>>

\* One object after the other; an error is logged.
RemoveEvicted(w) ==
  /\ cphase[w] = "remove"
  /\ \/ upload[w].evicted = {} /\ EndUpload(w) /\ UNCHANGED <<webms, faults>>
     \/ \E k \in upload[w].evicted :
          /\ upload' = [upload EXCEPT ![w].evicted = @ \ {k}]
          /\ \/ webms' = webms \ {k} /\ UNCHANGED faults
             \/ Fault /\ UNCHANGED webms
          /\ UNCHANGED cphase
  /\ UNCHANGED <<clips, status, mp4s, asked, conversions, uploads, claims, unanswered>>

----------------------------------------------------------------------------
(* Conversions *)

\* What the claim requires of the row it updates.
Claimable_Any(i) == status[i] # "absent"   \* mutation: whatever its status
Claimable(i) == status[i] \in {"none", "failed"}

\* RequestConvert reads the row: a done or pending one is answered as it is.
RequestConvert(w, u, i) ==
  /\ cphase[w] = "idle"
  /\ Owns(u, i)
  /\ status[i] \notin {"done", "pending"}
  /\ claims + Cardinality({v \in Workers : cphase[v] = "claim"}) < MaxClaims
  /\ Goto(w, "claim")
  /\ asked' = [asked EXCEPT ![w] = i]
  /\ UNCHANGED <<clips, status, webms, mp4s, upload, conversions, uploads, claims, unanswered, faults>>

\* The row may have been claimed or deleted since. Who claims it starts the goroutine; who
\* claims it and is told of an error does not.
ClaimConversion(w) ==
  LET i == asked[w]
      pending == [status EXCEPT ![i] = "pending"]
  IN /\ cphase[w] = "claim"
     /\ \/ /\ Claimable(i)
           /\ status' = pending
           /\ claims' = claims + 1
           /\ conversions' = conversions \cup {[clip |-> i, claim |-> claims + 1, stage |-> "encode"]}
           /\ UNCHANGED faults
        \/ ~Claimable(i) /\ UNCHANGED <<status, claims, conversions, faults>>
        \/ /\ Claimable(i)
           /\ status' \in {status, pending}
           /\ Fault
           /\ UNCHANGED <<claims, conversions>>
     /\ Goto(w, "idle")
     /\ asked' = [asked EXCEPT ![w] = 0]
     /\ UNCHANGED <<clips, webms, mp4s, upload, uploads, unanswered>>

Stage(c, s) == conversions' = (conversions \ {c}) \cup {[c EXCEPT !.stage = s]}

\* The object is fetched and encoded: it may be gone by then, and ffmpeg may fail or run out of time.
Encode(c) ==
  /\ c.stage = "encode"
  /\ \/ clips[c.clip].object \in webms /\ Stage(c, "put") /\ UNCHANGED faults
     \/ clips[c.clip].object \notin webms /\ Stage(c, "failed") /\ UNCHANGED faults
     \/ Fault /\ Stage(c, "failed")
  /\ UNCHANGED <<clips, status, webms, mp4s, cphase, upload, asked, uploads, claims, unanswered>>

PutMP4(c) ==
  /\ c.stage = "put"
  /\ \/ mp4s' = mp4s \cup {c.clip} /\ Stage(c, "done") /\ UNCHANGED faults
     \/ mp4s' \in {mp4s, mp4s \cup {c.clip}} /\ Fault /\ Stage(c, "failed")
  /\ UNCHANGED <<clips, status, webms, cphase, upload, asked, uploads, claims, unanswered>>

\* Of a row that is gone there is nothing to update.
UpdateConversion(c) ==
  IF status[c.clip] = "absent" THEN status ELSE [status EXCEPT ![c.clip] = c.stage]

\* The last thing a goroutine does; an error is logged.
RecordConvStatus(c) ==
  /\ c.stage \in {"done", "failed"}
  /\ \/ status' = UpdateConversion(c) /\ UNCHANGED faults
     \/ status' \in {status, UpdateConversion(c)} /\ Fault
  /\ conversions' = conversions \ {c}
  /\ UNCHANGED <<clips, webms, mp4s, cphase, upload, asked, uploads, claims, unanswered>>

\* The process ends, its goroutines with it.
ClipsCrash ==
  /\ Fault
  /\ cphase' = [w \in Workers |-> "idle"]
  /\ upload' = [w \in Workers |-> NoUpload]
  /\ asked' = [w \in Workers |-> 0]
  /\ conversions' = {}
  /\ UNCHANGED <<clips, status, webms, mp4s, uploads, claims, unanswered>>

ClipsNext ==
  \/ \E w \in Workers :
       \/ \E u \in Owners : BeginUpload(w, u)
       \/ PutClip(w) \/ CreateClip(w) \/ CleanUp(w) \/ EvictOldest(w) \/ RemoveEvicted(w)
       \/ \E u \in Owners, i \in Ids : RequestConvert(w, u, i)
       \/ ClaimConversion(w)
  \/ \E c \in conversions : Encode(c) \/ PutMP4(c) \/ RecordConvStatus(c)
  \/ ClipsCrash

ClipsSpec == ClipsInit /\ faults = 0 /\ [][ClipsNext]_<<clipsVars, faults>>

----------------------------------------------------------------------------
(* What is answered about a clip *)

\* The object a download link leads to: that of a row of the caller's own.
DownloadURL(u, i) == IF Owns(u, i) THEN clips[i].object ELSE None

\* A link to the mp4, or that it failed, or that it is not there.
GetMP4URL(u, i) ==
  CASE ~Owns(u, i) -> "not_found"
    [] status[i] = "done" -> "link"
    [] status[i] = "failed" -> "failed"
    [] OTHER -> "not_done"

(* Properties *)

\* Rows and objects change one after the other and either may fail, but a link a user is given
\* leads to an object, unless the row is one whose Create was reported as failed; an object
\* without a row is one of a request that goes on or of a fault; a clip was evicted for newer ones
\* only, and nobody keeps more than he may once his uploads are over (Upload of clip_service.go,
\* DeleteOldestBeyondLimit of clip_repository.go).
ClipsMatchFiles ==
  /\ \A u \in Owners, i \in Ids :
       DownloadURL(u, i) \notin {None} \cup unanswered => DownloadURL(u, i) \in webms
  /\ faults = 0 => \A k \in webms :
       \/ \E i \in DOMAIN clips : clips[i].object = k /\ status[i] # "absent"
       \/ \E w \in Workers : cphase[w] = "create" /\ upload[w].object = k
       \/ \E w \in Workers : k \in upload[w].evicted
  /\ \A i \in DOMAIN clips : status[i] = "absent" =>
       Cardinality({j \in DOMAIN clips : j > i /\ clips[j].owner = clips[i].owner}) >= MaxClipsPerUser
  /\ faults = 0 => \A u \in Owners :
       \/ Cardinality(ClipsOf(u)) <= MaxClipsPerUser
       \/ \E w \in Workers : cphase[w] = "evict" /\ upload[w].owner = u

\* However many requests to convert a clip race, one goroutine at most works on it; a pending clip
\* is worked on as long as nothing fails; and the link of a converted clip leads to an mp4
\* (RequestConvert and doConvert of clip_service.go; ClaimConversion is all that keeps two
\* requests that read the same status apart).
ConversionIsClaimed ==
  /\ \A c, d \in conversions : c.clip = d.clip => c = d
  /\ \A c \in conversions : status[c.clip] \in {"pending", "absent"}
  /\ faults = 0 => \A i \in Ids :
       status[i] = "pending" => \E c \in conversions : c.clip = i
  /\ \A u \in Owners, i \in Ids : GetMP4URL(u, i) = "link" => i \in mp4s
============================================================================
