---------------------------- MODULE KingClips ----------------------------
(***************************************************************************)
(* King of the hill as it is played: the players' browsers, the king clips *)
(* of the media service and the hills of the koth service. A player is     *)
(* shown the clip of a hill and holds until he blinks or the king of the   *)
(* clip does; his browser uploads his own attempt as a clip of the hill    *)
(* and, with its id, challenges. The clips in the object store follow      *)
(* their rows and are left out. A player plays once at a time.             *)
(***************************************************************************)
EXTENDS Koth

VARIABLES
  clips,     \* what was ever uploaded, by id: the hill and the blink
  rows,      \* the table king_clips, as ids
  dropped,   \* the clips deleted by their owner or by the reset, or past their term
  play       \* of each player, where his browser and its upload are

cvars == <<clips, rows, dropped>>
vars == <<kvars, cvars, play>>

----------------------------------------------------------------------------
(* Types *)

Clip == [hill : Hills, blink : 0..MaxMs]
ASSUME ClipAssumption == None \notin Clip /\ Clips \subseteq Nat

\* against, outlasted: the reign when the clip was shown, and whether it was outlasted.
Play == [phase : {"battle", "creating", "evicting", "uploaded", "challenging"}, hill : Hills,
         shown : Clips \cup {None}, against : Reigns \cup {None}, outlasted : BOOLEAN,
         ms : 0..MaxMs, clip : Clips \cup {None}]
Away == None

ClipsTypeOK ==
  /\ TypeOK
  /\ clips \in [Clips -> Clip \cup {None}]
  /\ rows \subseteq Clips /\ dropped \subseteq Clips
  /\ play \in [Users -> Play \cup {Away}]

ClipsInit ==
  /\ Init
  /\ clips = [c \in Clips |-> None]
  /\ rows = {} /\ dropped = {}
  /\ play = [u \in Users |-> Away]

----------------------------------------------------------------------------
(* The media service *)

IsNextClip(c) == clips[c] = None /\ \A d \in Clips : d < c => clips[d] # None

\* GetCurrent: the last one of the hill. created_at is taken to follow the id.
IsShown(c, h) ==
  /\ c \in rows /\ clips[c].hill = h
  /\ \A d \in rows : clips[d].hill = h => d <= c
Shown_Zero(h) ==   \* mutation: the zero value for no clip
  IF \E c \in rows : clips[c].hill = h THEN CHOOSE c \in rows : IsShown(c, h) ELSE 0
Shown(h) == IF \E c \in rows : clips[c].hill = h THEN CHOOSE c \in rows : IsShown(c, h) ELSE None

\* DeleteSupersededByHill.
Superseded_Others(c) == {d \in rows : clips[d].hill = clips[c].hill /\ d # c}   \* mutation
Superseded(c) == {d \in rows : clips[d].hill = clips[c].hill /\ d < c}

Step(u, p) == play[u] # Away /\ play[u].phase = p
Become(u, p) == play' = [play EXCEPT ![u].phase = p]
Leave(u) == play' = [play EXCEPT ![u] = Away]

\* Upload: the object, then the row, whose id is drawn before it is committed ...
Create(u) ==
  /\ Step(u, "creating")
  /\ rows' = rows \cup {play[u].clip}
  /\ Become(u, "evicting")
  /\ UNCHANGED <<kvars, clips, dropped>>

\* ... then the older clips of the hill are deleted.
Evict(u) ==
  /\ Step(u, "evicting")
  /\ rows' = rows \ Superseded(play[u].clip)
  /\ Become(u, "uploaded")
  /\ UNCHANGED <<kvars, clips, dropped>>

\* The row is not inserted, or nothing is evicted, which is not reported.
FailUpload(u) ==
  /\ MayFail
  /\ \/ Step(u, "creating") /\ Leave(u)
     \/ Step(u, "evicting") /\ Become(u, "uploaded")
  /\ UNCHANGED <<reigns, handlers, reset, credits, day, cvars>>

Delete(c) ==
  /\ rows' = rows \ {c}
  /\ dropped' = dropped \cup {c}
  /\ UNCHANGED clips

\* Its owner deletes a clip, or its term ends, after which it is not shown.
Lapse(c) ==
  /\ c \in rows
  /\ Delete(c)
  /\ UNCHANGED <<kvars, play>>

----------------------------------------------------------------------------
(* The browser *)

\* The screen of the battle opens and loads the clip of the hill, if there is one.
Watch(u, h) ==
  /\ play[u] = Away
  /\ play' = [play EXCEPT ![u] =
       [phase |-> "battle", hill |-> h, shown |-> Shown(h),
        against |-> IF Vacant(h) THEN None ELSE CHOOSE r \in Reigns : IsKing(r, h),
        outlasted |-> FALSE, ms |-> 0, clip |-> None]]
  /\ UNCHANGED <<kvars, cvars>>

\* The player blinks after ms, or the timer of the shown clip fires by then; the upload begins.
HandleOutcome(u, ms) ==
  LET c == play[u].shown
      outlasted == c # None /\ ms >= clips[c].blink
      held == IF outlasted THEN clips[c].blink ELSE ms IN
  /\ Step(u, "battle")
  /\ \E d \in Clips :
       /\ IsNextClip(d)
       /\ clips' = [clips EXCEPT ![d] = [hill |-> play[u].hill, blink |-> held]]
       /\ play' = [play EXCEPT ![u] = [@ EXCEPT
            !.phase = "creating", !.clip = d, !.ms = held, !.outlasted = outlasted]]
  /\ UNCHANGED <<kvars, rows, dropped>>

PlayChallenge(u, w) ==
  /\ Step(u, "uploaded")
  /\ Challenge(w, play[u].hill, u, play[u].ms, play[u].clip)
  /\ Become(u, "challenging")
  /\ UNCHANGED cvars

\* The answer; or the player closes the screen before he uploads or challenges.
Quit(u) ==
  /\ \/ Step(u, "challenging") /\ \A w \in Workers : job[w] # NoJob => job[w].user # u
     \/ Step(u, "battle") \/ Step(u, "uploaded")
  /\ Leave(u)
  /\ UNCHANGED <<kvars, cvars>>

\* The hill is seeded with a clip that is uploaded for it.
SeedWithClip(h, ms) ==
  /\ \E c \in Clips :
       /\ IsNextClip(c)
       /\ Seed(h, ms, c)
       /\ clips' = [clips EXCEPT ![c] = [hill |-> h, blink |-> ms]]
       /\ rows' = (rows \cup {c}) \ {d \in rows : clips[d].hill = h}
  /\ UNCHANGED <<dropped, play>>

\* The clip of a king whose reign the reset ended.
ExpireByID ==
  /\ ExpireKingClip
  /\ Delete(reigns[reset.king].clip)
  /\ UNCHANGED play

----------------------------------------------------------------------------
ClipsNext ==
  \/ \E u \in Users :
       \/ \E h \in Hills : Watch(u, h)
       \/ \E ms \in 0..MaxMs : HandleOutcome(u, ms)
       \/ \E w \in Workers : PlayChallenge(u, w)
       \/ Create(u) \/ Evict(u) \/ FailUpload(u) \/ Quit(u)
  \/ \E h \in Hills, ms \in 0..MaxMs : SeedWithClip(h, ms)
  \/ \E c \in Clips : Lapse(c)
  \/ ExpireByID
  \/ ServiceNext /\ UNCHANGED <<cvars, play>>

ClipsSpec == ClipsInit /\ [][ClipsNext]_vars

----------------------------------------------------------------------------
(* Properties *)

\* The clip of a hill gives way only to a later one, whatever uploads cross, unless its owner or
\* the reset deletes it (king_clip_service.go Upload, "evict superseded king clips").
ClipGivesWayToLater ==
  [][\A h \in Hills, s \in rows :
       IsShown(s, h) => \E c \in rows' \cup dropped' : clips'[c].hill = h /\ c >= s]_vars

\* "outlasting the king clip's OWN blink_ts_ms without blinking" is "the actual win condition"
\* (KothBattle.tsx:190): a challenge that did, with the king still the one it was begun
\* against, is not lost.
OutlastingWins ==
  [][\A w \in Workers :
       Lost(w) => LET p == play[job[w].user] IN
         ~(p.outlasted /\ p.against # None /\ IsKing(p.against, p.hill))]_vars
==========================================================================
