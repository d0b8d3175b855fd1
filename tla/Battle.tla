------------------------------- MODULE Battle -------------------------------
(***************************************************************************)
(* The battle page: a sanity check, a countdown, the live battle, and what  *)
(* follows the verdict the arbitration socket delivers. Timers, animation   *)
(* frames, the camera, the verdict and the player come in any order.        *)
(***************************************************************************)
EXTENDS Screen

CONSTANT CountdownSeconds

ASSUME BattleAssumption == CountdownSeconds \in Nat \ {0}

VARIABLES
  phaseRef,     \* the phase of the page, from the sanity check to the results
  sanityTimer,  \* the timer of the sanity check is armed
  remaining,    \* seconds of the countdown; 0 while its interval is not armed
  ring,         \* ringBufferStartedRef
  capture,      \* the winner's clip: "none", "recording", "uploading" or "over"
  recorder,     \* a MediaRecorder of the recording engine is live
  rtc,          \* the peer: "none", "live" or "closed"
  reported,     \* kinds of reports the socket accepted
  heard         \* the verdict the page has heard: "none", "win" or "loss"

battleVars == <<phaseRef, sanityTimer, remaining, ring, capture, recorder, rtc, reported, heard>>

BattleTypeOK ==
  /\ phaseRef \in {"sanity", "countdown", "battle", "win-edit", "loss-edit", "done"}
  /\ sanityTimer \in BOOLEAN
  /\ remaining \in 0..CountdownSeconds
  /\ ring \in BOOLEAN
  /\ capture \in {"none", "recording", "uploading", "over"}
  /\ recorder \in BOOLEAN
  /\ rtc \in {"none", "live", "closed"}
  /\ reported \in SUBSET {"blink", "face_lost"}
  /\ heard \in {"none", "win", "loss"}

BattleInit ==
  /\ phaseRef = "sanity"
  /\ sanityTimer = TRUE
  /\ remaining = 0
  /\ ring = FALSE
  /\ capture = "none"
  /\ recorder = FALSE
  /\ rtc = "none"
  /\ reported = {}
  /\ heard = "none"

----------------------------------------------------------------------------
(* Leaving the battle *)

\* stop of the recording engine: its recorder, its stream and its audio.
RecorderStops == recorder' = FALSE

\* The cleanup of RtcComponent, and its connect once there is a stream.
PeerUnmounts == rtc' = (IF rtc = "live" THEN "closed" ELSE rtc)
PeerConnects == rtc' = (IF camera' = "live" THEN "live" ELSE rtc)

\* The timers are cleared, the socket closed, the recorder and the camera stopped; once only.
Teardown ==
  IF tornDown
    THEN UNCHANGED <<tornDown, sanityTimer, remaining, socket, recorder, camera>>
    ELSE /\ tornDown' = TRUE
         /\ sanityTimer' = FALSE
         /\ remaining' = 0
         /\ socket' = Closed
         /\ RecorderStops
         /\ camera' = (IF camera = "live" THEN "off" ELSE camera)

RouteToResults == phaseRef' = "done" /\ Teardown /\ Navigate("results")

\* The children clean up first: the peer and the recorder are closed whoever tore the page down.
Unmount ==
  /\ CleanedUp
  /\ sanityTimer' = (sanityTimer /\ tornDown)
  /\ remaining' = (IF tornDown THEN remaining ELSE 0)
  /\ RecorderStops
  /\ PeerUnmounts
  /\ UNCHANGED <<phaseRef, ring, capture, reported, heard>>

----------------------------------------------------------------------------
(* The way into the battle *)

\* The ring buffer starts once, when the battle has begun and there is a stream.
StartsRing_Early(p, c) == ~ring /\ c = "live"   \* mutation: it does not wait for the battle
StartsRing(p, c) == ~ring /\ p = "battle" /\ c = "live"
MaybeStartRingBuffer == ring' = (ring \/ StartsRing(phaseRef', camera'))

SanityCheck ==
  /\ sanityTimer
  /\ sanityTimer' = FALSE
  /\ facePresent
  /\ phaseRef' = "countdown"
  /\ remaining' = CountdownSeconds
  /\ UNCHANGED <<screenVars, ring, capture, recorder, rtc, reported, heard>>

SanityCheckFails ==
  /\ sanityTimer
  /\ ~facePresent
  /\ RouteToResults
  /\ UNCHANGED <<engine, raf, facePresent, ring, capture, rtc, reported, heard>>

CountdownTick ==
  /\ remaining > 0
  /\ remaining' = remaining - 1
  /\ phaseRef' = (IF remaining = 1 THEN "battle" ELSE phaseRef)
  /\ UNCHANGED <<screenVars, sanityTimer, capture, recorder, rtc, reported, heard>>
  /\ IF remaining = 1 THEN MaybeStartRingBuffer ELSE UNCHANGED ring

\* The stream starts the ring buffer if the battle has begun, and is what the peer connects with.
StreamArrives ==
  /\ CameraAnswers
  /\ PeerConnects
  /\ UNCHANGED <<phaseRef, sanityTimer, remaining, capture, recorder, reported, heard>>
  /\ MaybeStartRingBuffer

\* The other peer left, or the signaling server answered with an error.
PeerCloses ==
  /\ rtc = "live"
  /\ rtc' = "closed"
  /\ UNCHANGED <<screenVars, phaseRef, sanityTimer, remaining, ring, capture, recorder, reported, heard>>

SocketOpens ==
  /\ socket = "connecting"
  /\ socket' = "open"
  /\ UNCHANGED <<page, shown, camera, engine, raf, facePresent, tornDown, battleVars>>

----------------------------------------------------------------------------
(* Frames. A callback that throws ends the loop of frames: it is thrown before the next is scheduled. *)

Report(kind) ==
  IF phaseRef = "battle"
    THEN /\ raf' = ~SendThrows
         /\ reported' = IF Delivers THEN reported \cup {kind} ELSE reported
    ELSE UNCHANGED <<raf, reported>>

NoFaceFrame ==
  /\ raf
  /\ camera = "live"
  /\ engine' = AfterNoFace(engine)
  /\ IF FiresFaceLost(engine)
       THEN facePresent' = FALSE /\ Report("face_lost")
       ELSE UNCHANGED <<facePresent, raf, reported>>
  /\ UNCHANGED <<page, shown, camera, socket, tornDown>>
  /\ UNCHANGED <<phaseRef, sanityTimer, remaining, ring, capture, recorder, rtc, heard>>

FaceFrame(closed) ==
  /\ raf
  /\ camera = "live"
  /\ engine' = AfterFace(engine, closed)
  /\ facePresent' = (facePresent \/ FiresFacePresent(engine))
  /\ IF FiresBlink(engine, closed) THEN Report("blink") ELSE UNCHANGED <<raf, reported>>
  /\ UNCHANGED <<page, shown, camera, socket, tornDown>>
  /\ UNCHANGED <<phaseRef, sanityTimer, remaining, ring, capture, recorder, rtc, heard>>

----------------------------------------------------------------------------
(* The verdict *)

\* captureWin records; without a ring buffer, or a recorder, it rejects in the same turn.
HearWin ==
  /\ Delivers /\ heard = "none"
  /\ heard' = "win"
  /\ \/ /\ ring
        /\ phaseRef' = "win-edit"
        /\ capture' = "recording"
        /\ recorder' = TRUE
        /\ UNCHANGED <<page, shown, camera, socket, tornDown, sanityTimer, remaining>>
     \/ capture' = "over" /\ RouteToResults
  /\ UNCHANGED <<engine, raf, facePresent, ring, rtc, reported>>

\* The server decides against a player who reported against himself.
HearLoss ==
  /\ Delivers /\ heard = "none"
  /\ reported # {}
  /\ heard' = "loss"
  /\ phaseRef' = "loss-edit"
  /\ UNCHANGED <<screenVars, sanityTimer, remaining, ring, capture, recorder, rtc, reported>>

\* The recording ends with its slot; whatever became of the recorder, the clip is uploaded.
EditSlotEnds ==
  /\ capture = "recording"
  /\ capture' = "uploading"
  /\ recorder' = FALSE
  /\ UNCHANGED <<screenVars, phaseRef, sanityTimer, remaining, ring, rtc, reported, heard>>

\* The clip is uploaded and its conversion asked for, or either fails.
Proceed_Uploaded ==   \* mutation: a failure is not caught
  \/ RouteToResults
  \/ UNCHANGED <<page, shown, camera, socket, tornDown, phaseRef, sanityTimer, remaining, recorder>>
Proceed == RouteToResults
UploadEnds ==
  /\ capture = "uploading"
  /\ capture' = "over"
  /\ Proceed
  /\ UNCHANGED <<engine, raf, facePresent, ring, rtc, reported, heard>>

SkipEdit ==
  /\ phaseRef = "loss-edit" /\ page = "mounted"
  /\ RouteToResults
  /\ UNCHANGED <<engine, raf, facePresent, ring, capture, rtc, reported, heard>>

BattleNext ==
  \/ SanityCheck \/ SanityCheckFails \/ CountdownTick
  \/ StreamArrives \/ PeerCloses \/ SocketOpens
  \/ SocketLost /\ UNCHANGED battleVars
  \/ NoFaceFrame
  \/ \E closed \in SUBSET EyeNames : FaceFrame(closed)
  \/ HearWin \/ HearLoss \/ EditSlotEnds \/ UploadEnds \/ SkipEdit
  \/ UserLeaves /\ UNCHANGED battleVars
  \/ Unmount

\* What the browser does by itself: a recording ends, an upload is answered or fails.
BattleFairness ==
  /\ WF_<<screenVars, battleVars>>(EditSlotEnds)
  /\ WF_<<screenVars, battleVars>>(UploadEnds)

BattleSpec ==
  /\ ScreenInit("connecting", "asking") /\ BattleInit
  /\ [][BattleNext]_<<screenVars, battleVars>>
  /\ BattleFairness

----------------------------------------------------------------------------
(* Properties *)

\* A page goes on from the sanity check to the countdown, the battle, the verdict and the results
\* and never back, though a verdict may come while a timer that moves the phase is armed, and a
\* verdict once shown is not replaced by the other one (handleOutcome, startCountdown and
\* routeToResults of Battle.tsx).
Earlier ==
  [sanity |-> {}, countdown |-> {"sanity"}, battle |-> {"sanity", "countdown"},
   win |-> {"sanity", "countdown", "battle", "loss-edit"},
   loss |-> {"sanity", "countdown", "battle", "win-edit"},
   done |-> {"sanity", "countdown", "battle", "win-edit", "loss-edit"}]
Reached == IF phaseRef = "win-edit" THEN "win" ELSE IF phaseRef = "loss-edit" THEN "loss" ELSE phaseRef
VerdictIsFinal == [][phaseRef' \notin Earlier[Reached]]_phaseRef

\* "Capture/upload failed - never strand the player" (Battle.tsx:344): a page that hears of a win
\* takes the player on, whether his clip is recorded and uploaded or not.
WinnerIsNotStranded == heard = "win" ~> shown # "here"
=============================================================================
