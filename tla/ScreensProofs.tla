--------------------------- MODULE ScreensProofs ---------------------------
(***************************************************************************)
(* Theorems about the screens: the battle and the search page, for any     *)
(* number of frames, any countdown and any order of what calls back; the   *)
(* peer, for any candidates and failures; and king of the hill as it is    *)
(* played, for any players, clips and challenges.                          *)
(***************************************************************************)
EXTENDS MCScreens, KothProofs, FiniteSetTheorems, WellFoundedInduction, TLAPS


----------------------------------------------------------------------------
(* The pages *)

\* A page that is torn down has let its socket go; one that is gone was torn down, and nothing of it
\* calls back.
PageInv ==
  /\ ScreenTypeOK
  /\ engine.state = "calibrating" => engine.calibration < CalibrationFrames
  /\ tornDown => socket \notin {"connecting", "open"}
  /\ page = "gone" => tornDown /\ camera # "live" /\ ~raf

\* The timers say how far the battle is, and so do the ring buffer, the reports and the verdict.
BattleInv ==
  /\ BattleTypeOK
  /\ tornDown => ~sanityTimer /\ remaining = 0
  /\ page = "gone" => ~recorder /\ rtc # "live"
  /\ sanityTimer => phaseRef = "sanity"
  /\ remaining > 0 => phaseRef = "countdown"
  /\ ring \/ reported # {} \/ phaseRef = "battle" => ~sanityTimer /\ remaining = 0
  /\ phaseRef \in {"win-edit", "loss-edit"} => heard # "none"
  /\ phaseRef = "done" => tornDown

SearchInv == SearchTypeOK /\ QueueIsLeft

\* What a frame leaves of the engine's counters is within their limits.
LEMMA NoFaceTypes ==
  ASSUME NEW e \in EngineStates
  PROVE  /\ AfterNoFace(e) \in EngineStates
         /\ AfterNoFace(e).state = e.state /\ AfterNoFace(e).calibration = e.calibration
<1> PICK n \in 0..NoFaceWindow + 1 : n = Capped(e.noFace, NoFaceWindow + 1)
  BY CvEngineAssumption DEF EngineStates, Capped
<1> PICK p \in BOOLEAN : p = (e.facePresent /\ e.noFace + 1 # NoFaceWindow)
  BY DEF EngineStates
<1>1. AfterNoFace(e) = [e EXCEPT !.noFace = n, !.facePresent = p]
  BY DEF AfterNoFace
<1>2. [e EXCEPT !.noFace = n, !.facePresent = p] \in EngineStates
  BY DEF EngineStates
<1> QED BY <1>1, <1>2 DEF EngineStates

\* An engine of which two counters are set to what they may be.
LEMMA CalibratedTypes ==
  ASSUME NEW e \in EngineStates, NEW c \in 0..CalibrationFrames, NEW s \in {"idle", "calibrating", "running"}
  PROVE  [e EXCEPT !.calibration = c, !.state = s] \in EngineStates
BY DEF EngineStates

LEMMA DetectedTypes ==
  ASSUME NEW e \in EngineStates, NEW b \in [EyeNames -> 0..BlinkFrames], NEW f \in BOOLEAN
  PROVE  [e EXCEPT !.below = b, !.blinkFired = f] \in EngineStates
BY DEF EngineStates

LEMMA FaceTypes ==
  ASSUME NEW e \in EngineStates, NEW closed \in SUBSET EyeNames,
         e.state = "calibrating" => e.calibration < CalibrationFrames
  PROVE  /\ AfterFace(e, closed) \in EngineStates
         /\ AfterFace(e, closed).state = "calibrating" => AfterFace(e, closed).calibration < CalibrationFrames
<1> PICK z \in 0..NoFaceWindow + 1 : z = 0
  BY CvEngineAssumption
<1> PICK seen : seen = [e EXCEPT !.facePresent = TRUE, !.noFace = z]
  OBVIOUS
<1>1. /\ seen \in EngineStates /\ seen.state = e.state /\ seen.calibration = e.calibration
  BY DEF EngineStates
<1>2. CASE e.state = "calibrating"
  <2> PICK c \in 0..CalibrationFrames : c = e.calibration + 1
    BY <1>2, CvEngineAssumption DEF EngineStates
  <2> PICK s : s = IF c >= CalibrationFrames THEN "running" ELSE seen.state
    OBVIOUS
  <2>1. AfterFace(e, closed) = [seen EXCEPT !.calibration = c, !.state = s]
    BY <1>1, <1>2 DEF AfterFace, Calibrated
  <2>2. s \in {"idle", "calibrating", "running"}
    BY <1>1 DEF EngineStates
  <2>3. [seen EXCEPT !.calibration = c, !.state = s] \in EngineStates
    BY <1>1, <2>2, CalibratedTypes
  <2>4. AfterFace(e, closed).state = s /\ AfterFace(e, closed).calibration = c
    BY <1>1, <2>1 DEF EngineStates
  <2>5. s = "calibrating" => c < CalibrationFrames
    BY CvEngineAssumption
  <2> QED BY <2>1, <2>3, <2>4, <2>5
<1>3. CASE e.state # "calibrating"
  <2> PICK b : b = Below(seen, closed)
    OBVIOUS
  <2> PICK f : f = (Latched(seen, closed) \/ FiresBlink(seen, closed))
    OBVIOUS
  <2>1. b \in [EyeNames -> 0..BlinkFrames]
    <3>1. \A y \in EyeNames : seen.below[y] \in 0..BlinkFrames
      BY <1>1 DEF EngineStates
    <3>2. \A y \in EyeNames : Capped(seen.below[y], BlinkFrames) \in 0..BlinkFrames
      BY <3>1, CvEngineAssumption DEF Capped
    <3> QED BY <3>2, CvEngineAssumption DEF Below
  <2>2. f \in BOOLEAN
    BY DEF Latched, FiresBlink
  <2>3. AfterFace(e, closed) = [seen EXCEPT !.below = b, !.blinkFired = f]
    BY <1>3 DEF AfterFace, Detected
  <2>4. [seen EXCEPT !.below = b, !.blinkFired = f] \in EngineStates
    BY <1>1, <2>1, <2>2, DetectedTypes
  <2>5. AfterFace(e, closed).state = e.state
    BY <1>1, <2>3 DEF EngineStates
  <2> QED BY <1>3, <2>3, <2>4, <2>5
<1> QED BY <1>2, <1>3

LEMMA FirstEngines ==
  /\ Idle \in EngineStates /\ Idle.state = "idle"
  /\ Started \in EngineStates /\ Started.state = "calibrating" /\ Started.calibration = 0
<1>1. Idle \in EngineStates /\ Idle.state = "idle" /\ Idle.calibration = 0
  <2>1. [y \in EyeNames |-> 0] \in [EyeNames -> 0..BlinkFrames]
    BY CvEngineAssumption
  <2> QED BY <2>1, CvEngineAssumption DEF Idle, EngineStates
<1> QED BY <1>1 DEF Started, EngineStates

\* What the router, the socket and the camera do to any page.
LEMMA NavigateTypes ==
  ASSUME PageInv, NEW to \in Pages, Navigate(to)
  PROVE  shown' \in Pages /\ page' \in {"mounted", "leaving", "gone"} /\ (page' = "gone" <=> page = "gone")
BY DEF Navigate, PageInv, ScreenTypeOK

LEMMA PageLeft ==
  ASSUME PageInv, UserLeaves
  PROVE  PageInv'
<1>1. shown' \in Pages /\ page' \in {"mounted", "leaving", "gone"} /\ (page' = "gone" <=> page = "gone")
  BY NavigateTypes DEF UserLeaves, Pages
<1> QED BY <1>1 DEF UserLeaves, PageInv, ScreenTypeOK

LEMMA PageUnmounted ==
  ASSUME PageInv, CleanedUp
  PROVE  PageInv' /\ page' = "gone" /\ camera' # "live" /\ ~raf' /\ tornDown'
BY FirstEngines DEF CleanedUp, Closed, PageInv, ScreenTypeOK

LEMMA PageLost ==
  ASSUME PageInv, SocketLost
  PROVE  PageInv'
BY DEF SocketLost, PageInv, ScreenTypeOK

LEMMA PageAnswered ==
  ASSUME PageInv, CameraAnswers
  PROVE  PageInv' /\ (page = "gone" => camera' # "live")
BY DEF CameraAnswers, Kept, Here, PageInv, ScreenTypeOK

LEMMA PageStill ==
  ASSUME PageInv, UNCHANGED screenVars
  PROVE  PageInv'
BY DEF screenVars, PageInv, ScreenTypeOK

----------------------------------------------------------------------------
(* The battle page *)

LEMMA TeardownTypes ==
  ASSUME PageInv, BattleInv, Teardown
  PROVE  /\ tornDown' /\ ~sanityTimer' /\ sanityTimer' \in BOOLEAN /\ remaining' = 0
         /\ socket' \in {"none", "lost", "closed"}
         /\ recorder' \in BOOLEAN /\ (~recorder => ~recorder')
         /\ camera' \in {"asking", "live", "off"} /\ (camera' = "live" => camera = "live")
         /\ camera' = "asking" <=> camera = "asking"
BY DEF Teardown, RecorderStops, Closed, PageInv, ScreenTypeOK, BattleInv, BattleTypeOK

\* Whatever takes the player to the results leaves the page torn down.
LEMMA Routed ==
  ASSUME PageInv, BattleInv, RouteToResults,
         UNCHANGED <<engine, raf, facePresent, ring, rtc, reported>>,
         capture' \in {"none", "recording", "uploading", "over"}, heard' \in {"none", "win", "loss"}
  PROVE  PageInv' /\ BattleInv'
<1>1. /\ tornDown' /\ ~sanityTimer' /\ sanityTimer' \in BOOLEAN /\ remaining' = 0 /\ phaseRef' = "done"
      /\ socket' \in {"none", "lost", "closed"}
      /\ recorder' \in BOOLEAN /\ (~recorder => ~recorder')
      /\ camera' \in {"asking", "live", "off"} /\ (camera' = "live" => camera = "live")
  BY TeardownTypes DEF RouteToResults
<1>2. shown' \in Pages /\ page' \in {"mounted", "leaving", "gone"} /\ (page' = "gone" <=> page = "gone")
  BY NavigateTypes DEF RouteToResults, Pages
<1>3. PageInv'
  BY <1>1, <1>2 DEF PageInv, ScreenTypeOK
<1>4. BattleTypeOK'
  <2>1. remaining' \in 0..CountdownSeconds
    BY <1>1, BattleAssumption
  <2>2. sanityTimer' \in BOOLEAN /\ phaseRef' = "done" /\ recorder' \in BOOLEAN
    BY <1>1
  <2> QED BY <2>1, <2>2 DEF BattleInv, BattleTypeOK
<1>5. BattleInv'
  BY <1>1, <1>2, <1>4 DEF BattleInv
<1> QED BY <1>3, <1>5

LEMMA BattleStepInv ==
  ASSUME PageInv, BattleInv, BattleNext
  PROVE  PageInv' /\ BattleInv'
<1>1. CASE SanityCheck
  <2>1. UNCHANGED screenVars /\ sanityTimer' = FALSE /\ phaseRef' = "countdown" /\ remaining' = CountdownSeconds /\ ~tornDown
        /\ phaseRef = "sanity"
        /\ UNCHANGED <<ring, capture, recorder, rtc, reported, heard>>
    BY <1>1 DEF SanityCheck, BattleInv
  <2>2. ~ring /\ reported = {}
    BY <1>1 DEF SanityCheck, BattleInv
  <2>3. BattleTypeOK'
    <3>1. remaining' \in 0..CountdownSeconds
      BY <2>1, BattleAssumption
    <3>2. sanityTimer' \in BOOLEAN
      BY <2>1
    <3> QED BY <2>1, <3>1, <3>2 DEF BattleInv, BattleTypeOK
  <2>4. BattleInv'
    BY <2>1, <2>2, <2>3 DEF BattleInv, screenVars
  <2> QED BY <2>1, <2>4, PageStill
<1>2. CASE SanityCheckFails
  BY <1>2, Routed DEF SanityCheckFails, BattleInv, BattleTypeOK
<1>3. CASE CountdownTick
  <2>1. /\ UNCHANGED screenVars /\ UNCHANGED <<sanityTimer, capture, recorder, rtc, reported, heard>>
        /\ remaining > 0 /\ remaining' = remaining - 1 /\ remaining \in Nat /\ ~tornDown /\ phaseRef = "countdown"
    BY <1>3, BattleAssumption DEF CountdownTick, BattleInv, BattleTypeOK
  <2>2. ~sanityTimer /\ ~ring /\ reported = {}
    BY <2>1 DEF BattleInv
  <2>3. remaining' \in 0..CountdownSeconds /\ (remaining' = 0 <=> remaining = 1)
    BY <2>1, BattleAssumption DEF BattleInv, BattleTypeOK
  <2>4. /\ phaseRef' = IF remaining = 1 THEN "battle" ELSE "countdown"
        /\ ring' \in BOOLEAN /\ (remaining # 1 => ~ring')
    <3>1. CASE remaining = 1
      <4>1. phaseRef' = "battle"
        BY <1>3, <3>1 DEF CountdownTick
      <4>2. ring' \in BOOLEAN
        BY <1>3, <3>1 DEF CountdownTick, MaybeStartRingBuffer
      <4> QED BY <3>1, <4>1, <4>2
    <3>2. CASE remaining # 1
      <4>1. ring' = ring /\ phaseRef' = phaseRef
        BY <1>3, <3>2 DEF CountdownTick
      <4>2. ring \in BOOLEAN
        BY DEF BattleInv, BattleTypeOK
      <4> QED BY <2>1, <2>2, <3>2, <4>1, <4>2
    <3> QED BY <3>1, <3>2
  <2>5. BattleTypeOK'
    BY <2>1, <2>3, <2>4 DEF BattleInv, BattleTypeOK
  <2>6. remaining' > 0 => remaining # 1
    BY <2>3
  <2>7. BattleInv'
    BY <2>1, <2>2, <2>3, <2>4, <2>5, <2>6 DEF BattleInv, screenVars
  <2> QED BY <2>1, <2>7, PageStill
<1>4. CASE StreamArrives
  <2>1. /\ PageInv' /\ (page = "gone" => camera' # "live")
        /\ UNCHANGED <<phaseRef, sanityTimer, remaining, capture, recorder, reported, heard>>
        /\ UNCHANGED <<page, tornDown>>
    BY <1>4, PageAnswered DEF StreamArrives, CameraAnswers
  <2>2. rtc' \in {"none", "live", "closed"} /\ (page = "gone" => rtc' = rtc)
    BY <1>4, <2>1 DEF StreamArrives, PeerConnects, BattleInv, BattleTypeOK
  <2>3. ring' \in BOOLEAN /\ (ring' => ring \/ phaseRef = "battle")
    BY <1>4, <2>1 DEF StreamArrives, MaybeStartRingBuffer, StartsRing
  <2>4. BattleTypeOK'
    BY <2>1, <2>2, <2>3 DEF BattleInv, BattleTypeOK
  <2> QED BY <2>1, <2>2, <2>3, <2>4 DEF BattleInv
<1>5. CASE PeerCloses
  <2>1. UNCHANGED screenVars
    BY <1>5 DEF PeerCloses
  <2> QED BY <1>5, <2>1, PageStill DEF PeerCloses, BattleInv, BattleTypeOK, screenVars
<1>6. CASE SocketOpens
  <2>1. PageInv'
    BY <1>6 DEF SocketOpens, PageInv, ScreenTypeOK
  <2> QED BY <1>6, <2>1 DEF SocketOpens, BattleInv, BattleTypeOK, battleVars
<1>7. CASE SocketLost /\ UNCHANGED battleVars
  BY <1>7, PageLost DEF SocketLost, BattleInv, BattleTypeOK, battleVars
<1>8. ASSUME NEW e \in EngineStates, engine' = e,
             e.state = "calibrating" => e.calibration < CalibrationFrames,
             raf, camera = "live", facePresent' \in BOOLEAN,
             NEW kind \in {"blink", "face_lost"}, Report(kind) \/ UNCHANGED <<raf, reported>>,
             UNCHANGED <<page, shown, camera, socket, tornDown>>,
             UNCHANGED <<phaseRef, sanityTimer, remaining, ring, capture, recorder, rtc, heard>>
      PROVE  PageInv' /\ BattleInv'
  <2>1. /\ raf' \in BOOLEAN /\ page # "gone"
        /\ reported' \in SUBSET {"blink", "face_lost"}
        /\ reported' = reported \/ phaseRef = "battle"
    BY <1>8 DEF Report, SendThrows, PageInv, ScreenTypeOK, BattleInv, BattleTypeOK
  <2>2. PageInv'
    BY <1>8, <2>1 DEF PageInv, ScreenTypeOK
  <2>3. BattleTypeOK'
    BY <1>8, <2>1 DEF BattleInv, BattleTypeOK
  <2>4. BattleInv'
    BY <1>8, <2>1, <2>3 DEF BattleInv
  <2> QED BY <2>2, <2>4
<1>9. CASE NoFaceFrame
  <2>1. engine \in EngineStates /\ facePresent \in BOOLEAN
    BY DEF PageInv, ScreenTypeOK
  <2>2. PICK e : e = AfterNoFace(engine)
    OBVIOUS
  <2>3. e \in EngineStates /\ (e.state = "calibrating" => e.calibration < CalibrationFrames)
    BY <2>1, <2>2, NoFaceTypes DEF PageInv
  <2>4. /\ engine' = e /\ raf /\ camera = "live" /\ facePresent' \in BOOLEAN
        /\ Report("face_lost") \/ UNCHANGED <<raf, reported>>
        /\ UNCHANGED <<page, shown, camera, socket, tornDown>>
        /\ UNCHANGED <<phaseRef, sanityTimer, remaining, ring, capture, recorder, rtc, heard>>
    BY <1>9, <2>1, <2>2 DEF NoFaceFrame
  <2> QED BY <1>8, <2>3, <2>4
<1>10. ASSUME NEW closed \in SUBSET EyeNames, FaceFrame(closed)
       PROVE  PageInv' /\ BattleInv'
  <2>1. engine \in EngineStates /\ facePresent \in BOOLEAN
    BY DEF PageInv, ScreenTypeOK
  <2>2. PICK e : e = AfterFace(engine, closed)
    OBVIOUS
  <2>3. e \in EngineStates /\ (e.state = "calibrating" => e.calibration < CalibrationFrames)
    BY <2>1, <2>2, FaceTypes DEF PageInv
  <2>4. /\ engine' = e /\ raf /\ camera = "live" /\ facePresent' \in BOOLEAN
        /\ Report("blink") \/ UNCHANGED <<raf, reported>>
        /\ UNCHANGED <<page, shown, camera, socket, tornDown>>
        /\ UNCHANGED <<phaseRef, sanityTimer, remaining, ring, capture, recorder, rtc, heard>>
    BY <1>10, <2>1, <2>2 DEF FaceFrame, FiresFacePresent
  <2> QED BY <1>8, <2>3, <2>4
<1>11. CASE HearWin
  <2>1. CASE capture' = "over" /\ RouteToResults
    BY <1>11, <2>1, Routed DEF HearWin
  <2>2. CASE /\ ring /\ phaseRef' = "win-edit" /\ capture' = "recording" /\ recorder' = TRUE
             /\ UNCHANGED <<page, shown, camera, socket, tornDown, sanityTimer, remaining>>
    <3>1. socket = "open" /\ heard' = "win" /\ UNCHANGED <<engine, raf, facePresent, ring, rtc, reported>>
      BY <1>11 DEF HearWin, Delivers
    <3>2. ~tornDown /\ page # "gone" /\ ~sanityTimer /\ remaining = 0
      BY <2>2, <3>1 DEF PageInv, BattleInv
    <3>3. PageInv'
      BY <2>2, <3>1, PageStill DEF screenVars
    <3>4. BattleTypeOK'
      BY <2>2, <3>1 DEF BattleInv, BattleTypeOK
    <3> QED BY <2>2, <3>1, <3>2, <3>3, <3>4 DEF BattleInv
  <2> QED BY <1>11, <2>1, <2>2 DEF HearWin
<1>12. CASE HearLoss
  <2>1. /\ UNCHANGED screenVars /\ heard' = "loss" /\ phaseRef' = "loss-edit" /\ reported # {}
        /\ UNCHANGED <<sanityTimer, remaining, ring, capture, recorder, rtc, reported>>
    BY <1>12 DEF HearLoss
  <2>2. ~sanityTimer /\ remaining = 0
    BY <2>1 DEF BattleInv
  <2>3. BattleTypeOK'
    BY <2>1 DEF BattleInv, BattleTypeOK
  <2>4. BattleInv'
    BY <2>1, <2>2, <2>3 DEF BattleInv, screenVars
  <2> QED BY <2>1, <2>4, PageStill
<1>13. CASE EditSlotEnds
  <2>1. /\ UNCHANGED screenVars /\ capture' = "uploading" /\ recorder' = FALSE
        /\ UNCHANGED <<phaseRef, sanityTimer, remaining, ring, rtc, reported, heard>>
    BY <1>13 DEF EditSlotEnds
  <2>2. BattleTypeOK'
    BY <2>1 DEF BattleInv, BattleTypeOK
  <2>3. BattleInv'
    BY <2>1, <2>2 DEF BattleInv, screenVars
  <2> QED BY <2>1, <2>3, PageStill
<1>14. CASE UploadEnds
  BY <1>14, Routed DEF UploadEnds, Proceed, BattleInv, BattleTypeOK
<1>15. CASE SkipEdit
  BY <1>15, Routed DEF SkipEdit, BattleInv, BattleTypeOK
<1>16. CASE UserLeaves /\ UNCHANGED battleVars
  BY <1>16, PageLeft DEF UserLeaves, Navigate, BattleInv, BattleTypeOK, battleVars
<1>17. CASE Unmount
  <2>1. /\ CleanedUp /\ page' = "gone" /\ tornDown' /\ PageInv'
        /\ UNCHANGED <<phaseRef, ring, capture, reported, heard>>
    BY <1>17, PageUnmounted DEF Unmount
  <2>2. /\ sanityTimer' \in BOOLEAN /\ ~sanityTimer' /\ remaining' = 0 /\ recorder' = FALSE
        /\ rtc' \in {"none", "closed"}
    BY <1>17 DEF Unmount, RecorderStops, PeerUnmounts, BattleInv, BattleTypeOK
  <2>3. BattleTypeOK'
    <3>1. remaining' \in 0..CountdownSeconds
      BY <2>2, BattleAssumption
    <3> QED BY <2>1, <2>2, <3>1 DEF BattleInv, BattleTypeOK
  <2> QED BY <2>1, <2>2, <2>3 DEF BattleInv
<1> QED BY <1>1, <1>2, <1>3, <1>4, <1>5, <1>6, <1>7, <1>9, <1>10, <1>11, <1>12, <1>13, <1>14, <1>15, <1>16, <1>17 DEF BattleNext

----------------------------------------------------------------------------
(* The search page *)

LEMMA MaybeJoinTypes ==
  ASSUME SearchTypeOK, ScreenTypeOK, NEW open \in BOOLEAN, NEW face \in BOOLEAN, MaybeJoin(open, face)
  PROVE  /\ joined' \in BOOLEAN /\ raf' \in BOOLEAN /\ (raf' => raf) /\ (joined => joined')
         /\ queue' = queue \/ (queue' = "in" /\ joined' /\ face /\ socket' = "open")
<1>1. joined' \in BOOLEAN /\ raf' \in BOOLEAN
  BY DEF MaybeJoin
<1>2. (raf' => raf) /\ (joined => joined')
  BY DEF MaybeJoin
<1>3. CASE ~joined /\ open /\ face /\ socket' = "open"
  BY <1>3, <1>1 DEF MaybeJoin
<1>4. CASE ~(~joined /\ open /\ face /\ socket' = "open")
  BY <1>4 DEF MaybeJoin
<1> QED BY <1>1, <1>2, <1>3, <1>4

LEMMA SearchStepInv ==
  ASSUME PageInv, SearchInv, SearchNext
  PROVE  PageInv' /\ SearchInv'
<1>1. CASE SearchOpens
  <2>1. /\ socket = "connecting" /\ socket' = "open" /\ wsOpen' = TRUE /\ MaybeJoin(TRUE, facePresent)
        /\ UNCHANGED <<page, shown, camera, engine, facePresent, tornDown>>
    BY <1>1 DEF SearchOpens
  <2>2. facePresent \in BOOLEAN /\ SearchTypeOK /\ ScreenTypeOK
    BY DEF PageInv, ScreenTypeOK, SearchInv
  <2>3. /\ joined' \in BOOLEAN /\ raf' \in BOOLEAN /\ (raf' => raf) /\ (joined => joined')
        /\ queue' = queue \/ (queue' = "in" /\ joined' /\ facePresent /\ socket' = "open")
    BY <2>1, <2>2, MaybeJoinTypes
  <2>4. PageInv'
    BY <2>1, <2>3 DEF PageInv, ScreenTypeOK
  <2>5. SearchTypeOK'
    BY <2>1, <2>2, <2>3 DEF SearchTypeOK
  <2>6. page # "gone" /\ ~tornDown /\ queue # "in" /\ queue # "matched"
    BY <2>1 DEF PageInv, SearchInv, QueueIsLeft, Delivers
  <2> QED BY <2>1, <2>3, <2>4, <2>5, <2>6 DEF SearchInv, QueueIsLeft, Delivers
<1>2. CASE SearchLost
  <2>1. /\ UNCHANGED <<page, shown, camera, engine, raf, facePresent, tornDown, joined, wsOpen>>
        /\ queue' = IF queue = "in" THEN "cut" ELSE queue
    BY <1>2 DEF SearchLost, SocketLost
  <2>2. PageInv'
    BY <1>2, PageLost DEF SearchLost
  <2>3. SearchTypeOK'
    BY <2>1 DEF SearchInv, SearchTypeOK
  <2> QED BY <2>1, <2>2, <2>3 DEF SearchInv, QueueIsLeft
<1>3. CASE CameraAnswers /\ UNCHANGED searchVars
  BY <1>3, PageAnswered DEF CameraAnswers, searchVars, SearchInv, SearchTypeOK, QueueIsLeft, Delivers
<1>4. CASE SearchFace
  <2>1. engine \in EngineStates /\ facePresent \in BOOLEAN /\ wsOpen \in BOOLEAN /\ SearchTypeOK /\ ScreenTypeOK
    BY DEF PageInv, ScreenTypeOK, SearchInv, SearchTypeOK
  <2>2. PICK e : e = AfterFace(engine, {})
    OBVIOUS
  <2>3. e \in EngineStates /\ (e.state = "calibrating" => e.calibration < CalibrationFrames)
    BY <2>1, <2>2, FaceTypes DEF PageInv
  <2>4. /\ engine' = e /\ raf /\ camera = "live"
        /\ facePresent' \in BOOLEAN /\ (facePresent => facePresent')
        /\ FiresFacePresent(engine) => facePresent'
        /\ UNCHANGED <<page, shown, camera, socket, tornDown, wsOpen>>
        /\ (FiresFacePresent(engine) /\ MaybeJoin(wsOpen, TRUE)) \/ UNCHANGED <<joined, queue, raf>>
    BY <1>4, <2>1, <2>2 DEF SearchFace, FiresFacePresent
  <2>5. /\ joined' \in BOOLEAN /\ raf' \in BOOLEAN /\ (raf' => raf) /\ (joined => joined')
        /\ queue' = queue \/ (queue' = "in" /\ joined' /\ facePresent' /\ socket' = "open")
    <3>1. CASE FiresFacePresent(engine) /\ MaybeJoin(wsOpen, TRUE)
      <4>1. facePresent'
        BY <2>4, <3>1
      <4>2. /\ joined' \in BOOLEAN /\ raf' \in BOOLEAN /\ (raf' => raf) /\ (joined => joined')
            /\ queue' = queue \/ (queue' = "in" /\ joined' /\ TRUE /\ socket' = "open")
        BY <2>1, <3>1, MaybeJoinTypes
      <4> QED BY <4>1, <4>2
    <3>2. CASE UNCHANGED <<joined, queue, raf>>
      BY <2>1, <3>2 DEF SearchTypeOK, ScreenTypeOK
    <3> QED BY <2>4, <3>1, <3>2
  <2>6. PageInv' /\ page # "gone"
    BY <2>3, <2>4, <2>5 DEF PageInv, ScreenTypeOK
  <2>7. SearchTypeOK'
    BY <2>1, <2>4, <2>5 DEF SearchTypeOK
  <2> QED BY <2>4, <2>5, <2>6, <2>7 DEF SearchInv, QueueIsLeft, Delivers
<1>5. CASE SearchNoFace
  <2>1. engine \in EngineStates
    BY DEF PageInv, ScreenTypeOK
  <2>2. PICK e : e = AfterNoFace(engine)
    OBVIOUS
  <2>3. e \in EngineStates /\ (e.state = "calibrating" => e.calibration < CalibrationFrames)
    BY <2>1, <2>2, NoFaceTypes DEF PageInv
  <2>4. /\ engine' = e /\ raf /\ camera = "live" /\ page # "gone"
        /\ UNCHANGED <<camera, raf, facePresent, joined, wsOpen>>
    BY <1>5, <2>2 DEF SearchNoFace, PageInv
  <2>5. CASE FiresFaceLost(engine)
    <3>1. TeardownSearch(TRUE) /\ Navigate("home")
      BY <1>5, <2>5 DEF SearchNoFace
    <3>2. shown' \in Pages /\ page' \in {"mounted", "leaving", "gone"} /\ page' # "gone"
      BY <2>4, <3>1, NavigateTypes DEF Pages
    <3>3. tornDown' = TRUE /\ socket' \in {"none", "lost", "closed"}
          /\ queue' \in {"out", "in", "left", "matched", "cut"}
          /\ queue' # "in"
      BY <3>1 DEF TeardownSearch, Closed, LeaveIsSent, Delivers, PageInv, ScreenTypeOK, SearchInv, SearchTypeOK, QueueIsLeft
    <3>4. PageInv'
      BY <2>3, <2>4, <3>2, <3>3 DEF PageInv, ScreenTypeOK
    <3>5. SearchTypeOK'
      BY <2>4, <3>3 DEF SearchInv, SearchTypeOK
    <3> QED BY <3>2, <3>3, <3>4, <3>5 DEF SearchInv, QueueIsLeft
  <2>6. CASE ~FiresFaceLost(engine)
    <3>1. UNCHANGED <<page, shown, socket, tornDown, queue>>
      BY <1>5, <2>6 DEF SearchNoFace
    <3>2. PageInv'
      BY <2>3, <2>4, <3>1 DEF PageInv, ScreenTypeOK
    <3> QED BY <2>4, <3>1, <3>2 DEF SearchInv, SearchTypeOK, QueueIsLeft, Delivers
  <2> QED BY <2>5, <2>6
<1>6. CASE HearMatched
  <2>1. /\ socket = "open" /\ tornDown' = TRUE /\ socket' = "closed" /\ queue' = "matched"
        /\ Navigate("battle") /\ UNCHANGED <<camera, engine, raf, facePresent, joined, wsOpen>>
    BY <1>6 DEF HearMatched, Delivers, Closed
  <2>2. shown' \in Pages /\ page' \in {"mounted", "leaving", "gone"} /\ (page' = "gone" <=> page = "gone")
    BY <2>1, NavigateTypes DEF Pages
  <2>3. PageInv'
    BY <2>1, <2>2 DEF PageInv, ScreenTypeOK
  <2> QED BY <2>1, <2>3 DEF SearchInv, SearchTypeOK, QueueIsLeft
<1>7. CASE UserLeaves /\ UNCHANGED searchVars
  BY <1>7, PageLeft DEF UserLeaves, Navigate, searchVars, SearchInv, SearchTypeOK, QueueIsLeft, Delivers
<1>8. CASE UnmountSearch
  <2>1. /\ CleanedUp /\ page' = "gone" /\ tornDown' /\ PageInv' /\ UNCHANGED <<joined, wsOpen>>
        /\ queue' = (IF ~tornDown /\ LeaveIsSent(TRUE) THEN "left" ELSE queue)
    BY <1>8, PageUnmounted DEF UnmountSearch
  <2>2. queue' # "in"
    BY <2>1 DEF LeaveIsSent, SearchInv, QueueIsLeft, Delivers, PageInv
  <2>3. SearchTypeOK'
    BY <2>1 DEF SearchInv, SearchTypeOK
  <2> QED BY <2>1, <2>2, <2>3 DEF SearchInv, QueueIsLeft
<1> QED BY <1>1, <1>2, <1>3, <1>4, <1>5, <1>6, <1>7, <1>8 DEF SearchNext

----------------------------------------------------------------------------
(* The verdict *)

\* Whatever comes, a page goes on only.
LEMMA BattleGoesOn ==
  ASSUME PageInv, BattleInv, BattleNext
  PROVE  \/ phaseRef' = phaseRef \/ phaseRef' = "done"
         \/ phaseRef = "sanity" /\ phaseRef' = "countdown"
         \/ phaseRef = "countdown" /\ phaseRef' = "battle"
         \/ phaseRef \in {"sanity", "countdown", "battle"} /\ phaseRef' \in {"win-edit", "loss-edit"}
<1>1. CASE SanityCheck
  BY <1>1 DEF SanityCheck, BattleInv
<1>2. CASE CountdownTick
  BY <1>2 DEF CountdownTick, BattleInv
<1>3. CASE HearWin \/ HearLoss
  <2>1. ~tornDown /\ heard = "none"
    BY <1>3 DEF HearWin, HearLoss, Delivers, PageInv
  <2>2. phaseRef \in {"sanity", "countdown", "battle"}
    BY <2>1 DEF BattleInv, BattleTypeOK
  <2>3. phaseRef' \in {"win-edit", "loss-edit", "done"}
    BY <1>3 DEF HearWin, HearLoss, RouteToResults
  <2> QED BY <2>2, <2>3
<1>4. CASE SanityCheckFails \/ UploadEnds \/ SkipEdit
  BY <1>4 DEF SanityCheckFails, UploadEnds, Proceed, SkipEdit, RouteToResults
<1>5. CASE \/ StreamArrives \/ PeerCloses \/ SocketOpens \/ NoFaceFrame \/ EditSlotEnds \/ Unmount
           \/ \E closed \in SUBSET EyeNames : FaceFrame(closed)
  BY <1>5 DEF StreamArrives, PeerCloses, SocketOpens, NoFaceFrame, EditSlotEnds, Unmount, FaceFrame, battleVars
<1>6. CASE (SocketLost \/ UserLeaves) /\ UNCHANGED battleVars
  BY <1>6 DEF battleVars
<1> QED BY <1>1, <1>2, <1>3, <1>4, <1>5, <1>6 DEF BattleNext

LEMMA GoesOnIsFinal ==
  ASSUME phaseRef \in {"sanity", "countdown", "battle", "win-edit", "loss-edit", "done"},
         \/ phaseRef' = "done" /\ phaseRef # "done"
         \/ phaseRef = "sanity" /\ phaseRef' = "countdown"
         \/ phaseRef = "countdown" /\ phaseRef' = "battle"
         \/ phaseRef \in {"sanity", "countdown", "battle"} /\ phaseRef' \in {"win-edit", "loss-edit"}
  PROVE  phaseRef' \notin Earlier[Reached]
<1>1. CASE phaseRef = "sanity"
  BY <1>1 DEF Earlier, Reached
<1>2. CASE phaseRef = "countdown"
  BY <1>2 DEF Earlier, Reached
<1>3. CASE phaseRef = "battle"
  BY <1>3 DEF Earlier, Reached
<1>4. CASE phaseRef = "win-edit"
  BY <1>4 DEF Earlier, Reached
<1>5. CASE phaseRef = "loss-edit"
  BY <1>5 DEF Earlier, Reached
<1> QED BY <1>1, <1>2, <1>3, <1>4, <1>5

----------------------------------------------------------------------------
(* The pages in one run *)

\* Only the page of the scene moves.
PagesInv ==
  /\ PageInv /\ BattleTypeOK /\ SearchTypeOK
  /\ scene = "battle" => BattleInv
  /\ scene = "search" => SearchInv

LEMMA PagesFirst ==
  ASSUME ScreensInit
  PROVE  PagesInv
<1>1. PageInv
  <2>1. /\ page = "mounted" /\ shown = "here" /\ camera = "asking" /\ engine = Started /\ raf = TRUE
        /\ socket = "connecting" /\ facePresent = FALSE /\ tornDown = FALSE
    BY DEF ScreensInit, ScreenInit
  <2>2. engine \in EngineStates
    BY <2>1, FirstEngines
  <2>3. engine.calibration = 0 /\ 0 < CalibrationFrames
    BY <2>1, FirstEngines, CvEngineAssumption
  <2>4. ScreenTypeOK
    BY <2>1, <2>2 DEF ScreenTypeOK, Pages
  <2> QED BY <2>1, <2>3, <2>4 DEF PageInv
<1>2. BattleInv
  <2>1. /\ phaseRef = "sanity" /\ sanityTimer = TRUE /\ ring = FALSE /\ capture = "none"
        /\ recorder = FALSE /\ rtc = "none" /\ reported = {} /\ heard = "none"
        /\ page = "mounted" /\ tornDown = FALSE
    BY DEF ScreensInit, ScreenInit, BattleInit
  <2>2. remaining = 0 /\ remaining \in 0..CountdownSeconds
    BY BattleAssumption DEF ScreensInit, BattleInit
  <2>3. BattleTypeOK
    BY <2>1, <2>2 DEF BattleTypeOK
  <2>4. ~(remaining > 0)
    BY <2>2
  <2> QED BY <2>1, <2>2, <2>3, <2>4 DEF BattleInv
<1>3. SearchInv
  BY DEF ScreensInit, ScreenInit, SearchInit, SearchInv, SearchTypeOK, QueueIsLeft
<1> QED BY <1>1, <1>2, <1>3 DEF PagesInv, BattleInv, SearchInv

LEMMA PagesStep ==
  ASSUME PagesInv, [ScreensNext]_scenesVars
  PROVE  PagesInv'
<1>1. CASE scene = "battle" /\ BattleNext /\ UNCHANGED scene /\ UNCHANGED searchVars
  <2>1. PageInv' /\ BattleInv'
    BY <1>1, BattleStepInv DEF PagesInv
  <2> QED BY <1>1, <2>1 DEF PagesInv, BattleInv, SearchTypeOK, searchVars
<1>2. CASE scene = "search" /\ SearchNext /\ UNCHANGED scene /\ UNCHANGED battleVars
  <2>1. PageInv' /\ SearchInv'
    BY <1>2, SearchStepInv DEF PagesInv
  <2> QED BY <1>2, <2>1 DEF PagesInv, SearchInv, BattleTypeOK, battleVars
<1>3. CASE UNCHANGED <<scene, screenVars, battleVars, searchVars>>
  <2>1. PageInv'
    BY <1>3, PageStill DEF PagesInv
  <2>2. BattleTypeOK' /\ SearchTypeOK'
    BY <1>3 DEF PagesInv, BattleTypeOK, SearchTypeOK, battleVars, searchVars
  <2>3. (scene = "battle" => BattleInv)'
    BY <1>3, <2>2 DEF PagesInv, BattleInv, screenVars, battleVars
  <2>4. (scene = "search" => SearchInv)'
    BY <1>3, <2>2 DEF PagesInv, SearchInv, QueueIsLeft, Delivers, screenVars, searchVars
  <2> QED BY <2>1, <2>2, <2>3, <2>4 DEF PagesInv
<1> QED BY <1>1, <1>2, <1>3 DEF ScreensNext, scenesVars

LEMMA PagesAlways == ScreensSpec => []PagesInv
<1>1. ScreensInit => PagesInv
  BY PagesFirst
<1>2. PagesInv /\ [ScreensNext]_scenesVars => PagesInv'
  BY PagesStep
<1> QED BY <1>1, <1>2, PTL DEF ScreensSpec

\* Once a page is gone nothing of it is left on, whichever way the player took and whatever
\* answered late: the cleanups of Battle.tsx, Search.tsx and their children, which run on every
\* unmount, and teardown, which may have run before.
THEOREM NothingIsEverLeftOn == ScreensSpec => []NothingIsLeftOn
<1>1. PagesInv => NothingIsLeftOn
  BY DEF PagesInv, PageInv, BattleInv, SearchInv, NothingIsLeftOn
<1> QED BY <1>1, PagesAlways, PTL

\* The phase of a battle only goes on, and a verdict once shown stays: no timer of an earlier phase
\* is armed when a verdict has come, and a page that is torn down hears of none (handleOutcome,
\* startCountdown and routeToResults of Battle.tsx).
THEOREM VerdictAlwaysFinal == ScreensSpec => VerdictIsFinal
<1>1. PagesInv /\ [ScreensNext]_scenesVars => [phaseRef' \notin Earlier[Reached]]_phaseRef
  <2> SUFFICES ASSUME PagesInv, [ScreensNext]_scenesVars, phaseRef' # phaseRef
               PROVE  phaseRef' \notin Earlier[Reached]
    OBVIOUS
  <2>1. scene = "battle" /\ BattleNext
    BY DEF ScreensNext, scenesVars, battleVars
  <2>2. PageInv /\ BattleInv
    BY <2>1 DEF PagesInv
  <2>3. phaseRef \in {"sanity", "countdown", "battle", "win-edit", "loss-edit", "done"}
    BY <2>2 DEF BattleInv, BattleTypeOK
  <2> QED BY <2>1, <2>2, <2>3, BattleGoesOn, GoesOnIsFinal
<1> QED BY <1>1, PagesAlways, PTL DEF ScreensSpec, VerdictIsFinal

----------------------------------------------------------------------------
(* The peer: what it says *)

\* The socket is given all that was said while it was not open yet; once it opened, the join and
\* then what is said, until it is closed.
SentOK ==
  /\ ws = "connecting" => wire = <<>> /\ outboundQueue = said
  /\ ws = "open" => Len(wire) = 1 + Len(said)
  /\ wire # <<>> =>
       /\ wire[1] = "join" /\ Len(wire) <= 1 + Len(said)
       /\ \A i \in 1..Len(wire) - 1 : wire[i + 1] = said[i]
SentTypes == wire \in Seq(Frames) /\ outboundQueue \in Seq(Frames) /\ said \in Seq(Frames)

\* A handler flushes what waits; no candidate waits once a description is set but for one that is
\* flushed.
FlushOK(k) ==
  /\ handler[k].step = "flush" => remoteSet /\ handler[k].left # <<>>
  /\ handler[k].step # "flush" => handler[k].left = <<>>
  /\ handler[k].step = "flush" /\ errors = 0 => Range(pending) \subseteq applied \cup Range(handler[k].left)
Received ==
  arrived = Range(pending) \cup applying \cup applied \cup UNION {Range(handler[k].left) : k \in Kinds}
ReceivedOK ==
  /\ \A k \in Kinds : FlushOK(k)
  /\ remoteSet => described
  /\ applying # {} => remoteSet
  /\ errors = 0 => Received
  /\ remoteSet /\ errors = 0 => \A c \in Range(pending) : \E k \in Kinds : handler[k].step = "flush"
PeerInv == PeerTypeOK /\ SentOK /\ ReceivedOK

LEMMA Said ==
  ASSUME SentTypes, SentOK, NEW frame \in Frames, SendOrBuffer(frame), ws' = ws, ws \in {"connecting", "open", "closed"}
  PROVE  SentTypes' /\ SentOK'
<1>1. said' = Append(said, frame) /\ said' \in Seq(Frames) /\ Len(said') = Len(said) + 1 /\ Len(said) \in Nat
  BY DEF SendOrBuffer, SentTypes
<1>2. \A i \in 1..Len(said) : said'[i] = said[i]
  BY <1>1 DEF SentTypes
<1>3. CASE ws = "connecting"
  <2>1. wire = <<>> /\ wire' = <<>> /\ outboundQueue' = Append(said, frame)
    BY <1>3 DEF SendOrBuffer, SentOK
  <2> QED BY <1>1, <1>3, <2>1 DEF SentOK, SentTypes
<1>4. CASE ws = "open"
  <2>1. wire' = Append(wire, frame) /\ outboundQueue' = outboundQueue
    BY <1>4 DEF SendOrBuffer
  <2>2. wire \in Seq(Frames) /\ Len(wire) = 1 + Len(said) /\ wire # <<>>
    BY <1>1, <1>4 DEF SentOK, SentTypes
  <2>3. wire' \in Seq(Frames) /\ Len(wire') = Len(wire) + 1
    BY <2>1, <2>2
  <2>4. \A i \in 1..Len(wire) : wire'[i] = wire[i]
    BY <2>1, <2>2
  <2>5. wire'[Len(wire) + 1] = frame /\ said'[Len(said) + 1] = frame
    BY <1>1, <2>1, <2>2 DEF SentTypes
  <2>6. wire'[1] = "join"
    BY <1>1, <2>2, <2>4 DEF SentOK
  <2>7. \A i \in 1..Len(wire') - 1 : wire'[i + 1] = said'[i]
    <3> SUFFICES ASSUME NEW i \in 1..Len(wire') - 1
                 PROVE  wire'[i + 1] = said'[i]
      OBVIOUS
    <3>1. CASE i = Len(said) + 1
      BY <2>2, <2>5, <3>1
    <3>2. CASE i # Len(said) + 1
      <4>1. i \in 1..Len(said) /\ i \in 1..Len(wire) - 1 /\ i + 1 \in 1..Len(wire)
        BY <1>1, <2>2, <2>3, <3>2
      <4>2. wire[i + 1] = said[i]
        BY <2>2, <4>1 DEF SentOK
      <4> QED BY <1>2, <2>4, <4>1, <4>2
    <3> QED BY <3>1, <3>2
  <2>8. Len(wire') = 1 + Len(said')
    BY <1>1, <2>2, <2>3
  <2>9. SentTypes'
    BY <1>1, <2>1, <2>3 DEF SentTypes
  <2>10. SentOK'
    BY <1>1, <1>4, <2>6, <2>7, <2>8 DEF SentOK
  <2> QED BY <2>9, <2>10
<1>5. CASE ws = "closed"
  <2>1. wire' = wire /\ outboundQueue' = outboundQueue
    BY <1>5 DEF SendOrBuffer
  <2>2. wire # <<>> => \A i \in 1..Len(wire) - 1 : i \in 1..Len(said)
    BY <1>1 DEF SentOK, SentTypes
  <2>3. wire # <<>> => \A i \in 1..Len(wire) - 1 : wire[i + 1] = said'[i]
    BY <1>2, <2>2 DEF SentOK
  <2>4. wire # <<>> => Len(wire) <= 1 + Len(said')
    BY <1>1 DEF SentOK, SentTypes
  <2> QED BY <1>1, <1>5, <2>1, <2>3, <2>4 DEF SentOK, SentTypes
<1> QED BY <1>3, <1>4, <1>5

\* Opening the socket sends the join and all that was said.
LEMMA SaidAtOnce ==
  ASSUME SentTypes, SentOK, PeerOpens
  PROVE  SentTypes' /\ SentOK'
<1>1. /\ wire' = <<"join">> \o said /\ outboundQueue' = <<>> /\ said' = said /\ ws' = "open"
      /\ said \in Seq(Frames) /\ Len(said) \in Nat
  BY DEF PeerOpens, SentOK, SentTypes
<1>2. "join" \in Frames
  BY DEF Frames
<1>3. <<"join">> \in Seq(Frames)
  BY <1>2
<1>4. wire' \in Seq(Frames) /\ Len(wire') = 1 + Len(said) /\ wire'[1] = "join"
  BY <1>1, <1>3
<1>5. \A i \in 1..Len(said) : wire'[i + 1] = said[i]
  BY <1>1, <1>3
<1> QED BY <1>1, <1>4, <1>5 DEF SentOK, SentTypes

----------------------------------------------------------------------------
(* The peer: what it hears *)

HandlerSteps == {"none", "set", "flush", "answer", "over", "failed"}
Handlers == [step : HandlerSteps, left : Seq(Candidates)]
ReceivedTypes ==
  /\ handler \in [Kinds -> Handlers] /\ described \in BOOLEAN /\ remoteSet \in BOOLEAN
  /\ pending \in Seq(Candidates)
  /\ arrived \subseteq Candidates /\ applying \subseteq Candidates /\ applied \subseteq Candidates

LEMMA Ranges ==
  ASSUME NEW S, NEW s \in Seq(S)
  PROVE  /\ Range(s) \subseteq S
         /\ Range(s) = {} <=> s = <<>>
         /\ \A c \in S : Range(Append(s, c)) = Range(s) \cup {c}
         /\ s # <<>> => Head(s) \in S /\ Tail(s) \in Seq(S) /\ Range(s) = {Head(s)} \cup Range(Tail(s))
<1>1. Range(s) \subseteq S /\ (Range(s) = {} <=> s = <<>>)
  BY DEF Range
<1>2. ASSUME NEW c \in S PROVE Range(Append(s, c)) = Range(s) \cup {c}
  <2> PICK t : t = Append(s, c)
    OBVIOUS
  <2>1. t \in Seq(S) /\ Len(t) = Len(s) + 1 /\ (\A i \in 1..Len(s) : t[i] = s[i]) /\ t[Len(s) + 1] = c
    OBVIOUS
  <2>2. Range(t) \subseteq Range(s) \cup {c}
    BY <2>1 DEF Range
  <2>3. Range(s) \subseteq Range(t)
    BY <2>1 DEF Range
  <2>4. c \in Range(t)
    BY <2>1 DEF Range
  <2> QED BY <2>2, <2>3, <2>4
<1>3. ASSUME s # <<>>
      PROVE  Head(s) \in S /\ Tail(s) \in Seq(S) /\ Range(s) = {Head(s)} \cup Range(Tail(s))
  <2> PICK t : t = Tail(s)
    OBVIOUS
  <2>1. /\ t \in Seq(S) /\ Len(t) = Len(s) - 1 /\ Len(s) \in Nat \ {0}
        /\ (\A i \in 1..Len(t) : t[i] = s[i + 1]) /\ Head(s) = s[1]
    BY <1>3
  <2>2. Range(s) \subseteq {Head(s)} \cup Range(t)
    <3> SUFFICES ASSUME NEW i \in 1..Len(s)
                 PROVE  s[i] \in {Head(s)} \cup Range(t)
      BY DEF Range
    <3>1. CASE i = 1
      BY <2>1, <3>1
    <3>2. CASE i # 1
      <4>1. i - 1 \in 1..Len(t) /\ (i - 1) + 1 = i
        BY <2>1, <3>2
      <4>2. t[i - 1] = s[i]
        BY <2>1, <4>1
      <4>3. DOMAIN t = 1..Len(t)
        BY <2>1
      <4>4. t[i - 1] \in Range(t)
        BY <4>1, <4>3 DEF Range
      <4> QED BY <4>2, <4>4
    <3> QED BY <3>1, <3>2
  <2>3. Range(t) \subseteq Range(s)
    BY <2>1 DEF Range
  <2>4. Head(s) \in Range(s) /\ Head(s) \in S
    BY <2>1 DEF Range
  <2> QED BY <2>1, <2>2, <2>3, <2>4
<1> QED BY <1>1, <1>2, <1>3

LEMMA EmptyRange == Range(<<>>) = {}
BY DEF Range

LEMMA HandlerMoves ==
  ASSUME ReceivedTypes, NEW k \in Kinds, NEW step \in HandlerSteps, NEW left \in Seq(Candidates),
         HandlerAt(k, step, left)
  PROVE  /\ handler' \in [Kinds -> Handlers]
         /\ handler'[k].step = step /\ handler'[k].left = left
         /\ \A j \in Kinds \ {k} : handler'[j] = handler[j]
<1> PICK h : h = [step |-> step, left |-> left]
  OBVIOUS
<1>1. h \in Handlers /\ h.step = step /\ h.left = left
  BY DEF Handlers
<1>2. handler' = [handler EXCEPT ![k] = h]
  BY DEF HandlerAt
<1> QED BY <1>1, <1>2 DEF ReceivedTypes

LEMMA EmptySeq == <<>> \in Seq(Candidates)
OBVIOUS

\* A handler that has no candidate left, and gets none, changes nothing of the candidates.
LEMMA HandlerIdles ==
  ASSUME ReceivedTypes, ReceivedOK, NEW k \in Kinds, NEW step \in HandlerSteps \ {"flush"},
         handler[k].step # "flush", HandlerAt(k, step, <<>>),
         UNCHANGED <<described, remoteSet, pending, arrived, applying, applied, errors>>
  PROVE  ReceivedTypes' /\ ReceivedOK'
<1>1. /\ handler' \in [Kinds -> Handlers] /\ handler'[k].step = step /\ handler'[k].left = <<>>
      /\ \A j \in Kinds \ {k} : handler'[j] = handler[j]
  BY EmptySeq, HandlerMoves
<1>2. handler[k].left = <<>>
  BY DEF ReceivedOK, FlushOK
<1>3. \A j \in Kinds : handler'[j].left = handler[j].left /\ (handler'[j].step = "flush" <=> handler[j].step = "flush")
  BY <1>1, <1>2
<1>4. ReceivedTypes'
  BY <1>1 DEF ReceivedTypes
<1>5. ASSUME NEW j \in Kinds PROVE FlushOK(j)'
  BY <1>3 DEF ReceivedOK, FlushOK
<1>6. UNION {Range(handler'[j].left) : j \in Kinds} = UNION {Range(handler[j].left) : j \in Kinds}
  BY <1>3
<1>7. (errors = 0 => Received)'
  BY <1>6 DEF ReceivedOK, Received
<1> QED BY <1>3, <1>4, <1>5, <1>7 DEF ReceivedOK

\* A handler fails: from then on nothing is promised of the candidates.
LEMMA HandlerFails ==
  ASSUME ReceivedTypes, ReceivedOK, errors \in Nat, NEW k \in Kinds, Rejected, HandlerAt(k, "failed", <<>>),
         UNCHANGED <<described, remoteSet, pending, arrived, applying, applied>>
  PROVE  ReceivedTypes' /\ ReceivedOK'
<1>1. /\ handler' \in [Kinds -> Handlers] /\ handler'[k].step = "failed" /\ handler'[k].left = <<>>
      /\ \A j \in Kinds \ {k} : handler'[j] = handler[j]
  BY EmptySeq, HandlerMoves DEF HandlerSteps
<1>2. errors' # 0
  BY DEF Rejected
<1>3. ASSUME NEW j \in Kinds PROVE FlushOK(j)'
  BY <1>1, <1>2 DEF ReceivedOK, FlushOK
<1>4. ReceivedTypes'
  BY <1>1 DEF ReceivedTypes
<1> QED BY <1>2, <1>3, <1>4 DEF ReceivedOK

\* What Flush makes of the candidates a handler has left, and of those that wait.
LEMMA Flushed ==
  ASSUME ReceivedTypes, ReceivedOK, NEW k \in Kinds, NEW left \in Seq(Candidates), Flush(k, left),
         remoteSet', described', errors' = errors, arrived' = arrived, applying' = applying,
         described' \in BOOLEAN, remoteSet' \in BOOLEAN,
         applied \subseteq applied', applied' \subseteq applied \cup Range(handler[k].left),
         errors = 0 => Range(pending) \subseteq applied' \cup Range(left),
         Range(left) \subseteq Range(pending) \cup Range(handler[k].left),
         Range(handler[k].left) \subseteq applied' \cup Range(left)
  PROVE  ReceivedTypes' /\ ReceivedOK'
<1>1. \A s \in Seq(Candidates) : Range(s) \subseteq Candidates
  BY Ranges
<1>2. handler[k].left \in Seq(Candidates)
  BY DEF ReceivedTypes, Handlers
<1>3. applied' \subseteq Candidates
  BY <1>1, <1>2 DEF ReceivedTypes
<1>4. PICK step \in HandlerSteps :
        /\ HandlerAt(k, step, left) /\ pending' = (IF left = <<>> THEN <<>> ELSE pending)
        /\ step = "flush" <=> left # <<>>
  BY DEF Flush, HandlerSteps
<1>5. /\ handler' \in [Kinds -> Handlers] /\ handler'[k].step = step /\ handler'[k].left = left
      /\ \A j \in Kinds \ {k} : handler'[j] = handler[j]
  BY <1>4, HandlerMoves
<1>6. pending' \in Seq(Candidates) /\ Range(pending') \subseteq Range(pending)
  BY <1>4, EmptySeq, EmptyRange DEF ReceivedTypes
<1>7. ReceivedTypes'
  BY <1>3, <1>5, <1>6 DEF ReceivedTypes
<1>8. ASSUME NEW j \in Kinds PROVE FlushOK(j)'
  <2>1. CASE j = k
    BY <1>4, <1>5, <1>6, <2>1 DEF FlushOK
  <2>2. CASE j # k
    BY <1>5, <1>6, <2>2 DEF ReceivedOK, FlushOK
  <2> QED BY <2>1, <2>2
<1>9. ASSUME errors = 0 PROVE Received'
  <2>1. Received
    BY <1>9 DEF ReceivedOK
  <2>2. Range(pending) \subseteq Range(pending') \cup applied' \cup Range(left)
    BY <1>9
  <2>3. \A c : c \in arrived <=> \/ c \in Range(pending) \/ c \in applying \/ c \in applied
                                 \/ \E j \in Kinds : c \in Range(handler[j].left)
    BY <2>1 DEF Received
  <2>4. \A c : c \in arrived <=> \/ c \in Range(pending') \/ c \in applying \/ c \in applied'
                                 \/ \E j \in Kinds : c \in Range(handler'[j].left)
    BY <1>5, <1>6, <2>2, <2>3
  <2> QED BY <2>4 DEF Received
<1>10. remoteSet' /\ errors' = 0 => \A c \in Range(pending') : \E j \in Kinds : handler'[j].step = "flush"
  BY <1>4, <1>5, EmptyRange
<1> QED BY <1>7, <1>8, <1>9, <1>10 DEF ReceivedOK

LEMMA PeerTypes == PeerTypeOK <=>
  /\ SentTypes /\ ReceivedTypes
  /\ ws \in {"connecting", "open", "closed"}
  /\ offer \in {"needed", "created", "sent", "failed"}
  /\ gathered \in 0..MaxOwn /\ errors \in 0..MaxErrors
BY DEF PeerTypeOK, SentTypes, ReceivedTypes, Handlers, HandlerSteps

LEMMA SentStill ==
  ASSUME SentTypes, SentOK, UNCHANGED sendVars, ws' = ws \/ (ws' = "closed")
  PROVE  SentTypes' /\ SentOK'
BY DEF sendVars, SentTypes, SentOK

LEMMA ReceivedStill ==
  ASSUME ReceivedTypes, ReceivedOK, UNCHANGED receiveVars, errors \in 0..MaxErrors,
         errors' = errors \/ Rejected
  PROVE  ReceivedTypes' /\ ReceivedOK'
<1>1. errors' = 0 => errors = 0
  BY PeerAssumption DEF Rejected
<1>2. UNCHANGED <<handler, described, remoteSet, pending, arrived, applying, applied>>
  BY DEF receiveVars
<1>3. ReceivedTypes'
  BY <1>2 DEF ReceivedTypes
<1>4. ASSUME NEW k \in Kinds PROVE FlushOK(k)'
  BY <1>1, <1>2 DEF ReceivedOK, FlushOK
<1>5. (errors' = 0 => Received') /\ (remoteSet' => described') /\ (applying' # {} => remoteSet')
  BY <1>1, <1>2 DEF ReceivedOK, Received
<1>6. remoteSet' /\ errors' = 0 => \A c \in Range(pending') : \E k \in Kinds : handler'[k].step = "flush"
  BY <1>1, <1>2 DEF ReceivedOK
<1> QED BY <1>3, <1>4, <1>5, <1>6 DEF ReceivedOK

LEMMA OneMoreError ==
  ASSUME errors \in 0..MaxErrors, errors' = errors \/ Rejected
  PROVE  errors' \in 0..MaxErrors
BY PeerAssumption DEF Rejected

\* The steps that hear of something.
LEMMA PeerHears ==
  ASSUME PeerInv, NEW k \in Kinds, ReceiveDescription(k) \/ SetRemoteDescription(k) \/ FlushCandidate(k)
  PROVE  ReceivedTypes' /\ ReceivedOK' /\ (errors' = errors \/ Rejected)
<1>1. ReceivedTypes /\ ReceivedOK /\ errors \in 0..MaxErrors /\ errors \in Nat
  BY PeerTypes, PeerAssumption DEF PeerInv
<1>2. handler[k] \in Handlers /\ handler[k].left \in Seq(Candidates) /\ pending \in Seq(Candidates)
      /\ FlushOK(k)
  BY <1>1 DEF ReceivedTypes, Handlers, ReceivedOK
<1>3. CASE ReceiveDescription(k)
  <2>1. /\ HandlerAt(k, "set", <<>>) /\ handler[k].step # "flush"
        /\ UNCHANGED <<described, pending, arrived, applying, applied, errors>>
    BY <1>3 DEF ReceiveDescription
  <2>2. remoteSet' = remoteSet
    BY <1>1, <1>3 DEF ReceiveDescription, RaisedBy, ReceivedTypes
  <2> QED BY <1>1, <2>1, <2>2, HandlerIdles DEF HandlerSteps
<1>4. CASE SetRemoteDescription(k)
  <2>1. handler[k].left = <<>> /\ UNCHANGED <<arrived, applying, applied>>
    BY <1>2, <1>4 DEF SetRemoteDescription, FlushOK
  <2>2. CASE Rejected /\ HandlerAt(k, "failed", <<>>) /\ UNCHANGED <<described, remoteSet, pending>>
    BY <1>1, <2>1, <2>2, HandlerFails
  <2>3. CASE /\ described' = TRUE /\ remoteSet' = (remoteSet \/ RaisedBy("set"))
             /\ Flush(k, pending) /\ UNCHANGED errors
    <3>1. remoteSet' = TRUE
      BY <2>3 DEF RaisedBy
    <3> QED BY <1>1, <1>2, <2>1, <2>3, <3>1, EmptyRange, Flushed
  <2> QED BY <1>4, <2>2, <2>3 DEF SetRemoteDescription
<1>5. CASE FlushCandidate(k)
  <2>1. /\ handler[k].step = "flush" /\ remoteSet /\ described /\ handler[k].left # <<>>
        /\ UNCHANGED <<described, remoteSet, arrived, applying>>
    BY <1>1, <1>2, <1>5 DEF FlushCandidate, FlushOK, ReceivedOK
  <2>2. CASE Rejected /\ HandlerAt(k, "failed", <<>>) /\ UNCHANGED <<applied, pending>>
    BY <1>1, <2>1, <2>2, HandlerFails
  <2>3. CASE /\ applied' = applied \cup {Head(handler[k].left)}
             /\ Flush(k, Tail(handler[k].left)) /\ UNCHANGED errors
    <3> PICK c, rest : c = Head(handler[k].left) /\ rest = Tail(handler[k].left)
      OBVIOUS
    <3>1. c \in Candidates /\ rest \in Seq(Candidates) /\ Range(handler[k].left) = {c} \cup Range(rest)
      BY <1>2, <2>1, Ranges
    <3>2. applied' = applied \cup {c} /\ Flush(k, rest)
      BY <2>3
    <3>3. errors = 0 => Range(pending) \subseteq applied \cup Range(handler[k].left)
      BY <1>2, <2>1 DEF FlushOK
    <3>4. /\ applied \subseteq applied' /\ applied' \subseteq applied \cup Range(handler[k].left)
          /\ errors = 0 => Range(pending) \subseteq applied' \cup Range(rest)
          /\ Range(rest) \subseteq Range(pending) \cup Range(handler[k].left)
          /\ Range(handler[k].left) \subseteq applied' \cup Range(rest)
      BY <3>1, <3>2, <3>3
    <3>5. remoteSet' /\ described' /\ described' \in BOOLEAN /\ remoteSet' \in BOOLEAN
      BY <1>1, <2>1 DEF ReceivedTypes
    <3>6. ReceivedTypes' /\ ReceivedOK'
      BY <1>1, <2>1, <2>3, <3>1, <3>2, <3>4, <3>5, Flushed
    <3> QED BY <2>3, <3>6
  <2> QED BY <1>5, <2>2, <2>3 DEF FlushCandidate
<1> QED BY <1>3, <1>4, <1>5

LEMMA PeerHearsCandidate ==
  ASSUME PeerInv, NEW c \in Candidates, ReceiveCandidate(c)
  PROVE  ReceivedTypes' /\ ReceivedOK'
<1>1. ReceivedTypes /\ ReceivedOK
  BY PeerTypes DEF PeerInv
<1>2. arrived' = arrived \cup {c} /\ UNCHANGED <<handler, described, remoteSet, applied, errors>>
  BY DEF ReceiveCandidate
<1>3. CASE remoteSet
  <2>1. applying' = applying \cup {c} /\ pending' = pending
    BY <1>3 DEF ReceiveCandidate
  <2>2. ReceivedTypes'
    BY <1>1, <1>2, <2>1 DEF ReceivedTypes
  <2>3. ASSUME NEW k \in Kinds PROVE FlushOK(k)'
    BY <1>1, <1>2, <2>1 DEF ReceivedOK, FlushOK
  <2>4. (errors = 0 => Received)'
    BY <1>1, <1>2, <2>1 DEF ReceivedOK, Received
  <2> QED BY <1>1, <1>2, <1>3, <2>1, <2>2, <2>3, <2>4 DEF ReceivedOK
<1>4. CASE ~remoteSet
  <2>1. pending' = Append(pending, c) /\ applying' = applying
    BY <1>4 DEF ReceiveCandidate
  <2>2. pending' \in Seq(Candidates) /\ Range(pending') = Range(pending) \cup {c}
    BY <1>1, <2>1, Ranges DEF ReceivedTypes
  <2>3. ReceivedTypes'
    BY <1>1, <1>2, <2>1, <2>2 DEF ReceivedTypes
  <2>4. ASSUME NEW k \in Kinds PROVE FlushOK(k)'
    BY <1>1, <1>2, <1>4 DEF ReceivedOK, FlushOK
  <2>5. (errors = 0 => Received)'
    BY <1>1, <1>2, <2>1, <2>2 DEF ReceivedOK, Received
  <2> QED BY <1>1, <1>2, <1>4, <2>1, <2>3, <2>4, <2>5 DEF ReceivedOK
<1> QED BY <1>3, <1>4

LEMMA PeerAppliesCandidate ==
  ASSUME PeerInv, NEW c \in Candidates, AddIceCandidate(c)
  PROVE  ReceivedTypes' /\ ReceivedOK' /\ (errors' = errors \/ Rejected)
<1>1. ReceivedTypes /\ ReceivedOK /\ errors \in 0..MaxErrors
  BY PeerTypes DEF PeerInv
<1>2. /\ c \in applying /\ applying' = applying \ {c} /\ remoteSet /\ described
      /\ UNCHANGED <<handler, described, remoteSet, pending, arrived>>
      /\ applied' \in {applied, applied \cup {c}}
      /\ errors' = errors \/ Rejected
      /\ errors' = errors => applied' = applied \cup {c} \/ Rejected
  BY <1>1 DEF AddIceCandidate, ReceivedOK
<1>3. errors' = 0 => errors = 0 /\ applied' = applied \cup {c}
  BY <1>1, <1>2, PeerAssumption DEF Rejected
<1>4. ReceivedTypes'
  BY <1>1, <1>2 DEF ReceivedTypes
<1>5. ASSUME NEW k \in Kinds PROVE FlushOK(k)'
  BY <1>1, <1>2, <1>3 DEF ReceivedOK, FlushOK
<1>6. (errors = 0 => Received)'
  BY <1>1, <1>2, <1>3 DEF ReceivedOK, Received
<1>7. remoteSet' /\ errors' = 0 => \A d \in Range(pending') : \E k \in Kinds : handler'[k].step = "flush"
  BY <1>1, <1>2, <1>3 DEF ReceivedOK
<1> QED BY <1>1, <1>2, <1>4, <1>5, <1>6, <1>7 DEF ReceivedOK

LEMMA PeerStepInv ==
  ASSUME PeerInv, PeerNext
  PROVE  PeerInv'
<1>1. /\ SentTypes /\ ReceivedTypes /\ SentOK /\ ReceivedOK
      /\ ws \in {"connecting", "open", "closed"}
      /\ offer \in {"needed", "created", "sent", "failed"}
      /\ gathered \in 0..MaxOwn /\ errors \in 0..MaxErrors
  BY PeerTypes DEF PeerInv
<1>2. ASSUME SentTypes', SentOK', ReceivedTypes', ReceivedOK', errors' = errors \/ Rejected,
             ws' \in {"connecting", "open", "closed"}, gathered' \in 0..MaxOwn,
             offer' \in {"needed", "created", "sent", "failed"}
      PROVE  PeerInv'
  <2>1. errors' \in 0..MaxErrors
    BY <1>1, <1>2, OneMoreError
  <2> QED BY <1>2, <2>1 DEF PeerInv, PeerTypeOK, SentTypes, ReceivedTypes, Handlers, HandlerSteps
<1>3. CASE PeerOpens
  <2>1. ReceivedTypes' /\ ReceivedOK'
    BY <1>1, <1>3, ReceivedStill DEF PeerOpens
  <2>2. SentTypes' /\ SentOK'
    BY <1>1, <1>3, SaidAtOnce
  <2> QED BY <1>1, <1>2, <1>3, <2>1, <2>2 DEF PeerOpens
<1>4. CASE CreateOffer
  <2>1. UNCHANGED <<ws, sendVars, gathered, receiveVars>> /\ (errors' = errors \/ Rejected)
        /\ offer' \in {"created", "failed"}
    BY <1>4 DEF CreateOffer
  <2>2. ReceivedTypes' /\ ReceivedOK' /\ SentTypes' /\ SentOK'
    BY <1>1, <2>1, ReceivedStill, SentStill
  <2> QED BY <1>1, <1>2, <2>1, <2>2
<1>5. CASE SetLocalOffer
  <2>1. /\ UNCHANGED <<ws, gathered, receiveVars>> /\ (errors' = errors \/ Rejected)
        /\ offer' \in {"sent", "failed"} /\ (SendOrBuffer("offer") \/ UNCHANGED sendVars)
    BY <1>5 DEF SetLocalOffer
  <2>2. ReceivedTypes' /\ ReceivedOK'
    BY <1>1, <2>1, ReceivedStill
  <2>3. SentTypes' /\ SentOK'
    BY <1>1, <2>1, Said, SentStill DEF Frames
  <2> QED BY <1>1, <1>2, <2>1, <2>2, <2>3
<1>6. CASE OnIceCandidate
  <2>1. /\ UNCHANGED <<ws, offer, receiveVars, errors>> /\ SendOrBuffer("ice")
        /\ gathered < MaxOwn /\ gathered' = gathered + 1
    BY <1>6 DEF OnIceCandidate
  <2>2. gathered' \in 0..MaxOwn
    BY <1>1, <2>1, PeerAssumption
  <2>3. ReceivedTypes' /\ ReceivedOK'
    BY <1>1, <2>1, ReceivedStill
  <2>4. SentTypes' /\ SentOK'
    BY <1>1, <2>1, Said DEF Frames
  <2> QED BY <1>1, <1>2, <2>1, <2>2, <2>3, <2>4
<1>7. CASE Answer
  <2>1. /\ UNCHANGED <<ws, offer, gathered, described, remoteSet, pending, arrived, applying, applied>>
        /\ handler["offer"].step = "answer" /\ "offer" \in Kinds
    BY <1>7 DEF Answer, Kinds
  <2>2. CASE HandlerAt("offer", "over", <<>>) /\ SendOrBuffer("answer") /\ UNCHANGED errors
    <3>1. ReceivedTypes' /\ ReceivedOK'
      BY <1>1, <2>1, <2>2, HandlerIdles DEF HandlerSteps
    <3>2. SentTypes' /\ SentOK'
      BY <1>1, <2>1, <2>2, Said DEF Frames
    <3> QED BY <1>1, <1>2, <2>1, <2>2, <3>1, <3>2
  <2>3. CASE Rejected /\ HandlerAt("offer", "failed", <<>>) /\ UNCHANGED sendVars
    <3>1. errors \in Nat
      BY <1>1, PeerAssumption
    <3>2. ReceivedTypes' /\ ReceivedOK'
      BY <1>1, <2>1, <2>3, <3>1, HandlerFails
    <3>3. SentTypes' /\ SentOK'
      BY <1>1, <2>1, <2>3, SentStill
    <3> QED BY <1>1, <1>2, <2>1, <2>3, <3>2, <3>3
  <2> QED BY <1>7, <2>2, <2>3 DEF Answer
<1>8. CASE ClosePeer
  <2>1. UNCHANGED <<sendVars, offer, gathered, receiveVars, errors>> /\ ws' = "closed"
    BY <1>8 DEF ClosePeer
  <2>2. ReceivedTypes' /\ ReceivedOK' /\ SentTypes' /\ SentOK'
    BY <1>1, <2>1, ReceivedStill, SentStill
  <2> QED BY <1>1, <1>2, <2>1, <2>2
<1>9. ASSUME NEW k \in Kinds, ReceiveDescription(k) \/ SetRemoteDescription(k) \/ FlushCandidate(k)
      PROVE  PeerInv'
  <2>1. UNCHANGED <<ws, sendVars, offer, gathered>>
    BY <1>9 DEF ReceiveDescription, SetRemoteDescription, FlushCandidate
  <2>2. SentTypes' /\ SentOK'
    BY <1>1, <2>1, SentStill
  <2> QED BY <1>1, <1>2, <1>9, <2>1, <2>2, PeerHears
<1>10. ASSUME NEW c \in Candidates, ReceiveCandidate(c) \/ AddIceCandidate(c)
       PROVE  PeerInv'
  <2>1. UNCHANGED <<ws, sendVars, offer, gathered>> /\ (ReceiveCandidate(c) => errors' = errors)
    BY <1>10 DEF ReceiveCandidate, AddIceCandidate
  <2>2. SentTypes' /\ SentOK'
    BY <1>1, <2>1, SentStill
  <2> QED BY <1>1, <1>2, <1>10, <2>1, <2>2, PeerHearsCandidate, PeerAppliesCandidate
<1> QED BY <1>3, <1>4, <1>5, <1>6, <1>7, <1>8, <1>9, <1>10 DEF PeerNext

LEMMA PeerFirst == PeerInit => PeerInv
<1> SUFFICES ASSUME PeerInit PROVE PeerInv
  OBVIOUS
<1> PICK h : h = [step |-> "none", left |-> <<>>]
  OBVIOUS
<1>1. h \in Handlers /\ h.step = "none" /\ h.left = <<>>
  BY EmptySeq DEF Handlers, HandlerSteps
<1>2. handler = [k \in Kinds |-> h]
  BY DEF PeerInit
<1>3. ReceivedTypes
  BY <1>1, <1>2, EmptySeq DEF PeerInit, ReceivedTypes
<1>4. SentTypes /\ SentOK
  BY DEF PeerInit, SentTypes, SentOK
<1>5. gathered \in 0..MaxOwn /\ errors \in 0..MaxErrors
  BY PeerAssumption DEF PeerInit
<1>6. PeerTypeOK
  BY <1>3, <1>4, <1>5, PeerTypes DEF PeerInit
<1>7. \A k \in Kinds : handler[k].step = "none" /\ handler[k].left = <<>>
  BY <1>1, <1>2
<1>8. Received
  BY <1>7, EmptyRange DEF PeerInit, Received
<1>9. ReceivedOK
  BY <1>7, <1>8 DEF PeerInit, ReceivedOK, FlushOK
<1> QED BY <1>4, <1>6, <1>9 DEF PeerInv

LEMMA PeerAlways == ScreensSpec => []PeerInv
<1>1. ScreensInit => PeerInv
  BY PeerFirst DEF ScreensInit
<1>2. PeerInv /\ [ScreensNext]_scenesVars => PeerInv'
  <2> SUFFICES ASSUME PeerInv, [ScreensNext]_scenesVars PROVE PeerInv'
    OBVIOUS
  <2>1. PeerNext \/ UNCHANGED peerVars
    BY DEF ScreensNext, scenesVars
  <2>2. CASE UNCHANGED peerVars
    <3>1. UNCHANGED <<ws, sendVars, offer, gathered, receiveVars, errors>>
      BY <2>2 DEF peerVars
    <3>2. PeerTypeOK /\ SentTypes /\ SentOK /\ ReceivedTypes /\ ReceivedOK /\ errors \in 0..MaxErrors
      BY PeerTypes DEF PeerInv
    <3>3. ReceivedTypes' /\ ReceivedOK' /\ SentTypes' /\ SentOK'
      BY <3>1, <3>2, ReceivedStill, SentStill
    <3>4. PeerTypeOK'
      BY <3>1, <3>2 DEF PeerTypeOK, sendVars, receiveVars
    <3> QED BY <3>3, <3>4 DEF PeerInv
  <2> QED BY <2>1, <2>2, PeerStepInv
<1> QED BY <1>1, <1>2, PTL DEF ScreensSpec

LEMMA JoinThenSaid ==
  ASSUME SentTypes, SentOK, wire # <<>>
  PROVE  wire[1] = "join" /\ IsPrefix(Tail(wire), said)
<1> PICK t : t = Tail(wire)
  OBVIOUS
<1>1. /\ t \in Seq(Frames) /\ Len(t) = Len(wire) - 1 /\ Len(t) \in Nat
      /\ \A i \in 1..Len(t) : t[i] = wire[i + 1]
  BY DEF SentTypes
<1>2. said \in Seq(Frames) /\ Len(t) <= Len(said) /\ \A i \in 1..Len(t) : t[i] = said[i]
  <2>1. said \in Seq(Frames) /\ Len(said) \in Nat /\ Len(wire) \in Nat
    BY DEF SentTypes
  <2>2. Len(wire) <= 1 + Len(said) /\ \A i \in 1..Len(wire) - 1 : wire[i + 1] = said[i]
    BY DEF SentOK
  <2>3. Len(t) <= Len(said)
    BY <1>1, <2>1, <2>2
  <2> QED BY <1>1, <2>1, <2>2, <2>3
<1>3. SubSeq(t, 1, Len(t)) = SubSeq(said, 1, Len(t))
  <2>1. SubSeq(t, 1, Len(t)) = [i \in 1..Len(t) |-> t[i]]
    BY <1>1
  <2>2. SubSeq(said, 1, Len(t)) = [i \in 1..Len(t) |-> said[i]]
    BY <1>1, <1>2
  <2> QED BY <1>2, <2>1, <2>2
<1> QED BY <1>2, <1>3 DEF SentOK, IsPrefix

\* In whatever order the socket, the descriptions and the candidates come, the join goes first and
\* what this peer says follows in the order it was said; a candidate received is waiting, being
\* applied or applied, and none waits once the remote description is set and those that waited are
\* flushed, unless a call of the browser failed (sendOrBuffer, handleOffer, handleAnswer and
\* handleIce of rtc/index.ts).
THEOREM NothingSaidIsEverLost == ScreensSpec => []NothingSaidIsLost
<1>1. PeerInv => NothingSaidIsLost
  <2> SUFFICES ASSUME PeerInv PROVE NothingSaidIsLost
    OBVIOUS
  <2>1. SentTypes /\ SentOK /\ ReceivedOK
    BY PeerTypes DEF PeerInv
  <2>2. wire # <<>> => wire[1] = "join" /\ IsPrefix(Tail(wire), said)
    BY <2>1, JoinThenSaid
  <2>3. ws = "open" => Len(wire) = 1 + Len(said)
    BY <2>1 DEF SentOK
  <2> QED BY <2>1, <2>2, <2>3 DEF ReceivedOK, Received, NothingSaidIsLost
<1> QED BY <1>1, PeerAlways, PTL

----------------------------------------------------------------------------
(* The king clips *)

Uploaded(c) == clips[c] # None
Playing(u) == play[u] # Away

\* The reset worker expires the clip of a reign that is there.
ExpiringOK ==
  reset.phase \in {"closing", "rewarding", "expiring"} => reset.king \in Reigns /\ reigns[reset.king] # None

\* A clip of the hill that is not older than n is there, or was deleted.
Later(h, n) == \E c \in rows \cup dropped : Uploaded(c) /\ clips[c].hill = h /\ c >= n

\* Where a player is determines his clip: it is of his hill, and while it evicts the older ones
\* it is there itself, or gave way to a later one.
PlayOK(u) ==
  /\ play[u].shown # None => Uploaded(play[u].shown)
  /\ play[u].phase # "battle" => play[u].clip \in Clips
  /\ play[u].phase \in {"creating", "evicting"} =>
       Uploaded(play[u].clip) /\ clips[play[u].clip].hill = play[u].hill
  /\ play[u].phase = "evicting" => Later(play[u].hill, play[u].clip)

\* Clips are numbered in the order they were uploaded, and every row is of one that was.
InOrder ==
  /\ \A c, d \in Clips : Uploaded(c) /\ d < c => Uploaded(d)
  /\ \A c \in rows : Uploaded(c)

TablesOK ==
  /\ clips \in [Clips -> Clip \cup {None}]
  /\ rows \subseteq Clips /\ IsFiniteSet(rows) /\ dropped \subseteq Clips

ClipsInv ==
  /\ Inv /\ ExpiringOK /\ TablesOK /\ InOrder
  /\ play \in [Users -> Play \cup {Away}]
  /\ \A u \in Users : Playing(u) => PlayOK(u)

\* A finite set of ids has a largest one.
LEMMA HasLast ==
  ASSUME NEW T \in SUBSET Nat, IsFiniteSet(T), T # {}
  PROVE  \E m \in T : \A x \in T : x <= m
<1> DEFINE after(x) == {y \in T : y > x}
           Q == {after(x) : x \in T}
           R == StrictSubsetOrdering(T)
<1>1. IsWellFoundedOn(R, SUBSET T)
  BY FS_StrictSubsetOrderingWellFounded, FS_FiniteSubsetsOfFinite
<1>2. Q \subseteq SUBSET T /\ Q # {}
  OBVIOUS
<1>3. PICK q \in Q : \A p \in Q : ~(<<p, q>> \in R)
  <2> HIDE DEF Q, R
  <2> QED BY <1>1, <1>2, WFMin
<1>4. PICK m \in T : q = after(m)
  OBVIOUS
<1>5. ASSUME NEW x \in T, x > m
      PROVE  FALSE
  <2>1. x \in Nat /\ m \in Nat /\ \A y \in T : y \in Nat
    OBVIOUS
  <2>2. (\A y \in T : y > x => y > m) /\ ~(x > x)
    BY <1>5, <2>1
  <2>3. after(x) \subseteq after(m) /\ x \in after(m) /\ x \notin after(x)
    BY <1>5, <2>2, Zenon
  <2>4. after(x) \in Q /\ after(x) \in SUBSET T /\ after(m) \in SUBSET T
    OBVIOUS
  <2>5. <<after(x), after(m)>> \in R
    <3> HIDE DEF after
    <3> QED BY <2>3, <2>4 DEF StrictSubsetOrdering
  <2> QED BY <1>3, <1>4, <2>4, <2>5
<1>6. \A x \in T : ~(x > m)
  BY <1>5
<1> QED BY <1>6

\* The clip a hill shows is one of its rows.
LEMMA ShownIsARow ==
  ASSUME TablesOK, InOrder, NEW h
  PROVE  Shown(h) = None \/ (Shown(h) \in rows /\ clips[Shown(h)].hill = h)
<1> PICK T : T = {c \in rows : clips[c].hill = h}
  OBVIOUS
<1>1. CASE T = {}
  BY <1>1 DEF Shown
<1>2. CASE T # {}
  <2>1. T \in SUBSET Nat /\ IsFiniteSet(T)
    BY ClipAssumption, FS_Subset DEF TablesOK
  <2>2. PICK m \in T : \A x \in T : x <= m
    BY <1>2, <2>1, HasLast
  <2>3. m \in rows /\ IsShown(m, h)
    BY <2>2 DEF IsShown
  <2>4. Shown(h) = CHOOSE c \in rows : IsShown(c, h)
    BY <1>2 DEF Shown
  <2>5. Shown(h) \in rows /\ IsShown(Shown(h), h)
    BY <2>3, <2>4
  <2> QED BY <2>5 DEF IsShown
<1> QED BY <1>1, <1>2

\* What a step does to the tables of clips: what was uploaded stays, rows are of what was, and what
\* gives way gives way to a later clip.
TablesMoved ==
  /\ TablesOK' /\ InOrder'
  /\ \A c \in Clips : Uploaded(c) => Uploaded(c)' /\ clips'[c] = clips[c]
  /\ \A h \in Hills, n \in Clips : Uploaded(n) /\ Later(h, n) => Later(h, n)'

LEMMA NothingMoves ==
  ASSUME TablesOK, InOrder, UNCHANGED cvars
  PROVE  TablesMoved
BY DEF cvars, TablesMoved, TablesOK, InOrder, Later, Uploaded

\* The next clip is after every one that was uploaded.
LEMMA OneMoreClip ==
  ASSUME TablesOK, InOrder, NEW d \in Clips, IsNextClip(d), NEW x \in Clip, clips' = [clips EXCEPT ![d] = x]
  PROVE  /\ clips' \in [Clips -> Clip \cup {None}]
         /\ \A c \in Clips : Uploaded(c) => c < d /\ Uploaded(c)' /\ clips'[c] = clips[c]
         /\ \A c \in Clips \ {d} : clips'[c] = clips[c]
         /\ clips'[d] = x /\ Uploaded(d)'
         /\ \A b, c \in Clips : Uploaded(b)' /\ c < b => Uploaded(c)'
<1>1. /\ clips' \in [Clips -> Clip \cup {None}] /\ clips'[d] = x
      /\ \A c \in Clips \ {d} : clips'[c] = clips[c]
  BY DEF TablesOK
<1>2. x # None /\ \A c \in Clips : c \in Nat
  BY ClipAssumption
<1>3. ~Uploaded(d) /\ \A c \in Clips : c < d => Uploaded(c)
  BY DEF IsNextClip, Uploaded
<1>4. \A c \in Clips : Uploaded(c) => c < d
  <2> SUFFICES ASSUME NEW c \in Clips, Uploaded(c), ~(c < d) PROVE FALSE
    OBVIOUS
  <2>1. c # d
    BY <1>3
  <2>2. d < c
    BY <1>2, <2>1
  <2> QED BY <1>3, <2>2 DEF InOrder
<1>5. \A c \in Clips : Uploaded(c)' <=> Uploaded(c) \/ c = d
  BY <1>1, <1>2 DEF Uploaded
<1>6. ASSUME NEW b \in Clips, NEW c \in Clips, Uploaded(b)', c < b PROVE Uploaded(c)'
  <2>1. CASE b = d
    BY <1>3, <1>5, <1>6, <2>1
  <2>2. CASE b # d
    BY <1>5, <1>6, <2>2 DEF InOrder
  <2> QED BY <2>1, <2>2
<1> QED BY <1>1, <1>3, <1>4, <1>5, <1>6

LEMMA UploadMoves ==
  ASSUME TablesOK, InOrder, NEW d \in Clips, IsNextClip(d), NEW x \in Clip, clips' = [clips EXCEPT ![d] = x],
         UNCHANGED <<rows, dropped>>
  PROVE  TablesMoved
<1>1. /\ clips' \in [Clips -> Clip \cup {None}]
      /\ \A c \in Clips : Uploaded(c) => Uploaded(c)' /\ clips'[c] = clips[c]
      /\ \A b, c \in Clips : Uploaded(b)' /\ c < b => Uploaded(c)'
  BY OneMoreClip
<1>2. TablesOK' /\ rows \cup dropped \subseteq Clips
  BY <1>1 DEF TablesOK
<1>3. InOrder'
  BY <1>1, <1>2 DEF InOrder, TablesOK
<1>4. \A h \in Hills, n \in Clips : Later(h, n) => Later(h, n)'
  BY <1>1, <1>2 DEF Later
<1> QED BY <1>1, <1>2, <1>3, <1>4 DEF TablesMoved

LEMMA CreateMoves ==
  ASSUME TablesOK, InOrder, NEW c \in Clips, Uploaded(c), rows' = rows \cup {c}, UNCHANGED <<clips, dropped>>
  PROVE  TablesMoved
<1>1. IsFiniteSet(rows')
  BY FS_AddElement DEF TablesOK
<1>2. TablesOK' /\ InOrder'
  BY <1>1 DEF TablesOK, InOrder, Uploaded
<1> QED BY <1>2 DEF TablesMoved, Later, Uploaded

\* Of two clips of a hill the later one is not superseded by the other, and what is superseded by
\* a clip that gave way itself gave way to what that one did.
LEMMA EvictMoves ==
  ASSUME TablesOK, InOrder, NEW n \in Clips, Uploaded(n), NEW g \in Hills, clips[n].hill = g, Later(g, n),
         rows' = rows \ Superseded(n), UNCHANGED <<clips, dropped>>
  PROVE  TablesMoved
<1>1. rows' \subseteq rows /\ IsFiniteSet(rows')
  BY FS_Subset DEF TablesOK
<1>2. TablesOK' /\ InOrder'
  BY <1>1 DEF TablesOK, InOrder, Uploaded
<1>3. \A c \in Clips : c \in Nat
  BY ClipAssumption
<1>4. PICK z \in rows \cup dropped : Uploaded(z) /\ clips[z].hill = g /\ z >= n
  BY DEF Later
<1>5. z \in rows' \cup dropped' /\ z \in Clips
  BY <1>3, <1>4 DEF Superseded, TablesOK
<1>6. ASSUME NEW h \in Hills, NEW m \in Clips, Later(h, m) PROVE Later(h, m)'
  <2>1. PICK c \in rows \cup dropped : Uploaded(c) /\ clips[c].hill = h /\ c >= m
    BY <1>6 DEF Later
  <2>2. c \in Clips
    BY DEF TablesOK
  <2>3. CASE c \in rows' \cup dropped'
    BY <2>1, <2>3 DEF Later, Uploaded
  <2>4. CASE c \notin rows' \cup dropped'
    <3>1. clips[c].hill = g /\ c < n
      BY <2>4 DEF Superseded
    <3>2. z >= m
      BY <1>3, <1>4, <1>5, <2>1, <2>2, <3>1
    <3> QED BY <1>4, <1>5, <2>1, <3>1, <3>2 DEF Later, Uploaded
  <2> QED BY <2>3, <2>4
<1> QED BY <1>2, <1>6 DEF TablesMoved, Uploaded

LEMMA DeleteMoves ==
  ASSUME TablesOK, InOrder, NEW c \in Clips, Delete(c)
  PROVE  TablesMoved
<1>1. rows' \subseteq rows /\ IsFiniteSet(rows') /\ rows' \cup dropped' = rows \cup dropped \cup {c} /\ clips' = clips
  BY FS_Subset DEF Delete, TablesOK
<1>2. TablesOK' /\ InOrder'
  BY <1>1 DEF TablesOK, InOrder, Uploaded, Delete
<1> QED BY <1>1, <1>2 DEF TablesMoved, Later, Uploaded

LEMMA SeedMoves ==
  ASSUME TablesOK, InOrder, NEW d \in Clips, IsNextClip(d), NEW x \in Clip, clips' = [clips EXCEPT ![d] = x],
         rows' = (rows \cup {d}) \ {c \in rows : clips[c].hill = x.hill}, UNCHANGED dropped
  PROVE  TablesMoved
<1>1. /\ clips' \in [Clips -> Clip \cup {None}]
      /\ \A c \in Clips : Uploaded(c) => c < d /\ Uploaded(c)' /\ clips'[c] = clips[c]
      /\ \A b, c \in Clips : Uploaded(b)' /\ c < b => Uploaded(c)'
      /\ clips'[d] = x /\ Uploaded(d)'
  BY OneMoreClip
<1>2. ~Uploaded(d) /\ d \notin rows /\ d \in rows'
  BY DEF IsNextClip, Uploaded, InOrder
<1>3. rows' \subseteq rows \cup {d} /\ IsFiniteSet(rows')
  BY FS_AddElement, FS_Subset DEF TablesOK
<1>4. TablesOK' /\ rows \cup dropped \subseteq Clips
  BY <1>1, <1>3 DEF TablesOK
<1>5. InOrder'
  BY <1>1, <1>3, <1>4 DEF InOrder
<1>6. \A c \in Clips : c \in Nat
  BY ClipAssumption
<1>7. ASSUME NEW h \in Hills, NEW m \in Clips, Uploaded(m), Later(h, m) PROVE Later(h, m)'
  <2>1. PICK c \in rows \cup dropped : Uploaded(c) /\ clips[c].hill = h /\ c >= m
    BY <1>7 DEF Later
  <2>2. c \in Clips /\ Uploaded(c)' /\ clips'[c] = clips[c]
    BY <1>1, <1>4, <2>1
  <2>3. CASE c \in rows' \cup dropped'
    BY <2>1, <2>2, <2>3 DEF Later
  <2>4. CASE c \notin rows' \cup dropped'
    <3>1. x.hill = h
      BY <2>1, <2>4
    <3>2. d >= m
      BY <1>1, <1>6, <1>7
    <3> QED BY <1>1, <1>2, <3>1, <3>2 DEF Later
  <2> QED BY <2>3, <2>4
<1> QED BY <1>1, <1>4, <1>5, <1>7 DEF TablesMoved

\* All the steps but one of the players and their clips are steps of the service; that one is a
\* failure elsewhere, and counted.
FailsElsewhere ==
  UNCHANGED <<reigns, handlers, reset, credits, day>> /\ failures' \in 0..MaxFailures

LEMMA ClipsStepIsKoth ==
  ASSUME ClipsInv, [ClipsNext]_vars
  PROVE  [Next]_kvars \/ FailsElsewhere
<1>1. CASE \E u \in Users, h \in Hills : Watch(u, h)
  BY <1>1 DEF Watch
<1>2. CASE \E u \in Users, ms \in 0..MaxMs : HandleOutcome(u, ms)
  BY <1>2 DEF HandleOutcome
<1>3. ASSUME NEW u \in Users, NEW w \in Workers, PlayChallenge(u, w) PROVE Next
  <2>1. play[u] \in Play /\ play[u].phase # "battle" /\ PlayOK(u)
    BY <1>3 DEF PlayChallenge, Step, Away, ClipsInv, Playing
  <2>2. play[u].hill \in Hills /\ play[u].ms \in 0..MaxMs /\ play[u].clip \in Clips
    BY <2>1 DEF Play, PlayOK
  <2> QED BY <1>3, <2>2 DEF PlayChallenge, Next
<1>4. CASE \E u \in Users : Create(u) \/ Evict(u) \/ Quit(u)
  BY <1>4 DEF Create, Evict, Quit
<1>5. CASE \E u \in Users : FailUpload(u)
  <2>1. failures \in 0..MaxFailures /\ failures < MaxFailures /\ failures' = failures + 1
    BY <1>5 DEF FailUpload, MayFail, ClipsInv, Inv, TypeOK
  <2>2. failures' \in 0..MaxFailures
    BY <2>1, KothAssumption
  <2> QED BY <1>5, <2>2 DEF FailUpload, FailsElsewhere
<1>6. CASE \E h \in Hills, ms \in 0..MaxMs : SeedWithClip(h, ms)
  BY <1>6 DEF SeedWithClip, Next
<1>7. CASE \E c \in Clips : Lapse(c)
  BY <1>7 DEF Lapse
<1>8. CASE ExpireByID
  BY <1>8 DEF ExpireByID, Next
<1>9. CASE ServiceNext \/ UNCHANGED vars
  BY <1>9 DEF Next, vars
<1> QED BY <1>1, <1>2, <1>3, <1>4, <1>5, <1>6, <1>7, <1>8, <1>9 DEF ClipsNext

LEMMA KothHolds ==
  ASSUME ClipsInv, [ClipsNext]_vars
  PROVE  Inv' /\ ReignsKept
<1>1. Inv
  BY DEF ClipsInv
<1>2. CASE [Next]_kvars
  BY <1>1, <1>2, TypeStep, JobStep, ResetHolds, LocksStep, ReignsStep, CreditsStep DEF Inv
<1>3. CASE FailsElsewhere
  <2>1. UNCHANGED <<reigns, phase, job, reset, winCredits, finalCredits, day>> /\ failures' \in 0..MaxFailures
    BY <1>3 DEF FailsElsewhere, handlers, credits
  <2>2. TypeOK'
    BY <1>1, <2>1 DEF Inv, TypeOK
  <2>3. (\A w \in Workers : JobOK(w))'
    BY <1>1, <2>1 DEF Inv, JobOK, IsKing, IsWonBy
  <2>4. ResetOK' /\ HillsLocked'
    BY <1>1, <2>1 DEF Inv, ResetOK, HillsLocked, IsStale, IsKing
  <2>5. OneKing' /\ CreditsAreEarned'
    BY <1>1, <2>1 DEF Inv, OneKing, CreditsAreEarned, IsKing
  <2>6. ReignsKept
    BY <2>1 DEF ReignsKept
  <2> QED BY <2>2, <2>3, <2>4, <2>5, <2>6 DEF Inv
<1> QED BY <1>2, <1>3, ClipsStepIsKoth

LEMMA ExpiringStep ==
  ASSUME ClipsInv, [ClipsNext]_vars
  PROVE  ExpiringOK'
<1>1. Inv /\ ExpiringOK /\ ReignsKept /\ reset \in Reset
  BY KothHolds DEF ClipsInv, Inv, TypeOK
<1>2. CASE reset'.phase \notin {"closing", "rewarding", "expiring"}
  BY <1>2 DEF ExpiringOK
<1>3. CASE /\ reset.phase \in {"closing", "rewarding", "expiring"} /\ reset'.king = reset.king
  BY <1>1, <1>3 DEF ExpiringOK, ReignsKept
<1>4. CASE reset' = reset
  BY <1>1, <1>4 DEF ExpiringOK, ReignsKept
<1>5. CASE FoundStale
  <2>1. PICK r \in Reigns : IsStale(r, reset.hill, reset.period) /\ reset'.king = r
    BY <1>1, <1>5 DEF FoundStale, Reset
  <2> QED BY <1>1, <2>1 DEF IsStale, IsKing, ReignsKept, ExpiringOK
<1>6. CASE CheckReset
  BY <1>1, <1>2, <1>6 DEF CheckReset, Reset
<1>7. CASE FoundFresh \/ ExpireKingClip
  BY <1>1, <1>2, <1>7 DEF FoundFresh, ExpireKingClip, NextHill, Reset
<1>8. CASE CloseStale \/ CreditFinal
  BY <1>1, <1>3, <1>8 DEF CloseStale, CreditFinal, Reset
<1>9. CASE FailReset
  BY <1>1, <1>2, <1>3, <1>9 DEF FailReset, NextHill, Reset
<1>10. CASE Crash
  BY <1>1, <1>2, <1>10 DEF Crash
<1>11. CASE \E w \in Workers : Handle(w) \/ Fail(w)
  BY <1>4, <1>11 DEF Handle, Refused, Lost, Outlast, Crown, CreditWin, Fail
<1>12. CASE Midnight \/ FailsElsewhere \/ UNCHANGED kvars
  BY <1>4, <1>12 DEF Midnight, FailsElsewhere, kvars
<1>13. CASE \E h \in Hills, ms \in 0..MaxMs, c \in Clips :
              Seed(h, ms, c) \/ \E w \in Workers, u \in Users : Challenge(w, h, u, ms, c)
  BY <1>4, <1>13 DEF Seed, Challenge
<1> QED BY <1>5, <1>6, <1>7, <1>8, <1>9, <1>10, <1>11, <1>12, <1>13, ClipsStepIsKoth DEF Next, ServiceNext, ResetStep

\* Whatever a step does to the clips, it moves the tables forward.
LEMMA TablesStep ==
  ASSUME ClipsInv, [ClipsNext]_vars
  PROVE  TablesMoved
<1>1. TablesOK /\ InOrder /\ play \in [Users -> Play \cup {Away}]
  BY DEF ClipsInv
<1>2. ASSUME NEW u \in Users, NEW ms \in 0..MaxMs, HandleOutcome(u, ms) PROVE TablesMoved
  <2>1. play[u] \in Play /\ PlayOK(u) /\ play[u].hill \in Hills /\ play[u].shown \in Clips \cup {None}
    BY <1>2 DEF HandleOutcome, Step, ClipsInv, Playing, Play, Away
  <2> PICK held : held = IF play[u].shown # None /\ ms >= clips[play[u].shown].blink
                           THEN clips[play[u].shown].blink ELSE ms
    OBVIOUS
  <2>2. play[u].shown # None => clips[play[u].shown] \in Clip
    BY <1>1, <2>1 DEF TablesOK, PlayOK, Uploaded
  <2>3. held \in 0..MaxMs
    BY <2>2 DEF Clip
  <2> PICK x : x = [hill |-> play[u].hill, blink |-> held]
    OBVIOUS
  <2>4. x \in Clip
    BY <2>1, <2>3 DEF Clip
  <2>5. PICK d \in Clips : IsNextClip(d) /\ clips' = [clips EXCEPT ![d] = x]
    BY <1>2 DEF HandleOutcome
  <2>6. UNCHANGED <<rows, dropped>>
    BY <1>2 DEF HandleOutcome
  <2> QED BY <1>1, <2>4, <2>5, <2>6, UploadMoves
<1>3. ASSUME NEW u \in Users, Create(u) PROVE TablesMoved
  <2>1. PlayOK(u) /\ play[u].phase = "creating" /\ rows' = rows \cup {play[u].clip} /\ UNCHANGED <<clips, dropped>>
    BY <1>3 DEF Create, Step, ClipsInv, Playing
  <2>2. play[u].clip \in Clips /\ Uploaded(play[u].clip)
    BY <2>1 DEF PlayOK
  <2> QED BY <1>1, <2>1, <2>2, CreateMoves
<1>4. ASSUME NEW u \in Users, Evict(u) PROVE TablesMoved
  <2>1. /\ PlayOK(u) /\ play[u].phase = "evicting" /\ play[u] \in Play
        /\ rows' = rows \ Superseded(play[u].clip) /\ UNCHANGED <<clips, dropped>>
    BY <1>4 DEF Evict, Step, ClipsInv, Playing, Away
  <2>2. /\ play[u].clip \in Clips /\ Uploaded(play[u].clip) /\ play[u].hill \in Hills
        /\ clips[play[u].clip].hill = play[u].hill /\ Later(play[u].hill, play[u].clip)
    BY <2>1 DEF PlayOK, Play
  <2> QED BY <1>1, <2>1, <2>2, EvictMoves
<1>5. ASSUME NEW c \in Clips, Delete(c) PROVE TablesMoved
  BY <1>1, <1>5, DeleteMoves
<1>6. CASE ExpireByID
  <2>1. reset.king \in Reigns /\ reigns[reset.king] \in Reign
    BY <1>6 DEF ExpireByID, ExpireKingClip, ClipsInv, ExpiringOK, Inv, TypeOK
  <2>2. reigns[reset.king].clip \in Clips
    BY <2>1 DEF Reign
  <2> QED BY <1>5, <1>6, <2>2 DEF ExpireByID
<1>7. ASSUME NEW h \in Hills, NEW ms \in 0..MaxMs, SeedWithClip(h, ms) PROVE TablesMoved
  <2> PICK x : x = [hill |-> h, blink |-> ms]
    OBVIOUS
  <2>1. x \in Clip /\ x.hill = h
    BY DEF Clip
  <2>2. PICK d \in Clips : /\ IsNextClip(d) /\ clips' = [clips EXCEPT ![d] = x]
                           /\ rows' = (rows \cup {d}) \ {c \in rows : clips[c].hill = h}
    BY <1>7 DEF SeedWithClip
  <2>3. UNCHANGED dropped
    BY <1>7 DEF SeedWithClip
  <2> QED BY <1>1, <2>1, <2>2, <2>3, SeedMoves
<1>8. CASE UNCHANGED cvars
  BY <1>1, <1>8, NothingMoves
<1> QED
  BY <1>2, <1>3, <1>4, <1>5, <1>6, <1>7, <1>8 DEF ClipsNext, Watch, PlayChallenge, FailUpload, Quit, Lapse, vars, cvars

LEMMA PlayerStill ==
  ASSUME ClipsInv, TablesMoved, NEW v \in Users, play'[v] = play[v], Playing(v)
  PROVE  PlayOK(v)'
<1>1. play[v] \in Play /\ PlayOK(v)
  BY DEF ClipsInv, Playing, Away
<1>2. play[v].hill \in Hills /\ play[v].shown \in Clips \cup {None}
  BY <1>1 DEF Play
<1>3. \A c \in Clips : Uploaded(c) => Uploaded(c)' /\ clips'[c] = clips[c]
  BY DEF TablesMoved
<1>4. (play[v].shown # None => Uploaded(play[v].shown))'
  BY <1>1, <1>2, <1>3 DEF PlayOK, Uploaded
<1>5. play[v].phase \in {"creating", "evicting"} =>
        /\ play[v].clip \in Clips /\ Uploaded(play[v].clip)
        /\ Uploaded(play[v].clip)' /\ clips'[play[v].clip].hill = play[v].hill
  BY <1>1, <1>3 DEF PlayOK, Uploaded
<1>6. play[v].phase = "evicting" => Later(play[v].hill, play[v].clip)'
  <2> SUFFICES ASSUME play[v].phase = "evicting" PROVE Later(play[v].hill, play[v].clip)'
    OBVIOUS
  <2> PICK h \in Hills, n \in Clips : h = play[v].hill /\ n = play[v].clip
    BY <1>2, <1>5
  <2>1. h = play'[v].hill /\ n = play'[v].clip
    OBVIOUS
  <2>2. Uploaded(n) /\ Later(h, n)
    BY <1>1, <1>5 DEF PlayOK
  <2>3. Later(h, n)'
    BY <2>2 DEF TablesMoved
  <2> QED BY <2>1, <2>3 DEF Later
<1> QED BY <1>1, <1>4, <1>5, <1>6 DEF PlayOK, Later

\* One player moves to p, and is well there.
LEMMA PlayerMoves ==
  ASSUME ClipsInv, TablesMoved, NEW u \in Users, NEW p \in Play \cup {Away}, play' = [play EXCEPT ![u] = p],
         p # Away => PlayOK(u)'
  PROVE  /\ play' \in [Users -> Play \cup {Away}]
         /\ \A v \in Users : Playing(v)' => PlayOK(v)'
<1>1. /\ play' \in [Users -> Play \cup {Away}] /\ play'[u] = p
      /\ \A v \in Users \ {u} : play'[v] = play[v]
  BY DEF ClipsInv
<1>2. ASSUME NEW v \in Users, Playing(v)' PROVE PlayOK(v)'
  <2>1. CASE v = u
    BY <1>1, <1>2, <2>1 DEF Playing
  <2>2. CASE v # u
    BY <1>1, <1>2, <2>2, PlayerStill DEF Playing
  <2> QED BY <2>1, <2>2
<1> QED BY <1>1, <1>2

\* A player only goes on to a phase of which nothing is asked of the tables.
LEMMA PlayerBecomes ==
  ASSUME ClipsInv, TablesMoved, NEW u \in Users, NEW ph \in {"uploaded", "challenging"}, Playing(u),
         play[u].phase # "battle", Become(u, ph)
  PROVE  /\ play' \in [Users -> Play \cup {Away}]
         /\ \A v \in Users : Playing(v)' => PlayOK(v)'
<1>1. play[u] \in Play /\ PlayOK(u) /\ play \in [Users -> Play \cup {Away}]
  BY DEF ClipsInv, Playing, Away
<1> PICK p : p = [play[u] EXCEPT !.phase = ph]
  OBVIOUS
<1>2. p \in Play /\ p.phase = ph /\ p.shown = play[u].shown /\ p.clip = play[u].clip
  BY <1>1 DEF Play
<1>3. play' = [play EXCEPT ![u] = p] /\ play'[u] = p
  BY <1>1 DEF Become
<1>4. PlayOK(u)'
  BY <1>1, <1>2, <1>3 DEF PlayOK, TablesMoved, Play
<1> QED BY <1>2, <1>3, <1>4, PlayerMoves

LEMMA PlayStep ==
  ASSUME ClipsInv, [ClipsNext]_vars
  PROVE  /\ play' \in [Users -> Play \cup {Away}]
         /\ \A v \in Users : Playing(v)' => PlayOK(v)'
<1>1. TablesMoved /\ TablesOK /\ InOrder /\ play \in [Users -> Play \cup {Away}]
  BY TablesStep DEF ClipsInv
<1>2. CASE play' = play
  <2>1. \A v \in Users : Playing(v)' => PlayOK(v)'
    BY <1>1, <1>2, PlayerStill DEF Playing
  <2> QED BY <1>1, <1>2, <2>1
<1>3. ASSUME NEW u \in Users, NEW h \in Hills, Watch(u, h)
      PROVE  /\ play' \in [Users -> Play \cup {Away}]
             /\ \A v \in Users : Playing(v)' => PlayOK(v)'
  <2> PICK s : s = Shown(h)
    OBVIOUS
  <2> PICK a : a = IF Vacant(h) THEN None ELSE CHOOSE r \in Reigns : IsKing(r, h)
    OBVIOUS
  <2> PICK p : p = [phase |-> "battle", hill |-> h, shown |-> s, against |-> a, outlasted |-> FALSE,
                    ms |-> 0, clip |-> None]
    OBVIOUS
  <2>1. s \in Clips \cup {None} /\ (s # None => s \in rows)
    BY <1>1, ShownIsARow DEF TablesOK
  <2>2. a \in Reigns \cup {None}
    BY DEF Vacant
  <2>3. 0 \in 0..MaxMs
    BY KothAssumption
  <2>4. p \in Play /\ p.phase = "battle" /\ p.shown = s
    BY <2>1, <2>2, <2>3 DEF Play
  <2>5. play' = [play EXCEPT ![u] = p] /\ UNCHANGED cvars
    BY <1>3 DEF Watch
  <2>6. play'[u] = p
    BY <1>1, <2>5
  <2>7. s # None => Uploaded(s)'
    BY <1>1, <2>1, <2>5 DEF InOrder, Uploaded, cvars
  <2>8. PlayOK(u)'
    BY <2>4, <2>6, <2>7 DEF PlayOK, Uploaded
  <2> QED BY <1>1, <2>4, <2>5, <2>8, PlayerMoves
<1>4. ASSUME NEW u \in Users, NEW ms \in 0..MaxMs, HandleOutcome(u, ms)
      PROVE  /\ play' \in [Users -> Play \cup {Away}]
             /\ \A v \in Users : Playing(v)' => PlayOK(v)'
  <2>1. play[u] \in Play /\ PlayOK(u) /\ play[u].hill \in Hills /\ play[u].shown \in Clips \cup {None}
    BY <1>4 DEF HandleOutcome, Step, ClipsInv, Playing, Play, Away
  <2> PICK out \in BOOLEAN : out = (play[u].shown # None /\ ms >= clips[play[u].shown].blink)
    OBVIOUS
  <2> PICK held : held = IF out THEN clips[play[u].shown].blink ELSE ms
    OBVIOUS
  <2>2. play[u].shown # None => clips[play[u].shown] \in Clip
    BY <1>1, <2>1 DEF TablesOK, PlayOK, Uploaded
  <2>3. held \in 0..MaxMs
    BY <2>2 DEF Clip
  <2>4. PICK d \in Clips :
          /\ IsNextClip(d) /\ clips' = [clips EXCEPT ![d] = [hill |-> play[u].hill, blink |-> held]]
          /\ play' = [play EXCEPT ![u] = [@ EXCEPT
               !.phase = "creating", !.clip = d, !.ms = held, !.outlasted = out]]
    BY <1>4 DEF HandleOutcome
  <2> PICK p : p = [play[u] EXCEPT !.phase = "creating", !.clip = d, !.ms = held, !.outlasted = out]
    OBVIOUS
  <2> PICK x : x = [hill |-> play[u].hill, blink |-> held]
    OBVIOUS
  <2>5. /\ p \in Play /\ p.phase = "creating" /\ p.shown = play[u].shown /\ p.clip = d /\ p.hill = play[u].hill
    <3> PICK q : q = play[u]
      OBVIOUS
    <3>1. q \in Play /\ d \in Clips /\ held \in 0..MaxMs /\ out \in BOOLEAN
      BY <2>1, <2>3, <2>4
    <3>2. p = [q EXCEPT !.phase = "creating", !.clip = d, !.ms = held, !.outlasted = out]
      OBVIOUS
    <3>3. p \in Play
      BY <3>1, <3>2 DEF Play
    <3>4. p.phase = "creating" /\ p.shown = q.shown /\ p.clip = d /\ p.hill = q.hill
      BY <3>1, <3>2 DEF Play
    <3> QED BY <3>3, <3>4
  <2>6. play' = [play EXCEPT ![u] = p] /\ play'[u] = p
    BY <1>1, <2>4
  <2>7. x \in Clip /\ x.hill = play[u].hill
    BY <2>1, <2>3 DEF Clip
  <2>8. clips'[d] = x /\ Uploaded(d)'
    <3>1. IsNextClip(d) /\ clips' = [clips EXCEPT ![d] = x]
      BY <2>4
    <3>2. TablesOK /\ InOrder /\ x \in Clip
      BY <1>1, <2>7
    <3>3. clips'[d] = x
      BY <3>1, <3>2 DEF TablesOK
    <3>4. x # None
      BY <3>2, ClipAssumption
    <3> QED BY <3>3, <3>4 DEF Uploaded
  <2>9. p.shown # None => Uploaded(p.shown)'
    BY <1>1, <2>1, <2>5 DEF TablesMoved, PlayOK
  <2>10. p.clip \in Clips /\ Uploaded(p.clip)' /\ clips'[p.clip].hill = p.hill
    BY <2>5, <2>7, <2>8
  <2>11. PlayOK(u)'
    <3>1. play'[u] = p /\ p.phase = "creating" /\ p.phase # "battle" /\ p.phase # "evicting"
      BY <2>5, <2>6
    <3> QED BY <2>9, <2>10, <3>1, Zenon DEF PlayOK, Uploaded
  <2> QED BY <1>1, <2>5, <2>6, <2>11, PlayerMoves
<1>5. ASSUME NEW u \in Users, Create(u)
      PROVE  /\ play' \in [Users -> Play \cup {Away}]
             /\ \A v \in Users : Playing(v)' => PlayOK(v)'
  <2>1. /\ play[u] \in Play /\ PlayOK(u) /\ play[u].phase = "creating"
        /\ rows' = rows \cup {play[u].clip} /\ UNCHANGED <<clips, dropped>>
    BY <1>5 DEF Create, Step, ClipsInv, Playing, Away
  <2>2. play[u].clip \in Clips /\ Uploaded(play[u].clip) /\ clips[play[u].clip].hill = play[u].hill
        /\ play[u].shown \in Clips \cup {None}
    BY <2>1 DEF PlayOK, Play
  <2> PICK p : p = [play[u] EXCEPT !.phase = "evicting"]
    OBVIOUS
  <2>3. /\ p \in Play /\ p.phase = "evicting" /\ p.shown = play[u].shown /\ p.clip = play[u].clip
        /\ p.hill = play[u].hill
    BY <2>1 DEF Play
  <2>4. play' = [play EXCEPT ![u] = p] /\ play'[u] = p
    BY <1>1, <1>5 DEF Create, Become
  <2>5. play[u].clip >= play[u].clip
    <3>1. play[u].clip \in Nat
      BY <2>2, ClipAssumption
    <3> QED BY <3>1
  <2>6. Later(p.hill, p.clip)'
    BY <2>1, <2>2, <2>3, <2>5 DEF Later, Uploaded
  <2>7. PlayOK(u)'
    BY <2>1, <2>2, <2>3, <2>4, <2>6 DEF PlayOK, Uploaded, Later
  <2> QED BY <1>1, <2>3, <2>4, <2>7, PlayerMoves
<1>6. ASSUME NEW u \in Users, Evict(u) \/ (Step(u, "evicting") /\ Become(u, "uploaded"))
      PROVE  /\ play' \in [Users -> Play \cup {Away}]
             /\ \A v \in Users : Playing(v)' => PlayOK(v)'
  BY <1>1, <1>6, PlayerBecomes DEF Evict, Step, Playing
<1>7. ASSUME NEW u \in Users, NEW w \in Workers, PlayChallenge(u, w)
      PROVE  /\ play' \in [Users -> Play \cup {Away}]
             /\ \A v \in Users : Playing(v)' => PlayOK(v)'
  BY <1>1, <1>7, PlayerBecomes DEF PlayChallenge, Step, Playing
<1>8. ASSUME NEW u \in Users, Leave(u)
      PROVE  /\ play' \in [Users -> Play \cup {Away}]
             /\ \A v \in Users : Playing(v)' => PlayOK(v)'
  BY <1>1, <1>8, PlayerMoves DEF Leave
<1>9. CASE (\E h \in Hills, ms \in 0..MaxMs : SeedWithClip(h, ms)) \/ (\E c \in Clips : Lapse(c)) \/ ExpireByID
           \/ (ServiceNext /\ UNCHANGED <<cvars, play>>) \/ UNCHANGED vars
  BY <1>2, <1>9 DEF SeedWithClip, Lapse, ExpireByID, vars
<1>10. CASE \E u \in Users : FailUpload(u)
  <2>1. PICK u \in Users : (Step(u, "creating") /\ Leave(u)) \/ (Step(u, "evicting") /\ Become(u, "uploaded"))
    BY <1>10 DEF FailUpload
  <2> QED BY <1>6, <1>8, <2>1
<1>11. CASE \E u \in Users : Quit(u)
  BY <1>8, <1>11 DEF Quit
<1> QED BY <1>3, <1>4, <1>5, <1>6, <1>7, <1>9, <1>10, <1>11 DEF ClipsNext

LEMMA ClipsStepInv ==
  ASSUME ClipsInv, [ClipsNext]_vars
  PROVE  ClipsInv'
BY KothHolds, ExpiringStep, TablesStep, PlayStep DEF ClipsInv, TablesMoved

LEMMA ClipsFirst == ClipsInit => ClipsInv
<1> SUFFICES ASSUME ClipsInit PROVE ClipsInv
  OBVIOUS
<1>1. Inv /\ ExpiringOK
  BY InitHolds DEF ClipsInit, Init, ExpiringOK
<1>2. TablesOK /\ InOrder
  BY FS_EmptySet DEF ClipsInit, TablesOK, InOrder, Uploaded
<1>3. play \in [Users -> Play \cup {Away}] /\ \A u \in Users : ~Playing(u)
  BY DEF ClipsInit, Playing
<1> QED BY <1>1, <1>2, <1>3 DEF ClipsInv

LEMMA ClipsAlways == ScreensSpec => []ClipsInv
<1>1. ScreensInit => ClipsInv
  BY ClipsFirst DEF ScreensInit
<1>2. ClipsInv /\ [ScreensNext]_scenesVars => ClipsInv'
  <2>1. [ScreensNext]_scenesVars => [ClipsNext]_vars
    BY DEF ScreensNext, scenesVars
  <2> QED BY <2>1, ClipsStepInv
<1> QED BY <1>1, <1>2, PTL DEF ScreensSpec

\* The clip of a hill gives way only to a later one, or to its owner or the reset who delete it,
\* whatever uploads cross: of two uploads that evict at a time neither takes the clip of the
\* later one (Upload of king_clip_service.go).
THEOREM ClipAlwaysGivesWayToLater == ScreensSpec => ClipGivesWayToLater
<1>1. ClipsInv /\ [ScreensNext]_scenesVars =>
        [\A h \in Hills, s \in rows :
           IsShown(s, h) => \E c \in rows' \cup dropped' : clips'[c].hill = h /\ c >= s]_vars
  <2> SUFFICES ASSUME ClipsInv, [ScreensNext]_scenesVars, NEW h \in Hills, NEW s \in rows, IsShown(s, h)
               PROVE  \E c \in rows' \cup dropped' : clips'[c].hill = h /\ c >= s
    OBVIOUS
  <2>1. TablesMoved
    BY TablesStep DEF ScreensNext, scenesVars
  <2>2. s \in Clips /\ Uploaded(s) /\ clips[s].hill = h /\ s \in Nat
    BY ClipAssumption DEF IsShown, ClipsInv, TablesOK, InOrder
  <2>3. s >= s
    BY <2>2
  <2>4. Later(h, s)
    BY <2>2, <2>3 DEF Later
  <2>5. Later(h, s)'
    BY <2>1, <2>2, <2>4 DEF TablesMoved
  <2> QED BY <2>5 DEF Later
<1> QED BY <1>1, ClipsAlways, PTL DEF ScreensSpec, ClipGivesWayToLater

\* Each screen keeps its state well formed.
THEOREM ScreensTypeCorrect == ScreensSpec => []ScreensTypeOK
<1>1. PagesInv /\ PeerInv /\ ClipsInv => ScreensTypeOK
  BY DEF PagesInv, PageInv, PeerInv, ClipsInv, TablesOK, ClipsTypeOK, Inv, ScreensTypeOK
<1> QED BY <1>1, PagesAlways, PeerAlways, ClipsAlways, PTL

----------------------------------------------------------------------------
(* The hills, with the players and their clips *)

LEMMA ClipsInvariant == ClipsSpec => []ClipsInv
<1>1. ClipsInv /\ [ClipsNext]_vars => ClipsInv'
  BY ClipsStepInv
<1> QED BY <1>1, ClipsFirst, PTL DEF ClipsSpec

\* A player is credited only for a crown he took or kept to the end of a period, though challenges
\* come from browsers that are shown one clip while another takes its place, with ids of clips that
\* may be gone.
THEOREM CreditsAreEarnedByPlayers == ClipsSpec => []CreditsAreEarned
<1>1. ClipsInv => CreditsAreEarned
  BY DEF ClipsInv, Inv
<1> QED BY <1>1, ClipsInvariant, PTL

\* The players, their clips and the koth service together still implement the hill.
THEOREM PlayersImplementHill == ClipsSpec => ImplementsHill
<1>1. ClipsInit => Abstract!Init
  BY HillFirst DEF ClipsInit
<1>2. ClipsInv /\ [ClipsNext]_vars => [Abstract!Next]_<<[h \in Hills |-> KingOf(h)], Champions>>
  <2> SUFFICES ASSUME ClipsInv, [ClipsNext]_vars
               PROVE  [Abstract!Next]_<<[h \in Hills |-> KingOf(h)], Champions>>
    OBVIOUS
  <2>1. Inv
    BY DEF ClipsInv
  <2>2. CASE [Next]_kvars
    BY <2>1, <2>2, HillStep
  <2>3. CASE FailsElsewhere
    <3>1. reigns' = reigns
      BY <2>3 DEF FailsElsewhere
    <3> QED BY <3>1, HillStill
  <2> QED BY <2>2, <2>3, ClipsStepIsKoth
<1> QED BY <1>1, <1>2, ClipsInvariant, PTL DEF ClipsSpec, ImplementsHill, Abstract!Spec, Abstract!hvars
============================================================================
