------------------------------ MODULE CvEngine ------------------------------
(***************************************************************************)
(* The engine every screen with a camera runs on animation frames: what one *)
(* frame makes of its counters, and which callback it fires. Landmarks are  *)
(* abstracted to the set of eyes whose smoothed ratio is below threshold.   *)
(***************************************************************************)
EXTENDS Naturals, FiniteSets

CONSTANTS
  EyeNames,           \* the two eyes
  CalibrationFrames,
  NoFaceWindow,       \* frames without a face after which it is lost
  BlinkFrames         \* frames an eye is closed for a blink

ASSUME CvEngineAssumption ==
  /\ CalibrationFrames \in Nat \ {0}
  /\ NoFaceWindow \in Nat \ {0}
  /\ BlinkFrames \in Nat \ {0}

\* noFace and below are not read beyond the limits they are capped at.
EngineStates ==
  [state : {"idle", "calibrating", "running"}, calibration : 0..CalibrationFrames,
   below : [EyeNames -> 0..BlinkFrames], blinkFired : BOOLEAN,
   facePresent : BOOLEAN, noFace : 0..NoFaceWindow + 1]

Idle ==
  [state |-> "idle", calibration |-> 0, below |-> [y \in EyeNames |-> 0], blinkFired |-> FALSE,
   facePresent |-> FALSE, noFace |-> 0]

Started == [Idle EXCEPT !.state = "calibrating"]

Capped(n, limit) == IF n < limit THEN n + 1 ELSE limit

\* A frame without a face; the callback fires on the frame that completes the window only.
AfterNoFace(e) ==
  [e EXCEPT !.noFace = Capped(@, NoFaceWindow + 1),
            !.facePresent = @ /\ e.noFace + 1 # NoFaceWindow]
FiresFaceLost(e) == e.facePresent /\ e.noFace + 1 = NoFaceWindow

FiresFacePresent(e) == ~e.facePresent

Calibrated(e) ==
  [e EXCEPT !.calibration = @ + 1,
            !.state = IF e.calibration + 1 >= CalibrationFrames THEN "running" ELSE @]

\* The latch is re-armed once both eyes are open again, and set by a blink.
Below(e, closed) == [y \in EyeNames |-> IF y \in closed THEN Capped(e.below[y], BlinkFrames) ELSE 0]
Latched(e, closed) == e.blinkFired /\ closed # {}
FiresBlink(e, closed) ==
  /\ e.state = "running"
  /\ ~Latched(e, closed)
  /\ \E y \in EyeNames : Below(e, closed)[y] >= BlinkFrames

Detected(e, closed) ==
  [e EXCEPT !.below = Below(e, closed),
            !.blinkFired = Latched(e, closed) \/ FiresBlink(e, closed)]

\* A confident frame with a face.
AfterFace(e, closed) ==
  LET seen == [e EXCEPT !.facePresent = TRUE, !.noFace = 0] IN
  IF e.state = "calibrating" THEN Calibrated(seen) ELSE Detected(seen, closed)
============================================================================
