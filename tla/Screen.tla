------------------------------- MODULE Screen -------------------------------
(***************************************************************************)
(* What the screens with a camera have in common: the page is mounted, the  *)
(* router leaves it and a little later unmounts it; meanwhile animation     *)
(* frames, the camera and a WebSocket go on calling back.                   *)
(***************************************************************************)
EXTENDS CvEngine

VARIABLES
  page,         \* "mounted", "leaving" once the router goes elsewhere, "gone" once unmounted
  shown,        \* the page the player was sent to last
  camera,       \* "asking", "live" or "off"
  engine,       \* the state of the CV engine
  raf,          \* an animation frame is scheduled
  socket,       \* the page's WsClient
  facePresent,  \* facePresentRef
  tornDown      \* teardownRef

screenVars == <<page, shown, camera, engine, raf, socket, facePresent, tornDown>>

Pages == {"here", "home", "battle", "results", "elsewhere"}

ScreenTypeOK ==
  /\ page \in {"mounted", "leaving", "gone"}
  /\ shown \in Pages
  /\ camera \in {"asking", "live", "off"}
  /\ engine \in EngineStates
  /\ raf \in BOOLEAN
  /\ socket \in {"none", "connecting", "open", "lost", "closed"}
  /\ facePresent \in BOOLEAN
  /\ tornDown \in BOOLEAN

\* The mount effects: the engine runs before the camera delivers, the guards are reset.
ScreenInit(firstSocket, firstCamera) ==
  /\ page = "mounted"
  /\ shown = "here"
  /\ camera = firstCamera
  /\ engine = Started
  /\ raf = TRUE
  /\ socket = firstSocket
  /\ facePresent = FALSE
  /\ tornDown = FALSE

Here == page # "gone"

----------------------------------------------------------------------------
(* The socket. A WsClient that was closed forgets its WebSocket: no callback *)
(* comes any more, and send throws. send throws on a connecting one as well, *)
(* and is discarded by one that was lost.                                    *)

SendThrows == socket \in {"none", "connecting", "closed"}
Delivers == socket = "open"

Closed == IF socket = "none" THEN "none" ELSE "closed"

\* The connection breaks, or is never made; no page registers onClose.
SocketLost ==
  /\ socket \in {"connecting", "open"}
  /\ socket' = "lost"
  /\ UNCHANGED <<page, shown, camera, engine, raf, facePresent, tornDown>>

----------------------------------------------------------------------------
(* The router *)

Navigate(to) == shown' = to /\ page' = IF page = "mounted" THEN "leaving" ELSE page

\* The player uses the browser's own navigation.
UserLeaves ==
  /\ page = "mounted"
  /\ Navigate("elsewhere")
  /\ UNCHANGED <<camera, engine, raf, socket, facePresent, tornDown>>

\* The cleanups of an unmount: CvComponent's, the page's teardown, the camera effect's.
CleanedUp ==
  /\ page = "leaving"
  /\ page' = "gone"
  /\ engine' = Idle
  /\ raf' = FALSE
  /\ socket' = (IF tornDown THEN socket ELSE Closed)
  /\ tornDown' = TRUE
  /\ camera' = (IF camera = "live" THEN "off" ELSE camera)
  /\ UNCHANGED <<shown, facePresent>>

\* The stream arrives, or every attempt fails. One that arrives after the unmount is stopped at once.
Kept_Always == TRUE   \* mutation: cancelled is not looked at
Kept == Here
CameraAnswers ==
  /\ camera = "asking"
  /\ camera' \in {IF Kept THEN "live" ELSE "off", "off"}
  /\ UNCHANGED <<page, shown, engine, raf, socket, facePresent, tornDown>>
============================================================================
