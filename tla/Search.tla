------------------------------- MODULE Search -------------------------------
(***************************************************************************)
(* The search page: it joins the matchmaking queue once its socket is open  *)
(* and a face is seen, and goes on to the battle it is matched for.         *)
(***************************************************************************)
EXTENDS Screen

VARIABLES
  joined,   \* joinedRef
  wsOpen,   \* wsOpenRef, which stays true when the socket is lost
  queue     \* the player on this socket, as the server knows: "out", "in", "left", "matched" or "cut"

searchVars == <<joined, wsOpen, queue>>

SearchTypeOK ==
  /\ joined \in BOOLEAN /\ wsOpen \in BOOLEAN
  /\ queue \in {"out", "in", "left", "matched", "cut"}

SearchInit == joined = FALSE /\ wsOpen = FALSE /\ queue = "out"

\* maybeJoin: an open socket, a face and no join yet. On a lost socket the join is discarded; on a
\* closed one send throws, which ends the loop of frames it is called from.
MaybeJoin(open, face) ==
  LET joins == ~joined /\ open /\ face IN
  /\ joined' = (joined \/ (joins /\ socket' # "closed"))
  /\ queue' = IF joins /\ socket' = "open" THEN "in" ELSE queue
  /\ raf' = (raf /\ ~(joins /\ socket' = "closed"))

\* A leave is sent before the socket is closed, once, and by a player who joined only.
LeaveIsSent(asked) == asked /\ joined /\ Delivers
TeardownSearch(asked) ==
  IF tornDown
    THEN UNCHANGED <<tornDown, socket, queue>>
    ELSE /\ tornDown' = TRUE
         /\ socket' = Closed
         /\ queue' = IF LeaveIsSent(asked) THEN "left" ELSE queue

SearchOpens ==
  /\ socket = "connecting"
  /\ socket' = "open"
  /\ wsOpen' = TRUE
  /\ MaybeJoin(TRUE, facePresent)
  /\ UNCHANGED <<page, shown, camera, engine, facePresent, tornDown>>

SearchLost ==
  /\ SocketLost
  /\ queue' = (IF queue = "in" THEN "cut" ELSE queue)
  /\ UNCHANGED <<joined, wsOpen>>

SearchFace ==
  /\ raf /\ camera = "live"
  /\ engine' = AfterFace(engine, {})
  /\ facePresent' = (facePresent \/ FiresFacePresent(engine))
  /\ UNCHANGED <<page, shown, camera, socket, tornDown, wsOpen>>
  /\ IF FiresFacePresent(engine) THEN MaybeJoin(wsOpen, TRUE) ELSE UNCHANGED <<joined, queue, raf>>

\* Whoever shows no face is taken home, whatever else he was taken to a moment ago.
SearchNoFace ==
  /\ raf /\ camera = "live"
  /\ engine' = AfterNoFace(engine)
  /\ IF FiresFaceLost(engine)
       THEN TeardownSearch(TRUE) /\ Navigate("home")
       ELSE UNCHANGED <<page, shown, socket, tornDown, queue>>
  /\ UNCHANGED <<camera, raf, facePresent, joined, wsOpen>>

HearMatched ==
  /\ Delivers /\ queue = "in"
  /\ tornDown' = TRUE
  /\ socket' = Closed
  /\ queue' = "matched"
  /\ Navigate("battle")
  /\ UNCHANGED <<camera, engine, raf, facePresent, joined, wsOpen>>

\* The unmount leaves the queue, unless the page was torn down before.
UnmountSearch ==
  /\ CleanedUp
  /\ queue' = (IF ~tornDown /\ LeaveIsSent(TRUE) THEN "left" ELSE queue)
  /\ UNCHANGED <<joined, wsOpen>>

SearchNext ==
  \/ SearchOpens \/ SearchLost
  \/ CameraAnswers /\ UNCHANGED searchVars
  \/ SearchFace \/ SearchNoFace
  \/ HearMatched
  \/ UserLeaves /\ UNCHANGED searchVars
  \/ UnmountSearch

SearchSpec ==
  ScreenInit("connecting", "asking") /\ SearchInit /\ [][SearchNext]_<<screenVars, searchVars>>

----------------------------------------------------------------------------
(* Properties *)

\* Whichever of the ways out of the search a player takes, and in whatever order the socket, the
\* face and the match come, the server does not keep him in its queue after the page is gone, and
\* he is in it only by a join of a page that saw a face (maybeJoin and teardown of Search.tsx).
QueueIsLeft ==
  /\ page = "gone" => queue # "in"
  /\ queue = "in" => joined /\ facePresent /\ Delivers
  /\ queue = "matched" => tornDown
=============================================================================
