------------------------------ MODULE MCScreens ------------------------------
(***************************************************************************)
(* The screens in one run: a behaviour is one of a single screen, chosen at *)
(* the start, while the others stay in their initial states.                *)
(***************************************************************************)
EXTENDS Battle, Search, Peer, KingClips

VARIABLE scene

scenesVars == <<scene, screenVars, battleVars, searchVars, peerVars, vars>>

ScreensInit ==
  /\ scene \in {"battle", "search", "peer", "hill"}
  /\ ScreenInit("connecting", "asking")
  /\ BattleInit /\ SearchInit /\ PeerInit /\ ClipsInit

ScreensNext ==
  /\ UNCHANGED scene
  /\ \/ /\ scene = "battle" /\ BattleNext
        /\ UNCHANGED <<searchVars, peerVars, vars>>
     \/ /\ scene = "search" /\ SearchNext
        /\ UNCHANGED <<battleVars, peerVars, vars>>
     \/ /\ scene = "peer" /\ PeerNext
        /\ UNCHANGED <<screenVars, battleVars, searchVars, vars>>
     \/ /\ scene = "hill" /\ ClipsNext
        /\ UNCHANGED <<screenVars, battleVars, searchVars, peerVars>>

ScreensSpec == ScreensInit /\ [][ScreensNext]_scenesVars /\ BattleFairness

\* Every screen keeps its state well formed.
ScreensTypeOK == ScreenTypeOK /\ BattleTypeOK /\ SearchTypeOK /\ PeerTypeOK /\ ClipsTypeOK

\* Once a page is gone, whichever way the player took and whatever answered late, its camera is
\* off, its socket is closed, no animation frame, timer or recorder of it is left, no peer holds
\* a stream, and the server does not keep the player in its queue (the cleanups of Battle.tsx,
\* Search.tsx and their children).
NothingIsLeftOn ==
  /\ page = "gone" =>
       /\ camera # "live" /\ ~raf /\ socket \notin {"connecting", "open"}
       /\ scene = "battle" => ~sanityTimer /\ remaining = 0 /\ ~recorder /\ rtc # "live"
  /\ scene = "search" => QueueIsLeft

----------------------------------------------------------------------------
CONSTANTS w1, u1, u2
==============================================================================
