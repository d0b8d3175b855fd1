-------------------------------- MODULE Peer --------------------------------
(***************************************************************************)
(* One WebRTC peer: it joins its room first, offers, answers and exchanges  *)
(* ICE candidates over the signaling socket. The handlers of frames are     *)
(* asynchronous: each step of one waits for the browser, and other frames   *)
(* come in between. The other peer and the server are the environment.      *)
(***************************************************************************)
EXTENDS Naturals, Sequences, SequencesExt, FiniteSets

CONSTANTS
  Candidates,   \* ICE candidates of the other peer
  MaxOwn,       \* bound on candidates of this one
  MaxErrors     \* bound on calls of the browser's peer connection that fail

ASSUME PeerAssumption == MaxOwn \in Nat /\ MaxErrors \in Nat

VARIABLES
  ws,            \* "connecting", "open" or "closed"
  wire,          \* frames sent
  outboundQueue, \* frames kept until the socket is open
  said,          \* the frames this peer had to send, in order
  offer,         \* the own offer: "needed", "created", "sent" or "failed"
  gathered,      \* own candidates so far
  handler,       \* of the other side's offer and answer: its step, and the candidates it has left
  described,     \* the peer connection has a remote description
  remoteSet,     \* remoteDescriptionSet
  pending,       \* pendingCandidates
  arrived,       \* candidates received
  applying,      \* candidates given to the peer connection by the handlers of their frames
  applied,       \* candidates the peer connection took
  errors         \* calls that failed so far

sendVars == <<wire, outboundQueue, said>>
receiveVars == <<handler, described, remoteSet, pending, arrived, applying, applied>>
peerVars == <<ws, sendVars, offer, gathered, receiveVars, errors>>

Frames == {"join", "offer", "answer", "ice"}
Kinds == {"offer", "answer"}

PeerTypeOK ==
  /\ ws \in {"connecting", "open", "closed"}
  /\ wire \in Seq(Frames) /\ outboundQueue \in Seq(Frames) /\ said \in Seq(Frames)
  /\ offer \in {"needed", "created", "sent", "failed"}
  /\ gathered \in 0..MaxOwn
  /\ handler \in [Kinds -> [step : {"none", "set", "flush", "answer", "over", "failed"}, left : Seq(Candidates)]]
  /\ described \in BOOLEAN /\ remoteSet \in BOOLEAN
  /\ pending \in Seq(Candidates)
  /\ arrived \subseteq Candidates /\ applying \subseteq Candidates /\ applied \subseteq Candidates
  /\ errors \in 0..MaxErrors

PeerInit ==
  /\ ws = "connecting"
  /\ wire = <<>> /\ outboundQueue = <<>> /\ said = <<>>
  /\ offer = "needed"
  /\ gathered = 0
  /\ handler = [k \in Kinds |-> [step |-> "none", left |-> <<>>]]
  /\ described = FALSE /\ remoteSet = FALSE
  /\ pending = <<>>
  /\ arrived = {} /\ applying = {} /\ applied = {}
  /\ errors = 0

\* A call of the peer connection is rejected; handlers log it and end there.
Rejected == errors < MaxErrors /\ errors' = errors + 1

----------------------------------------------------------------------------
(* Sending *)

SendOrBuffer(frame) ==
  /\ said' = Append(said, frame)
  /\ wire' = (IF ws = "open" THEN Append(wire, frame) ELSE wire)
  /\ outboundQueue' = (IF ws = "connecting" THEN Append(outboundQueue, frame) ELSE outboundQueue)

\* The join goes first, then what was kept, in its order.
PeerOpens ==
  /\ ws = "connecting"
  /\ ws' = "open"
  /\ wire' = <<"join">> \o outboundQueue
  /\ outboundQueue' = <<>>
  /\ UNCHANGED <<said, offer, gathered, receiveVars, errors>>

CreateOffer ==
  /\ offer = "needed"
  /\ \/ offer' = "created" /\ UNCHANGED errors
     \/ offer' = "failed" /\ Rejected
  /\ UNCHANGED <<ws, sendVars, gathered, receiveVars>>

SetLocalOffer ==
  /\ offer = "created"
  /\ \/ offer' = "sent" /\ SendOrBuffer("offer") /\ UNCHANGED errors
     \/ offer' = "failed" /\ Rejected /\ UNCHANGED sendVars
  /\ UNCHANGED <<ws, gathered, receiveVars>>

\* Candidates are gathered once there is a local description.
OnIceCandidate ==
  /\ offer = "sent" \/ handler["offer"].step = "over"
  /\ gathered < MaxOwn
  /\ gathered' = gathered + 1
  /\ SendOrBuffer("ice")
  /\ UNCHANGED <<ws, offer, receiveVars, errors>>

----------------------------------------------------------------------------
(* Receiving *)

HandlerAt(k, step, left) == handler' = [handler EXCEPT ![k] = [step |-> step, left |-> left]]

\* The flag is raised once the description is set, not when it comes.
RaisedBy_Arrival(step) == TRUE   \* mutation
RaisedBy(step) == step = "set"

ReceiveDescription(k) ==
  /\ ws = "open"
  /\ handler[k].step = "none"
  /\ HandlerAt(k, "set", <<>>)
  /\ remoteSet' = (remoteSet \/ RaisedBy("none"))
  /\ UNCHANGED <<ws, sendVars, offer, gathered, described, pending, arrived, applying, applied, errors>>

\* With nothing left to apply, the queue is emptied and an offer is answered.
Flush(k, left) ==
  IF left = <<>>
    THEN pending' = <<>> /\ HandlerAt(k, IF k = "offer" THEN "answer" ELSE "over", <<>>)
    ELSE UNCHANGED pending /\ HandlerAt(k, "flush", left)

SetRemoteDescription(k) ==
  /\ handler[k].step = "set"
  /\ \/ /\ described' = TRUE
        /\ remoteSet' = (remoteSet \/ RaisedBy("set"))
        /\ Flush(k, pending)
        /\ UNCHANGED errors
     \/ Rejected /\ HandlerAt(k, "failed", <<>>) /\ UNCHANGED <<described, remoteSet, pending>>
  /\ UNCHANGED <<ws, sendVars, offer, gathered, arrived, applying, applied>>

\* A rejected candidate ends the handler: the rest of the queue and the answer are lost.
FlushCandidate(k) ==
  /\ handler[k].step = "flush"
  /\ \/ /\ applied' = applied \cup {Head(handler[k].left)}
        /\ Flush(k, Tail(handler[k].left))
        /\ UNCHANGED errors
     \/ Rejected /\ HandlerAt(k, "failed", <<>>) /\ UNCHANGED <<applied, pending>>
  /\ UNCHANGED <<ws, sendVars, offer, gathered, described, remoteSet, arrived, applying>>

\* The answer is sent directly: its offer came over the open socket.
Answer ==
  /\ handler["offer"].step = "answer"
  /\ \/ HandlerAt("offer", "over", <<>>) /\ SendOrBuffer("answer") /\ UNCHANGED errors
     \/ Rejected /\ HandlerAt("offer", "failed", <<>>) /\ UNCHANGED sendVars
  /\ UNCHANGED <<ws, offer, gathered, described, remoteSet, pending, arrived, applying, applied>>

ReceiveCandidate(c) ==
  /\ ws = "open"
  /\ c \notin arrived
  /\ arrived' = arrived \cup {c}
  /\ IF remoteSet
       THEN applying' = applying \cup {c} /\ UNCHANGED pending
       ELSE pending' = Append(pending, c) /\ UNCHANGED applying
  /\ UNCHANGED <<ws, sendVars, offer, gathered, handler, described, remoteSet, applied, errors>>

\* Without a remote description the peer connection rejects a candidate.
AddIceCandidate(c) ==
  /\ c \in applying
  /\ applying' = applying \ {c}
  /\ \/ applied' = (IF described THEN applied \cup {c} ELSE applied) /\ UNCHANGED errors
     \/ Rejected /\ UNCHANGED applied
  /\ UNCHANGED <<ws, sendVars, offer, gathered, handler, described, remoteSet, pending, arrived>>

\* The other peer left, the server answered with an error, or the page is unmounted.
ClosePeer ==
  /\ ws # "closed"
  /\ ws' = "closed"
  /\ UNCHANGED <<sendVars, offer, gathered, receiveVars, errors>>

PeerNext ==
  \/ PeerOpens \/ CreateOffer \/ SetLocalOffer \/ OnIceCandidate \/ Answer \/ ClosePeer
  \/ \E k \in Kinds : ReceiveDescription(k) \/ SetRemoteDescription(k) \/ FlushCandidate(k)
  \/ \E c \in Candidates : ReceiveCandidate(c) \/ AddIceCandidate(c)

PeerSpec == PeerInit /\ [][PeerNext]_peerVars

----------------------------------------------------------------------------
(* Properties *)

\* "join MUST be the first frame the server sees", "queue ICE candidates until remote description
\* is established" (rtc/index.ts:176, 296): in whatever order the socket, the descriptions and the
\* candidates come, what this peer says follows its join in the order it was said, and a candidate
\* received is waiting, being applied or applied, unless a call of the browser failed.
NothingSaidIsLost ==
  /\ wire # <<>> => wire[1] = "join" /\ IsPrefix(Tail(wire), said)
  /\ ws = "open" => Len(wire) = 1 + Len(said)
  /\ errors = 0 =>
       arrived = Range(pending) \cup applying \cup applied
                   \cup UNION {Range(handler[k].left) : k \in Kinds}
  /\ remoteSet /\ errors = 0 => \A c \in Range(pending) : \E k \in Kinds : handler[k].step = "flush"
=============================================================================
