--------------------------- MODULE ReceiverSession ---------------------------
(***************************************************************************)
(* One ReceiverSession of the phone (receiver-session.ts) from connect() to  *)
(* its end: sockets, sessions, the receiving peer and what drives the        *)
(* reconnection.                                                             *)
(*                                                                           *)
(* An action is one callback with everything it calls.  The TURN fetch, the  *)
(* acceptance of an offer, the keys of beginPeerAuth, the timer and the      *)
(* verifications of the handshake end in callbacks of their own, whatever    *)
(* has happened since; `late' records that one of them has acted when its    *)
(* session was over.  The server, the desktop and the network are free to    *)
(* answer in any order; the handshake itself is the module PeerHandshake.    *)
(***************************************************************************)
EXTENDS Naturals

CONSTANTS
  MaxSockets,  \* bound: sockets that are opened
  MaxSessions  \* bound: sessions that are accepted

Sockets == 1..MaxSockets
Sessions == 1..MaxSessions

ASSUME SocketsAssumption == MaxSockets \in Nat
ASSUME SessionsAssumption == MaxSessions \in Nat

VARIABLES
  phase,
  socket,      \* `socket', 0 for null
  conn,        \* the sockets that were made
  now,         \* the number of the last session
  sid,         \* `sessionIdValue', 0 for null; controlSender goes with it
  peer,        \* `peer'
  held,        \* the session of `pendingOfferSdp', 0 for null
  fetching,    \* openPeerWithTurn: sessions whose servers are being fetched
  accepts,     \* acceptOffer: the promise for the offer of each session
  reading,     \* beginPeerAuth: sessions for which keys are being read
  handshake,   \* `handshake': the session it was made for, 0 for null
  unsettled,   \* sessions whose handshake has its ten seconds running
  checking,    \* sessions whose handshake verifies a proof
  retries,     \* timers of 1.5 s that are running
  since,       \* `reconnectingSinceMs' and whether the window is over
  pings,       \* `pingTimer' runs
  over,        \* history: the session has ended for its user
  overtime,    \* history: attempts begun after the window
  late,        \* history: something has acted after its session
  unretried,   \* history: `reconnecting' was shown and nothing retries
  unwound      \* history: a socket was dropped before it had closed

auth == <<reading, handshake, unsettled, checking>>
async == <<fetching, accepts, reading, unsettled, checking>>
vars == <<phase, socket, conn, now, sid, peer, held, fetching, accepts, auth,
          retries, since, pings, over, overtime, late, unretried, unwound>>

Phases == {"idle", "connecting", "requesting", "signaling", "peer-connected",
           "authenticating", "active", "reconnecting", "ended"}
Replies == {"hello.ok", "answer"}
Conns ==
  [st : {"unused", "connecting", "open", "closing", "gone"},
   due : SUBSET Replies,        \* what the server has been asked on it
   session : Sessions \cup {0}, \* the session accepted on it
   offered : BOOLEAN]           \* its offer has been relayed
Unused == [st |-> "unused", due |-> {}, session |-> 0, offered |-> FALSE]

(* `sdp' is the session of the last offer the peer has taken.                *)
Peers == [st : {"none", "new", "answered", "connected", "open"}, sdp : Sessions \cup {0}]
NoPeer == [st |-> "none", sdp |-> 0]
Ends == {"idle", "ended"}

Init ==
  /\ phase = "idle" /\ socket = 0 /\ conn = [k \in Sockets |-> Unused]
  /\ now = 0 /\ sid = 0 /\ peer = NoPeer /\ held = 0
  /\ fetching = {} /\ accepts = [s \in Sessions |-> "none"]
  /\ reading = {} /\ handshake = 0 /\ unsettled = {} /\ checking = {}
  /\ retries = 0 /\ since = "null" /\ pings = FALSE
  /\ over = FALSE /\ overtime = 0
  /\ late = FALSE /\ unretried = FALSE /\ unwound = FALSE
-----------------------------------------------------------------------------
Attached(k) == conn[k].st \in {"connecting", "open", "closing"}
Sendable == socket # 0 /\ conn[socket].st = "open"
Current(s) == Sendable /\ conn[socket].session = s
Acts(s) == late' = (late \/ ~Current(s))

(* closePeer: offers that are being accepted will be refused.                *)
Voided == [s \in Sessions |-> IF accepts[s] = "live" THEN "void" ELSE accepts[s]]
(* mutant: the peer is closed and not forgotten *)
closePeerKept == peer' = [peer EXCEPT !.st = "closed"] /\ accepts' = Voided
closePeer == peer' = NoPeer /\ accepts' = Voided

(* The handlers of the socket are taken away and it is closed.               *)
(* mutant: it is closed, but the handlers stay *)
DetachedLate(c) ==
  IF socket = 0 \/ c[socket].st = "gone" THEN c ELSE [c EXCEPT ![socket].st = "closing"]
Detached(c) == IF socket = 0 THEN c ELSE [c EXCEPT ![socket].st = "gone"]

(* setStatus('ended') and cleanup; c is what has become of the sockets.      *)
cleanup(c) ==
  /\ phase' = "ended" /\ over' = TRUE
  /\ pings' = FALSE /\ handshake' = 0 /\ held' = 0 /\ sid' = 0
  /\ since' = "null" /\ overtime' = 0
  /\ closePeer
  /\ socket' = 0 /\ conn' = Detached(c)
  /\ UNCHANGED <<now, fetching, unsettled, checking, retries, unretried>>

NewSocket ==
  \E k \in Sockets :
    /\ conn[k].st = "unused" /\ \A j \in 1..(k - 1) : conn[j].st # "unused"
    /\ phase' = "connecting" /\ socket' = k
    /\ conn' = [conn EXCEPT ![k].st = "connecting"]
    /\ overtime' = IF since = "over" THEN overtime + 1 ELSE overtime

connect ==
  IF socket # 0 THEN UNCHANGED <<phase, socket, conn, overtime>> ELSE NewSocket

(* mutant: the window begins anew with every loss *)
SinceRenewed == "running"
Since == IF since = "null" THEN "running" ELSE since
(* mutant: the timer is forgotten when the session was active *)
RetriesUnlessActive == IF phase = "active" THEN retries ELSE retries + 1
Retries == IF phase \in Ends THEN retries ELSE retries + 1

handleSocketLost(c) ==
  IF phase \notin Ends /\ Since = "over"
  THEN cleanup(c)
  ELSE /\ phase' = IF phase \in Ends THEN phase ELSE "reconnecting"
       /\ since' = IF phase \in Ends THEN since ELSE Since
       /\ retries' = Retries
       /\ pings' = FALSE
       /\ closePeer
       /\ socket' = 0 /\ conn' = c
       /\ UNCHANGED <<now, sid, held, fetching, handshake, unsettled, checking, over, overtime,
                      unretried>>
-----------------------------------------------------------------------------
(* What the user does.                                                       *)

Start ==
  /\ phase = "idle" /\ connect
  /\ UNCHANGED <<now, sid, peer, held, fetching, accepts, auth, retries, since, pings, over,
                 late, unretried, unwound>>

disconnect ==
  /\ ~over /\ phase # "idle"
  /\ cleanup(conn)
  /\ UNCHANGED <<reading, late, unwound>>
-----------------------------------------------------------------------------
(* Time.                                                                     *)

Retry ==
  /\ retries > 0 /\ retries' = retries - 1
  /\ IF phase = "reconnecting" THEN connect ELSE UNCHANGED <<phase, socket, conn, overtime>>
  /\ UNCHANGED <<now, sid, peer, held, fetching, accepts, auth, since, pings, over,
                 late, unretried, unwound>>

WindowEnds ==
  /\ since = "running" /\ since' = "over"
  /\ UNCHANGED <<phase, socket, conn, now, sid, peer, held, fetching, accepts, auth, retries,
                 pings, over, overtime, late, unretried, unwound>>
-----------------------------------------------------------------------------
(* Sockets.                                                                  *)

Opened(k) ==
  /\ conn[k].st = "connecting"
  /\ conn' = [conn EXCEPT ![k].st = "open", ![k].due = {"hello.ok"}]
  /\ UNCHANGED <<phase, socket, now, sid, peer, held, fetching, accepts, auth, retries, since,
                 pings, over, overtime, late, unretried, unwound>>

(* onclose of any socket that still has its handler.                         *)
Closed(k) ==
  /\ Attached(k)
  /\ handleSocketLost([conn EXCEPT ![k].st = "gone"])
  /\ UNCHANGED <<reading, late, unwound>>

(* A frame that does not decode.                                             *)
BadFrame(k) ==
  /\ conn[k].st = "open"
  /\ conn' = IF Sendable THEN [conn EXCEPT ![socket].st = "closing"] ELSE conn
  /\ UNCHANGED <<phase, socket, now, sid, peer, held, fetching, accepts, auth, retries, since,
                 pings, over, overtime, late, unretried, unwound>>
-----------------------------------------------------------------------------
(* onFrame.                                                                  *)

helloOk(k) ==
  /\ conn[k].st = "open" /\ "hello.ok" \in conn[k].due
  /\ phase' = "requesting" /\ pings' = TRUE
  /\ LET c == [conn EXCEPT ![k].due = @ \ {"hello.ok"}]
     IN conn' = IF Sendable THEN [c EXCEPT ![socket].due = @ \cup {"answer"}] ELSE c
  /\ UNCHANGED <<socket, now, sid, peer, held, fetching, accepts, auth, retries, since, over,
                 overtime, late, unretried, unwound>>

sessionAccepted(k) ==
  /\ conn[k].st = "open" /\ "answer" \in conn[k].due /\ now < MaxSessions
  /\ now' = now + 1 /\ sid' = now + 1
  /\ conn' = [conn EXCEPT ![k].due = @ \ {"answer"}, ![k].session = now + 1, ![k].offered = FALSE]
  /\ phase' = "signaling" /\ since' = "null" /\ overtime' = 0
  /\ fetching' = fetching \cup {now + 1}
  /\ UNCHANGED <<socket, peer, held, accepts, auth, retries, pings, over, late, unretried, unwound>>

sessionRejected(k) ==
  /\ conn[k].st = "open" /\ "answer" \in conn[k].due
  /\ cleanup([conn EXCEPT ![k].due = @ \ {"answer"}])
  /\ UNCHANGED <<reading, late, unwound>>

(* SESSION_NOT_FOUND, in answer to the request when the desktop is offline   *)
(* or to an answer or candidate of a closed session.                         *)
sessionNotFound(k) ==
  /\ conn[k].st = "open" /\ ("answer" \in conn[k].due \/ conn[k].session # 0)
  /\ conn' = [conn EXCEPT ![k].due = @ \ {"answer"}]
  /\ phase' = "reconnecting" /\ unretried' = TRUE
  /\ UNCHANGED <<socket, now, sid, peer, held, fetching, accepts, auth, retries, since, pings,
                 over, overtime, late, unwound>>

(* mutant: an offer that comes before the peer is dropped *)
Drops(s) == UNCHANGED held
Holds(s) == held' = s

signalOffer(k) ==
  LET s == conn[k].session
  IN /\ conn[k].st = "open" /\ s # 0 /\ ~conn[k].offered
     /\ conn' = [conn EXCEPT ![k].offered = TRUE]
     /\ IF s # sid
        THEN UNCHANGED <<held, peer, accepts>>
        ELSE IF peer = NoPeer
             THEN Holds(s) /\ UNCHANGED <<peer, accepts>>
             ELSE /\ peer' = [peer EXCEPT !.sdp = s]
                  /\ accepts' = [accepts EXCEPT ![s] = "live"]
                  /\ UNCHANGED held
     /\ UNCHANGED <<phase, socket, now, sid, fetching, auth, retries, since, pings, over,
                    overtime, late, unretried, unwound>>

sessionClose(k) ==
  /\ conn[k].st = "open" /\ conn[k].session # 0 /\ conn[k].session = sid
  /\ cleanup(conn)
  /\ UNCHANGED <<reading, late, unwound>>
-----------------------------------------------------------------------------
(* The peer.                                                                 *)

(* openPeerWithTurn goes on: the new peer takes the offer that is held.      *)
OpenPeer(s) ==
  /\ s \in fetching /\ fetching' = fetching \ {s}
  /\ peer' = [st |-> "new", sdp |-> held]
  /\ accepts' = [t \in Sessions |-> IF held # 0 /\ t = held THEN "live" ELSE Voided[t]]
  /\ held' = 0
  /\ late' = (late \/ ~Current(s) \/ held \notin {0, s})
  /\ UNCHANGED <<phase, socket, conn, now, sid, auth, retries, since, pings, over, overtime,
                 unretried, unwound>>

(* The answer goes out in the session there is.                              *)
Answered(s) ==
  /\ accepts[s] = "live" /\ accepts' = [accepts EXCEPT ![s] = "none"]
  /\ peer' = IF Sendable /\ sid = s THEN [peer EXCEPT !.st = "answered"] ELSE peer
  /\ Acts(s)
  /\ UNCHANGED <<phase, socket, conn, now, sid, held, fetching, auth, retries, since, pings,
                 over, overtime, unretried, unwound>>

OfferRefused(s) ==
  /\ accepts[s] # "none" /\ accepts' = [accepts EXCEPT ![s] = "none"]
  /\ phase' = "reconnecting" /\ unretried' = TRUE
  /\ Acts(s)
  /\ UNCHANGED <<socket, conn, now, sid, peer, held, fetching, auth, retries, since, pings,
                 over, overtime, unwound>>

PeerConnected ==
  /\ peer.st \in {"answered", "connected", "open"}
  /\ peer' = [peer EXCEPT !.st = IF @ = "answered" THEN "connected" ELSE @]
  /\ phase' = "peer-connected"
  /\ UNCHANGED <<socket, conn, now, sid, held, fetching, accepts, auth, retries, since, pings,
                 over, overtime, late, unretried, unwound>>

(* recoverFromPeerFailure                                                    *)
PeerFailed ==
  /\ peer.sdp # 0 /\ phase \notin Ends
  /\ UNCHANGED late
  /\ IF socket # 0 /\ conn[socket].st \in {"connecting", "open"}
     THEN /\ phase' = "reconnecting" /\ closePeer
          /\ conn' = [conn EXCEPT ![socket].st = "closing"]
          /\ UNCHANGED <<socket, now, sid, held, fetching, auth, retries, since, pings, over,
                         overtime, unretried, unwound>>
     ELSE handleSocketLost(conn) /\ unwound' = (unwound \/ socket # 0) /\ UNCHANGED reading

(* beginPeerAuth, up to the keys.                                            *)
ControlOpen ==
  /\ peer.st = "connected" /\ peer' = [peer EXCEPT !.st = "open"]
  /\ reading' = IF sid = 0 THEN reading ELSE reading \cup {sid}
  /\ UNCHANGED <<phase, socket, conn, now, sid, held, fetching, accepts, handshake, unsettled,
                 checking, retries, since, pings, over, overtime, late, unretried, unwound>>
-----------------------------------------------------------------------------
(* The handshake.                                                            *)

beginPeerAuth(s) ==
  /\ s \in reading /\ reading' = reading \ {s}
  /\ handshake' = s /\ phase' = "authenticating" /\ unsettled' = unsettled \cup {s}
  /\ Acts(s)
  /\ UNCHANGED <<socket, conn, now, sid, peer, held, fetching, accepts, checking, retries, since,
                 pings, over, overtime, unretried, unwound>>

NotPaired(s) ==
  /\ s \in reading /\ reading' = reading \ {s}
  /\ cleanup(conn)
  /\ Acts(s)
  /\ UNCHANGED unwound

onControlFrame ==
  /\ peer.st = "open" /\ handshake # 0
  /\ checking' = checking \cup {handshake}
  /\ UNCHANGED <<phase, socket, conn, now, sid, peer, held, fetching, accepts, reading, handshake,
                 unsettled, retries, since, pings, over, overtime, late, unretried, unwound>>

ProofChecked(s) ==
  /\ s \in checking /\ checking' = checking \ {s} /\ unsettled' = unsettled \ {s}
  /\ \/ phase' = "active" /\ UNCHANGED unretried
     \/ phase' = "reconnecting" /\ unretried' = TRUE
  /\ Acts(s)
  /\ UNCHANGED <<socket, conn, now, sid, peer, held, fetching, accepts, reading, handshake, retries,
                 since, pings, over, overtime, unwound>>

onTimeout(s) ==
  /\ s \in unsettled /\ unsettled' = unsettled \ {s}
  /\ phase' = "reconnecting" /\ unretried' = TRUE
  /\ Acts(s)
  /\ UNCHANGED <<socket, conn, now, sid, peer, held, fetching, accepts, reading, handshake, checking,
                 retries, since, pings, over, overtime, unwound>>
-----------------------------------------------------------------------------
onFrame(k) ==
  helloOk(k) \/ sessionAccepted(k) \/ sessionRejected(k) \/ sessionNotFound(k)
    \/ signalOffer(k) \/ sessionClose(k) \/ BadFrame(k)
Resumes(s) ==
  OpenPeer(s) \/ Answered(s) \/ OfferRefused(s) \/ beginPeerAuth(s) \/ NotPaired(s)
    \/ ProofChecked(s) \/ onTimeout(s)

Next ==
  \/ Start \/ disconnect \/ Retry \/ WindowEnds
  \/ \E k \in Sockets : Opened(k) \/ Closed(k) \/ onFrame(k)
  \/ PeerConnected \/ PeerFailed \/ ControlOpen \/ onControlFrame
  \/ \E s \in Sessions : Resumes(s)

Spec == Init /\ [][Next]_vars
-----------------------------------------------------------------------------
(* Properties                                                                *)

TypeOK ==
  /\ phase \in Phases
  /\ socket \in Sockets \cup {0} /\ conn \in [Sockets -> Conns]
  /\ now \in Sessions \cup {0} /\ sid \in Sessions \cup {0}
  /\ peer \in Peers /\ held \in Sessions \cup {0}
  /\ accepts \in [Sessions -> {"none", "live", "void"}]
  /\ handshake \in Sessions \cup {0}
  /\ fetching \subseteq Sessions /\ reading \subseteq Sessions
  /\ unsettled \subseteq Sessions /\ checking \subseteq Sessions
  /\ retries \in Nat /\ since \in {"null", "running", "over"} /\ overtime \in Nat
  /\ pings \in BOOLEAN /\ over \in BOOLEAN
  /\ late \in BOOLEAN /\ unretried \in BOOLEAN /\ unwound \in BOOLEAN

(* After the end, by whichever side, nothing of the session is left and      *)
(* nothing starts again, whatever was pending.  The only way around it is    *)
(* one of the callbacks that do not ask whether their session still exists,  *)
(* or a socket that was dropped before it had closed.                        *)
EndedIsOver ==
  over /\ ~late /\ ~unwound =>
    /\ phase = "ended" /\ socket = 0 /\ sid = 0 /\ handshake = 0 /\ held = 0
    /\ peer = NoPeer /\ ~pings
    /\ \A k \in Sockets : ~Attached(k)

(* A phone that shows "Reconnecting" has a timer that will connect or a      *)
(* socket that is about to report its end, and one that is in no session has *)
(* a socket at all.  The exceptions are the messages that promise a retry    *)
(* and arrange none (unretried), callbacks that have acted after their       *)
(* session (late), and sockets dropped before they had closed (unwound).     *)
ReconnectingIsDriven ==
  ~late /\ ~unretried /\ ~unwound /\ phase \notin Ends =>
    IF phase = "reconnecting"
    THEN retries > 0 \/ (socket # 0 /\ conn[socket].st = "closing")
    ELSE socket # 0

(* Reconnecting gives up: at most one attempt begins after the window, the   *)
(* one that the last loss inside the window has arranged.                    *)
ReconnectGivesUp == overtime <= 1

(* An offer of the session there is reaches its peer: it is held for the one *)
(* that is being prepared, or it is the last the peer has taken; unless a    *)
(* callback has acted after its session or a socket was dropped before it    *)
(* had closed.                                                               *)
OfferIsTaken ==
  ~late /\ ~unwound /\ Sendable =>
    LET s == conn[socket].session
    IN s # 0 /\ conn[socket].offered => (held = s /\ s \in fetching) \/ peer.sdp = s
=============================================================================
