------------------------ MODULE ReceiverSessionProofs ------------------------
(***************************************************************************)
(* ReceiverSession keeps its types and its safety properties, for any number *)
(* of sockets and of sessions.                                               *)
(***************************************************************************)
EXTENDS ReceiverSession, TLAPS

(* However many timers run, there is one socket, the one that is used.       *)
OneSocket == ~unwound => \A k \in Sockets : Attached(k) => k = socket

(* What has not been opened has no history.                                  *)
FreshSockets ==
  \A k \in Sockets :
    /\ conn[k].st = "unused" => conn[k] = Unused
    /\ conn[k].st = "connecting" =>
         conn[k].due = {} /\ conn[k].session = 0 /\ ~conn[k].offered

(* The window is over for an attempt only while that attempt has its socket. *)
WindowInv ==
  /\ phase \in Ends => since = "null"
  /\ overtime <= 1
  /\ overtime > 0 => socket # 0 /\ since = "over"

(* What keeps a session of the phone going in each phase.                    *)
Driven ==
  /\ phase \in Ends => socket = 0
  /\ phase = "reconnecting" => IF socket = 0 THEN retries > 0 ELSE conn[socket].st = "closing"
  /\ phase \notin Ends \cup {"reconnecting"} => socket # 0
  /\ socket = 0 \/ phase = "reconnecting" => peer = NoPeer

DrivenInv == ~late /\ ~unretried /\ ~unwound => Driven

(* There is a peer only on a socket that is, or was, open.  The session on   *)
(* it: its peer is either still being fetched or there, and an offer waits   *)
(* for the one or has reached the other.                                     *)
Unoffered == peer = NoPeer => \A s \in Sessions : accepts[s] # "live"
PeerNeedsSocket == socket = 0 \/ conn[socket].st = "connecting" => peer = NoPeer
Taken(c) ==
  /\ c.due # {} => c.session = 0
  /\ ~("hello.ok" \in c.due /\ "answer" \in c.due)
  /\ c.session = 0 => peer = NoPeer
  /\ c.session # 0 =>
       /\ sid = c.session
       /\ c.session \in fetching <=> peer = NoPeer
       /\ c.offered => IF peer = NoPeer THEN held = c.session ELSE peer.sdp = c.session

OffersInv ==
  ~late /\ ~unwound => PeerNeedsSocket /\ (Sendable => Taken(conn[socket]))

IInv ==
  /\ TypeOK /\ OneSocket /\ FreshSockets
  /\ WindowInv /\ EndedIsOver /\ DrivenInv /\ Unoffered /\ OffersInv
-----------------------------------------------------------------------------
(* What an update of one field of a socket is.                               *)
States == {"unused", "connecting", "open", "closing", "gone"}

LEMMA SetState ==
  ASSUME NEW c \in [Sockets -> Conns], NEW k \in Sockets, NEW v \in States
  PROVE  [c EXCEPT ![k].st = v] \in [Sockets -> Conns]
BY DEF Conns, States

LEMMA SetDue ==
  ASSUME NEW c \in [Sockets -> Conns], NEW k \in Sockets, NEW d \in SUBSET Replies
  PROVE  [c EXCEPT ![k].due = d] \in [Sockets -> Conns]
BY DEF Conns

LEMMA SetOffered ==
  ASSUME NEW c \in [Sockets -> Conns], NEW k \in Sockets
  PROVE  [c EXCEPT ![k].offered = TRUE] \in [Sockets -> Conns]
BY DEF Conns

LEMMA SetOpen ==
  ASSUME NEW c \in [Sockets -> Conns], NEW k \in Sockets
  PROVE  [c EXCEPT ![k].st = "open", ![k].due = {"hello.ok"}] \in [Sockets -> Conns]
BY DEF Conns, Replies

LEMMA SetSession ==
  ASSUME NEW c \in [Sockets -> Conns], NEW k \in Sockets, NEW s \in Sessions, NEW d \in SUBSET Replies
  PROVE  [c EXCEPT ![k].due = d, ![k].session = s, ![k].offered = FALSE] \in [Sockets -> Conns]
BY DEF Conns

LEMMA DetachedType ==
  ASSUME NEW c \in [Sockets -> Conns], socket \in Sockets \cup {0}
  PROVE  Detached(c) \in [Sockets -> Conns]
<1>1. CASE socket = 0 BY <1>1 DEF Detached
<1>2. CASE socket \in Sockets BY <1>2, SetState DEF Detached, States
<1>3. QED BY <1>1, <1>2

LEMMA CleanupTypes ==
  ASSUME TypeOK, NEW c \in [Sockets -> Conns], cleanup(c),
         reading' \subseteq Sessions, late' \in BOOLEAN, unwound' \in BOOLEAN
  PROVE  TypeOK'
<1>1. conn' \in [Sockets -> Conns] BY DetachedType DEF TypeOK, cleanup
<1>2. accepts' \in [Sessions -> {"none", "live", "void"}]
  BY DEF TypeOK, cleanup, closePeer, Voided
<1>3. QED BY <1>1, <1>2 DEF TypeOK, cleanup, closePeer, Phases, Peers, NoPeer

LEMMA LostTypes ==
  ASSUME TypeOK, NEW c \in [Sockets -> Conns], handleSocketLost(c),
         reading' \subseteq Sessions, late' \in BOOLEAN, unwound' \in BOOLEAN
  PROVE  TypeOK'
<1>1. CASE phase \notin Ends /\ Since = "over"
  BY <1>1, CleanupTypes DEF handleSocketLost
<1>2. CASE ~(phase \notin Ends /\ Since = "over")
  <2>1. accepts' \in [Sessions -> {"none", "live", "void"}]
    BY <1>2 DEF TypeOK, handleSocketLost, closePeer, Voided
  <2>2. conn' \in [Sockets -> Conns] BY <1>2 DEF handleSocketLost
  <2>3. retries' \in Nat /\ since' \in {"null", "running", "over"} /\ phase' \in Phases
    BY <1>2 DEF TypeOK, handleSocketLost, Since, Retries, Phases
  <2>4. peer' \in Peers BY <1>2 DEF handleSocketLost, closePeer, Peers, NoPeer
  <2>5. QED BY <1>2, <2>1, <2>2, <2>3, <2>4 DEF TypeOK, handleSocketLost
<1>3. QED BY <1>1, <1>2

LEMMA ConnectTypes ==
  ASSUME TypeOK, connect
  PROVE  /\ phase' \in Phases /\ socket' \in Sockets \cup {0}
         /\ conn' \in [Sockets -> Conns] /\ overtime' \in Nat
<1>1. CASE socket # 0 BY <1>1 DEF connect, TypeOK
<1>2. CASE socket = 0
  <2>1. PICK k \in Sockets :
          /\ phase' = "connecting" /\ socket' = k
          /\ conn' = [conn EXCEPT ![k].st = "connecting"]
          /\ overtime' = IF since = "over" THEN overtime + 1 ELSE overtime
    BY <1>2 DEF connect, NewSocket
  <2>2. conn' \in [Sockets -> Conns] BY <2>1, SetState DEF TypeOK, States
  <2>3. QED BY <2>1, <2>2 DEF TypeOK, Phases
<1>3. QED BY <1>1, <1>2

LEMMA FrameTypes ==
  ASSUME TypeOK, NEW k \in Sockets, onFrame(k)
  PROVE  TypeOK'
<1>0. conn \in [Sockets -> Conns] /\ socket \in Sockets \cup {0} BY DEF TypeOK
<1>1. conn[k].due \in SUBSET Replies /\ conn[k].session \in Sessions \cup {0}
  BY <1>0 DEF Conns
<1> DEFINE answered == [conn EXCEPT ![k].due = @ \ {"answer"}]
<1>2. answered \in [Sockets -> Conns] BY <1>0, <1>1, SetDue
<1> HIDE DEF answered
<1>3. CASE helloOk(k)
  <2> DEFINE c == [conn EXCEPT ![k].due = @ \ {"hello.ok"}]
  <2>1. c \in [Sockets -> Conns] BY <1>0, <1>1, SetDue
  <2>2. conn' = IF Sendable THEN [c EXCEPT ![socket].due = @ \cup {"answer"}] ELSE c
    BY <1>3 DEF helloOk
  <2> HIDE DEF c
  <2>3. ASSUME Sendable PROVE conn' \in [Sockets -> Conns]
    <3>1. socket \in Sockets /\ c[socket].due \in SUBSET Replies
      BY <1>0, <2>1, <2>3 DEF Sendable, Conns
    <3>2. c[socket].due \cup {"answer"} \in SUBSET Replies BY <3>1 DEF Replies
    <3>3. QED BY <2>1, <2>2, <2>3, <3>1, <3>2, SetDue
  <2>4. conn' \in [Sockets -> Conns] BY <2>1, <2>2, <2>3
  <2>5. QED BY <1>3, <2>4 DEF TypeOK, helloOk, auth, Phases
<1>4. CASE sessionAccepted(k)
  <2>1. now + 1 \in Sessions BY <1>4, SessionsAssumption DEF TypeOK, sessionAccepted, Sessions
  <2>2. conn' \in [Sockets -> Conns]
    BY <1>0, <1>1, <1>4, <2>1, SetSession DEF sessionAccepted
  <2>3. QED BY <1>4, <2>1, <2>2 DEF TypeOK, sessionAccepted, auth, Phases
<1>5. CASE sessionRejected(k)
  BY <1>2, <1>5, CleanupTypes DEF sessionRejected, answered, TypeOK
<1>6. CASE sessionNotFound(k)
  <2>1. conn' \in [Sockets -> Conns] BY <1>2, <1>6 DEF sessionNotFound, answered
  <2>2. QED BY <1>6, <2>1 DEF TypeOK, sessionNotFound, auth, Phases
<1>7. CASE signalOffer(k)
  <2>1. conn' \in [Sockets -> Conns] BY <1>0, <1>7, SetOffered DEF signalOffer
  <2>2. QED BY <1>1, <1>7, <2>1 DEF TypeOK, signalOffer, auth, Holds, Peers
<1>8. CASE sessionClose(k)
  BY <1>0, <1>8, CleanupTypes DEF sessionClose, TypeOK
<1>9. CASE BadFrame(k)
  <2>1. conn' \in [Sockets -> Conns]
    BY <1>0, <1>9, SetState DEF BadFrame, Sendable, States
  <2>2. QED BY <1>9, <2>1 DEF TypeOK, BadFrame, auth
<1>10. QED BY <1>3, <1>4, <1>5, <1>6, <1>7, <1>8, <1>9 DEF onFrame

LEMMA ResumedTypes ==
  ASSUME TypeOK, NEW s \in Sessions, Resumes(s)
  PROVE  TypeOK'
<1>1. CASE OpenPeer(s)
  BY <1>1 DEF TypeOK, OpenPeer, auth, Peers, Voided
<1>2. CASE Answered(s)
  BY <1>2 DEF TypeOK, Answered, auth, Acts, Peers
<1>3. CASE OfferRefused(s)
  BY <1>3 DEF TypeOK, OfferRefused, auth, Acts, Phases
<1>4. CASE beginPeerAuth(s)
  BY <1>4 DEF TypeOK, beginPeerAuth, Acts, Phases
<1>5. CASE NotPaired(s)
  BY <1>5, CleanupTypes DEF TypeOK, NotPaired, Acts
<1>6. CASE ProofChecked(s)
  BY <1>6 DEF TypeOK, ProofChecked, Acts, Phases
<1>7. CASE onTimeout(s)
  BY <1>7 DEF TypeOK, onTimeout, Acts, Phases
<1>8. QED BY <1>1, <1>2, <1>3, <1>4, <1>5, <1>6, <1>7 DEF Resumes

LEMMA TypeStep ==
  ASSUME TypeOK, [Next]_vars
  PROVE  TypeOK'
<1>0. conn \in [Sockets -> Conns] /\ socket \in Sockets \cup {0} BY DEF TypeOK
<1>1. CASE Start BY <1>1, ConnectTypes DEF TypeOK, Start, auth
<1>2. CASE disconnect BY <1>0, <1>2, CleanupTypes DEF TypeOK, disconnect
<1>3. CASE Retry
  <2>1. /\ phase' \in Phases /\ socket' \in Sockets \cup {0}
        /\ conn' \in [Sockets -> Conns] /\ overtime' \in Nat
    BY <1>3, ConnectTypes DEF Retry, TypeOK
  <2>2. retries' \in Nat BY <1>3 DEF TypeOK, Retry
  <2>3. QED BY <1>3, <2>1, <2>2 DEF TypeOK, Retry, auth
<1>4. CASE WindowEnds BY <1>4 DEF TypeOK, WindowEnds, auth
<1>5. ASSUME NEW k \in Sockets, Opened(k) PROVE TypeOK'
  <2>1. conn' \in [Sockets -> Conns] BY <1>0, <1>5, SetOpen DEF Opened
  <2>2. QED BY <1>5, <2>1 DEF TypeOK, Opened, auth
<1>6. ASSUME NEW k \in Sockets, Closed(k) PROVE TypeOK'
  <2>1. [conn EXCEPT ![k].st = "gone"] \in [Sockets -> Conns] BY <1>0, SetState DEF States
  <2>2. QED BY <1>6, <2>1, LostTypes DEF TypeOK, Closed
<1>7. CASE PeerConnected BY <1>7 DEF TypeOK, PeerConnected, auth, Peers, Phases
<1>8. CASE PeerFailed
  <2>1. CASE socket # 0 /\ conn[socket].st \in {"connecting", "open"}
    <3>1. socket \in Sockets BY <1>0, <2>1
    <3>2. conn' = [conn EXCEPT ![socket].st = "closing"] BY <1>8, <2>1 DEF PeerFailed
    <3>3. conn' \in [Sockets -> Conns] BY <1>0, <3>1, <3>2, SetState DEF States
    <3>4. QED
      BY <1>8, <2>1, <3>3 DEF TypeOK, PeerFailed, auth, closePeer, Voided, Phases, Peers, NoPeer
  <2>2. CASE ~(socket # 0 /\ conn[socket].st \in {"connecting", "open"})
    BY <1>0, <1>8, <2>2, LostTypes DEF PeerFailed, TypeOK
  <2>3. QED BY <2>1, <2>2
<1>9. CASE ControlOpen BY <1>9 DEF TypeOK, ControlOpen, Peers
<1>10. CASE onControlFrame BY <1>10 DEF TypeOK, onControlFrame
<1>11. CASE UNCHANGED vars BY <1>11 DEF TypeOK, vars, auth
<1>12. QED
  BY <1>1, <1>2, <1>3, <1>4, <1>5, <1>6, <1>7, <1>8, <1>9, <1>10, <1>11, FrameTypes, ResumedTypes
  DEF Next
-----------------------------------------------------------------------------
(* The sockets that a callback leaves to cleanup or handleSocketLost: at     *)
(* most it has marked one as closed.                                         *)
Touched(c) ==
  /\ c \in [Sockets -> Conns]
  /\ \A k \in Sockets : c[k].st = conn[k].st \/ (c[k].st = "gone" /\ Attached(k))
Dropped == socket' = 0 /\ \A k \in Sockets : ~Attached(k)'

LEMMA CleanupDrops ==
  ASSUME TypeOK, OneSocket, ~unwound, NEW c, Touched(c), cleanup(c)
  PROVE  Dropped
<1>1. socket \in Sockets \cup {0} /\ c \in [Sockets -> Conns] BY DEF TypeOK, Touched
<1>2. socket' = 0 /\ conn' = Detached(c) BY DEF cleanup
<1> SUFFICES ASSUME NEW k \in Sockets PROVE ~Attached(k)'
  BY <1>2 DEF Dropped
<1>3. CASE k = socket
  BY <1>1, <1>2, <1>3 DEF Detached, Attached, Sockets, Conns
<1>4. CASE k # socket
  <2>1. conn'[k] = c[k] BY <1>1, <1>2, <1>4 DEF Detached
  <2>2. ~Attached(k) BY <1>4 DEF OneSocket
  <2>3. QED BY <2>1, <2>2 DEF Attached, Touched
<1>5. QED BY <1>3, <1>4

LEMMA SameSockets ==
  ASSUME OneSocket, unwound' = unwound, socket' = socket,
         \A k \in Sockets : Attached(k)' => Attached(k)
  PROVE  OneSocket'
BY DEF OneSocket

LEMMA DroppedOneSocket ==
  ASSUME Dropped PROVE OneSocket'
BY DEF Dropped, OneSocket

LEMMA LostDrops ==
  ASSUME TypeOK, OneSocket, ~unwound, NEW c, Touched(c),
         \A k \in Sockets : c[k].st \notin {"connecting", "open", "closing"},
         handleSocketLost(c)
  PROVE  Dropped
<1>1. CASE phase \notin Ends /\ Since = "over"
  BY <1>1, CleanupDrops DEF handleSocketLost
<1>2. CASE ~(phase \notin Ends /\ Since = "over")
  BY <1>2 DEF handleSocketLost, Dropped, Attached
<1>3. QED BY <1>1, <1>2

LEMMA ConnectOne ==
  ASSUME TypeOK, OneSocket, unwound' = unwound, connect
  PROVE  OneSocket'
<1>1. CASE socket # 0
  BY <1>1, SameSockets DEF connect, Attached
<1>2. CASE socket = 0
  <2>1. PICK k \in Sockets : socket' = k /\ conn' = [conn EXCEPT ![k].st = "connecting"]
    BY <1>2 DEF connect, NewSocket
  <2>2. 0 \notin Sockets BY DEF Sockets
  <2>3. SUFFICES ASSUME ~unwound, NEW j \in Sockets, Attached(j)' PROVE j = k
    BY <2>1 DEF OneSocket
  <2>4. ~Attached(j) BY <1>2, <2>2, <2>3 DEF OneSocket
  <2>5. QED BY <2>1, <2>3, <2>4 DEF TypeOK, Attached
<1>3. QED BY <1>1, <1>2

LEMMA OneSocketStep ==
  ASSUME TypeOK, OneSocket, [Next]_vars
  PROVE  OneSocket'
<1>0. conn \in [Sockets -> Conns] /\ socket \in Sockets \cup {0} BY DEF TypeOK
<1> SUFFICES ASSUME ~unwound' PROVE OneSocket'
  BY DEF OneSocket
<1>a. Touched(conn) BY <1>0 DEF Touched
<1>b. \A k \in Sockets, d \in SUBSET Replies : Touched([conn EXCEPT ![k].due = d])
  <2> SUFFICES ASSUME NEW k \in Sockets, NEW d \in SUBSET Replies
               PROVE  Touched([conn EXCEPT ![k].due = d])
    OBVIOUS
  <2>1. [conn EXCEPT ![k].due = d] \in [Sockets -> Conns] BY <1>0, SetDue
  <2>2. QED BY <1>0, <2>1 DEF Touched, Conns
<1>1. CASE Start BY <1>1, ConnectOne DEF Start
<1>2. CASE disconnect BY <1>2, <1>a, CleanupDrops, DroppedOneSocket DEF disconnect
<1>3. CASE Retry
  <2>1. CASE phase = "reconnecting" BY <1>3, <2>1, ConnectOne DEF Retry
  <2>2. CASE phase # "reconnecting" BY <1>3, <2>2, SameSockets DEF Retry, Attached
  <2>3. QED BY <2>1, <2>2
<1>4. CASE WindowEnds BY <1>4, SameSockets DEF WindowEnds, Attached
<1>5. ASSUME NEW k \in Sockets, Opened(k) PROVE OneSocket'
  BY <1>0, <1>5, SameSockets DEF Opened, Attached, Conns
<1>6. ASSUME NEW k \in Sockets, Closed(k) PROVE OneSocket'
  <2> DEFINE c == [conn EXCEPT ![k].st = "gone"]
  <2>1. c \in [Sockets -> Conns] BY <1>0, SetState DEF States
  <2>2. ~unwound /\ k = socket /\ handleSocketLost(c) BY <1>6 DEF Closed, OneSocket
  <2>3. \A j \in Sockets : c[j].st = IF j = k THEN "gone" ELSE conn[j].st
    BY <1>0 DEF Conns
  <2>4. \A j \in Sockets : c[j].st \notin {"connecting", "open", "closing"}
    BY <2>2, <2>3 DEF OneSocket, Attached
  <2>5. Touched(c) BY <1>6, <2>1, <2>3 DEF Touched, Closed
  <2> HIDE DEF c
  <2>6. QED BY <2>2, <2>4, <2>5, LostDrops, DroppedOneSocket
<1>7. ASSUME NEW k \in Sockets, helloOk(k) PROVE OneSocket'
  BY <1>0, <1>7, SameSockets DEF helloOk, Attached, Conns, Sendable
<1>8. ASSUME NEW k \in Sockets, sessionAccepted(k) PROVE OneSocket'
  BY <1>0, <1>8, SameSockets DEF sessionAccepted, Attached, Conns
<1>9. ASSUME NEW k \in Sockets, sessionRejected(k) PROVE OneSocket'
  <2>1. conn[k].due \ {"answer"} \in SUBSET Replies BY <1>0 DEF Conns
  <2>2. Touched([conn EXCEPT ![k].due = @ \ {"answer"}]) BY <1>b, <2>1
  <2>3. QED BY <1>9, <2>2, CleanupDrops, DroppedOneSocket DEF sessionRejected
<1>10. ASSUME NEW k \in Sockets, sessionNotFound(k) PROVE OneSocket'
  BY <1>0, <1>10, SameSockets DEF sessionNotFound, Attached, Conns
<1>11. ASSUME NEW k \in Sockets, signalOffer(k) PROVE OneSocket'
  BY <1>0, <1>11, SameSockets DEF signalOffer, Attached, Conns
<1>12. ASSUME NEW k \in Sockets, sessionClose(k) PROVE OneSocket'
  BY <1>12, <1>a, CleanupDrops, DroppedOneSocket DEF sessionClose
<1>13. ASSUME NEW k \in Sockets, BadFrame(k) PROVE OneSocket'
  BY <1>0, <1>13, SameSockets DEF BadFrame, Sendable, Attached, Conns
<1>14. CASE PeerFailed
  <2>1. CASE socket # 0 /\ conn[socket].st \in {"connecting", "open"}
    BY <1>0, <1>14, <2>1, SameSockets DEF PeerFailed, Attached, Conns
  <2>2. CASE ~(socket # 0 /\ conn[socket].st \in {"connecting", "open"})
    <3>1. ~unwound /\ socket = 0 /\ handleSocketLost(conn) BY <1>14, <2>2 DEF PeerFailed
    <3>2. 0 \notin Sockets BY DEF Sockets
    <3>3. \A k \in Sockets : conn[k].st \notin {"connecting", "open", "closing"}
      BY <3>1, <3>2 DEF OneSocket, Attached
    <3>4. QED BY <1>a, <3>1, <3>3, LostDrops, DroppedOneSocket
  <2>3. QED BY <2>1, <2>2
<1>15. CASE PeerConnected \/ ControlOpen \/ onControlFrame
  BY <1>15, SameSockets DEF PeerConnected, ControlOpen, onControlFrame, Attached
<1>16. ASSUME NEW s \in Sessions, Resumes(s) PROVE OneSocket'
  <2>1. CASE NotPaired(s) BY <2>1, <1>a, CleanupDrops, DroppedOneSocket DEF NotPaired
  <2>2. CASE ~NotPaired(s)
    BY <1>16, <2>2, SameSockets
    DEF Resumes, OpenPeer, Answered, OfferRefused, beginPeerAuth, ProofChecked, onTimeout, Attached
  <2>3. QED BY <2>1, <2>2
<1>17. CASE UNCHANGED vars BY <1>17, SameSockets DEF vars, Attached
<1>18. QED
  BY <1>1, <1>2, <1>3, <1>4, <1>5, <1>6, <1>7, <1>8, <1>9, <1>10, <1>11, <1>12, <1>13, <1>14,
     <1>15, <1>16, <1>17
  DEF Next, onFrame
-----------------------------------------------------------------------------
(* Detaching leaves a socket alone or closes it.                             *)
LEMMA FreshDetached ==
  ASSUME TypeOK, NEW c \in [Sockets -> Conns], NEW k \in Sockets
  PROVE  \/ Detached(c)[k] = c[k]
         \/ Detached(c)[k].st = "gone"
BY DEF Detached, TypeOK, Conns

(* What a step does to a socket: its opening, the closing that the server,   *)
(* the phone or an error begins, or an exchange on it while it is open.      *)
SocketMove(k) ==
  \/ conn'[k] = conn[k]
  \/ conn[k].st = "unused" /\ conn'[k] = [conn[k] EXCEPT !.st = "connecting"]
  \/ conn[k].st = "connecting" /\ conn'[k] = [conn[k] EXCEPT !.st = "open", !.due = {"hello.ok"}]
  \/ conn[k].st = "open" /\ conn'[k].st = "open"
  \/ conn'[k].st \in {"closing", "gone"}

LEMMA CleanupMoves ==
  ASSUME TypeOK, NEW c \in [Sockets -> Conns], cleanup(c), NEW j \in Sockets,
         \/ c[j] = conn[j]
         \/ conn[j].st = "open" /\ c[j].st = "open"
         \/ c[j].st \in {"closing", "gone"}
  PROVE  SocketMove(j)
BY FreshDetached DEF cleanup, SocketMove

LEMMA LostMoves ==
  ASSUME TypeOK, NEW c \in [Sockets -> Conns], handleSocketLost(c), NEW j \in Sockets,
         c[j] = conn[j] \/ c[j].st = "gone"
  PROVE  SocketMove(j)
<1>1. CASE phase \notin Ends /\ Since = "over"
  BY <1>1, CleanupMoves DEF handleSocketLost
<1>2. CASE ~(phase \notin Ends /\ Since = "over")
  BY <1>2 DEF handleSocketLost, SocketMove
<1>3. QED BY <1>1, <1>2

LEMMA ConnectMoves ==
  ASSUME TypeOK, connect, NEW j \in Sockets
  PROVE  SocketMove(j)
<1>1. CASE socket # 0 BY <1>1 DEF connect, SocketMove
<1>2. CASE socket = 0
  <2>1. PICK k \in Sockets :
          conn[k].st = "unused" /\ conn' = [conn EXCEPT ![k].st = "connecting"]
    BY <1>2 DEF connect, NewSocket
  <2>2. QED BY <2>1 DEF TypeOK, SocketMove
<1>3. QED BY <1>1, <1>2

LEMMA SocketMoves ==
  ASSUME TypeOK, [Next]_vars, NEW j \in Sockets
  PROVE  SocketMove(j)
<1>0. conn \in [Sockets -> Conns] /\ socket \in Sockets \cup {0} BY DEF TypeOK
<1>1. CASE Start BY <1>1, ConnectMoves DEF Start
<1>2. CASE disconnect BY <1>0, <1>2, CleanupMoves DEF disconnect
<1>3. CASE Retry
  <2>1. CASE phase = "reconnecting" BY <1>3, <2>1, ConnectMoves DEF Retry
  <2>2. CASE phase # "reconnecting" BY <1>3, <2>2 DEF Retry, SocketMove
  <2>3. QED BY <2>1, <2>2
<1>4. ASSUME NEW k \in Sockets, Opened(k) PROVE SocketMove(j)
  BY <1>0, <1>4 DEF Opened, SocketMove
<1>5. ASSUME NEW k \in Sockets, Closed(k) PROVE SocketMove(j)
  <2> DEFINE c == [conn EXCEPT ![k].st = "gone"]
  <2>1. c \in [Sockets -> Conns] BY <1>0, SetState DEF States
  <2>2. c[j] = conn[j] \/ c[j].st = "gone" BY <1>0 DEF Conns
  <2>3. handleSocketLost(c) BY <1>5 DEF Closed
  <2> HIDE DEF c
  <2>4. QED BY <2>1, <2>2, <2>3, LostMoves
<1>6. ASSUME NEW k \in Sockets, helloOk(k) PROVE SocketMove(j)
  BY <1>0, <1>6 DEF helloOk, Sendable, SocketMove, Conns
<1>7. ASSUME NEW k \in Sockets, sessionAccepted(k) PROVE SocketMove(j)
  BY <1>0, <1>7 DEF sessionAccepted, SocketMove, Conns
<1>8. ASSUME NEW k \in Sockets, sessionRejected(k) PROVE SocketMove(j)
  <2> DEFINE c == [conn EXCEPT ![k].due = @ \ {"answer"}]
  <2>1. conn[k].due \ {"answer"} \in SUBSET Replies BY <1>0 DEF Conns
  <2>2. c \in [Sockets -> Conns] BY <1>0, <2>1, SetDue
  <2>3. c[j] = conn[j] \/ (conn[j].st = "open" /\ c[j].st = "open")
    BY <1>0, <1>8 DEF sessionRejected, Conns
  <2>4. cleanup(c) BY <1>8 DEF sessionRejected
  <2> HIDE DEF c
  <2>5. QED BY <2>2, <2>3, <2>4, CleanupMoves
<1>9. ASSUME NEW k \in Sockets, sessionNotFound(k) PROVE SocketMove(j)
  <2>1. conn' = [conn EXCEPT ![k].due = @ \ {"answer"}] /\ conn[k].st = "open"
    BY <1>9 DEF sessionNotFound
  <2>2. j = k => conn'[j].st = "open" BY <1>0, <2>1 DEF Conns
  <2>3. j # k => conn'[j] = conn[j] BY <1>0, <2>1
  <2>4. QED BY <2>1, <2>2, <2>3 DEF SocketMove
<1>10. ASSUME NEW k \in Sockets, signalOffer(k) PROVE SocketMove(j)
  BY <1>0, <1>10 DEF signalOffer, SocketMove, Conns
<1>11. ASSUME NEW k \in Sockets, sessionClose(k) PROVE SocketMove(j)
  BY <1>0, <1>11, CleanupMoves DEF sessionClose
<1>12. ASSUME NEW k \in Sockets, BadFrame(k) PROVE SocketMove(j)
  BY <1>0, <1>12 DEF BadFrame, Sendable, SocketMove, Conns
<1>13. CASE PeerFailed
  <2>1. CASE socket # 0 /\ conn[socket].st \in {"connecting", "open"}
    BY <1>0, <1>13, <2>1 DEF PeerFailed, SocketMove, Conns
  <2>2. CASE ~(socket # 0 /\ conn[socket].st \in {"connecting", "open"})
    BY <1>0, <1>13, <2>2, LostMoves DEF PeerFailed
  <2>3. QED BY <2>1, <2>2
<1>14. ASSUME NEW s \in Sessions, Resumes(s) PROVE SocketMove(j)
  <2>1. CASE NotPaired(s) BY <1>0, <2>1, CleanupMoves DEF NotPaired
  <2>2. CASE ~NotPaired(s)
    BY <1>14, <2>2
    DEF Resumes, OpenPeer, Answered, OfferRefused, beginPeerAuth, ProofChecked, onTimeout,
        SocketMove
  <2>3. QED BY <2>1, <2>2
<1>15. CASE WindowEnds \/ PeerConnected \/ ControlOpen \/ onControlFrame \/ UNCHANGED vars
  BY <1>15 DEF WindowEnds, PeerConnected, ControlOpen, onControlFrame, vars, SocketMove
<1>16. QED
  BY <1>1, <1>2, <1>3, <1>4, <1>5, <1>6, <1>7, <1>8, <1>9, <1>10, <1>11, <1>12, <1>13, <1>14, <1>15
  DEF Next, onFrame

LEMMA FreshStep ==
  ASSUME TypeOK, FreshSockets, [Next]_vars
  PROVE  FreshSockets'
<1> SUFFICES ASSUME NEW k \in Sockets
             PROVE  /\ conn'[k].st = "unused" => conn'[k] = Unused
                    /\ conn'[k].st = "connecting" =>
                         conn'[k].due = {} /\ conn'[k].session = 0 /\ ~conn'[k].offered
  BY DEF FreshSockets
<1>1. SocketMove(k) BY SocketMoves
<1>2. conn[k] \in Conns BY DEF TypeOK
<1>3. CASE conn'[k] = conn[k] BY <1>3 DEF FreshSockets
<1>4. CASE conn[k].st = "unused" /\ conn'[k] = [conn[k] EXCEPT !.st = "connecting"]
  <2>1. conn[k] = Unused BY <1>4 DEF FreshSockets
  <2>2. QED BY <1>4, <2>1 DEF Unused
<1>5. CASE conn'[k].st \in {"open", "closing", "gone"} BY <1>5
<1>6. QED BY <1>1, <1>2, <1>3, <1>4, <1>5 DEF SocketMove, Conns
-----------------------------------------------------------------------------
LEMMA CleanupWindow ==
  ASSUME NEW c, cleanup(c) PROVE WindowInv'
BY DEF cleanup, WindowInv

LEMMA LostWindow ==
  ASSUME TypeOK, WindowInv, NEW c, handleSocketLost(c)
  PROVE  WindowInv'
<1>1. CASE phase \notin Ends /\ Since = "over"
  BY <1>1, CleanupWindow DEF handleSocketLost
<1>2. CASE ~(phase \notin Ends /\ Since = "over")
  BY <1>2 DEF handleSocketLost, WindowInv, TypeOK, Since, Ends
<1>3. QED BY <1>1, <1>2

LEMMA ConnectWindow ==
  ASSUME TypeOK, WindowInv, connect, since' = since, phase \in Ends => since' = "null"
  PROVE  WindowInv'
<1>1. CASE socket # 0 BY <1>1 DEF connect, WindowInv
<1>2. CASE socket = 0
  <2>1. PICK k \in Sockets :
          /\ phase' = "connecting" /\ socket' = k
          /\ overtime' = IF since = "over" THEN overtime + 1 ELSE overtime
    BY <1>2 DEF connect, NewSocket
  <2>2. overtime = 0 BY <1>2 DEF TypeOK, WindowInv
  <2>3. QED BY <2>1, <2>2 DEF WindowInv, Ends, Sockets
<1>3. QED BY <1>1, <1>2

LEMMA WindowStep ==
  ASSUME TypeOK, WindowInv, [Next]_vars
  PROVE  WindowInv'
<1>1. CASE Start BY <1>1, ConnectWindow DEF Start, WindowInv
<1>2. CASE disconnect BY <1>2, CleanupWindow DEF disconnect
<1>3. CASE Retry
  <2>1. CASE phase = "reconnecting" BY <1>3, <2>1, ConnectWindow DEF Retry, Ends
  <2>2. CASE phase # "reconnecting" BY <1>3, <2>2 DEF Retry, WindowInv
  <2>3. QED BY <2>1, <2>2
<1>4. CASE WindowEnds BY <1>4 DEF WindowEnds, WindowInv
<1>5. ASSUME NEW k \in Sockets, Opened(k) \/ BadFrame(k) \/ signalOffer(k) PROVE WindowInv'
  BY <1>5 DEF Opened, BadFrame, signalOffer, WindowInv
<1>6. ASSUME NEW k \in Sockets, Closed(k) PROVE WindowInv'
  BY <1>6, LostWindow DEF Closed
<1>7. ASSUME NEW k \in Sockets, helloOk(k) \/ sessionAccepted(k) \/ sessionNotFound(k)
      PROVE  WindowInv'
  BY <1>7 DEF helloOk, sessionAccepted, sessionNotFound, WindowInv, Ends
<1>8. ASSUME NEW k \in Sockets, sessionRejected(k) \/ sessionClose(k) PROVE WindowInv'
  BY <1>8, CleanupWindow DEF sessionRejected, sessionClose
<1>9. CASE PeerFailed
  <2>1. CASE socket # 0 /\ conn[socket].st \in {"connecting", "open"}
    BY <1>9, <2>1 DEF PeerFailed, WindowInv, Ends
  <2>2. CASE ~(socket # 0 /\ conn[socket].st \in {"connecting", "open"})
    BY <1>9, <2>2, LostWindow DEF PeerFailed
  <2>3. QED BY <2>1, <2>2
<1>10. CASE PeerConnected \/ ControlOpen \/ onControlFrame
  BY <1>10 DEF PeerConnected, ControlOpen, onControlFrame, WindowInv, Ends
<1>11. ASSUME NEW s \in Sessions, Resumes(s) PROVE WindowInv'
  <2>1. CASE NotPaired(s) BY <2>1, CleanupWindow DEF NotPaired
  <2>2. CASE ~NotPaired(s)
    BY <1>11, <2>2
    DEF Resumes, OpenPeer, Answered, OfferRefused, beginPeerAuth, ProofChecked, onTimeout,
        WindowInv, Ends
  <2>3. QED BY <2>1, <2>2
<1>12. CASE UNCHANGED vars BY <1>12 DEF vars, WindowInv
<1>13. QED
  BY <1>1, <1>2, <1>3, <1>4, <1>5, <1>6, <1>7, <1>8, <1>9, <1>10, <1>11, <1>12 DEF Next, onFrame
-----------------------------------------------------------------------------
LEMMA CleanupEnds ==
  ASSUME TypeOK, OneSocket, ~unwound, NEW c, Touched(c), cleanup(c)
  PROVE  EndedIsOver'
<1>1. Dropped BY CleanupDrops
<1>2. QED BY <1>1 DEF Dropped, EndedIsOver, cleanup, closePeer

LEMMA SocketsAct ==
  ASSUME NEW k \in Sockets, Opened(k) \/ Closed(k) \/ onFrame(k)
  PROVE  Attached(k) /\ late' = late /\ unwound' = unwound
<1>1. CASE Opened(k) BY <1>1 DEF Opened, Attached
<1>2. CASE Closed(k) BY <1>2 DEF Closed
<1>3. CASE helloOk(k) \/ sessionAccepted(k) \/ sessionNotFound(k)
  BY <1>3 DEF helloOk, sessionAccepted, sessionNotFound, Attached
<1>4. CASE sessionRejected(k) \/ signalOffer(k) \/ sessionClose(k) \/ BadFrame(k)
  BY <1>4 DEF sessionRejected, signalOffer, sessionClose, BadFrame, Attached
<1>5. QED BY <1>1, <1>2, <1>3, <1>4 DEF onFrame

LEMMA ResumesAct ==
  ASSUME NEW s \in Sessions, Resumes(s), ~late'
  PROVE  Current(s) /\ ~late /\ unwound' = unwound
<1>1. CASE OpenPeer(s) BY <1>1 DEF OpenPeer
<1>2. CASE Answered(s) \/ OfferRefused(s) \/ beginPeerAuth(s)
  BY <1>2 DEF Answered, OfferRefused, beginPeerAuth, Acts
<1>3. CASE NotPaired(s) \/ ProofChecked(s) \/ onTimeout(s)
  BY <1>3 DEF NotPaired, ProofChecked, onTimeout, Acts
<1>4. QED BY <1>1, <1>2, <1>3 DEF Resumes

(* Once over, only a callback that does not ask for its session can act.     *)
LEMMA EndedStep ==
  ASSUME TypeOK, OneSocket, EndedIsOver, [Next]_vars
  PROVE  EndedIsOver'
<1>0. conn \in [Sockets -> Conns] /\ socket \in Sockets \cup {0} BY DEF TypeOK
<1>a. Touched(conn) BY <1>0 DEF Touched
<1> SUFFICES ASSUME over', ~late', ~unwound' PROVE EndedIsOver'
  BY DEF EndedIsOver
<1>1. CASE Start
  BY <1>1 DEF Start, connect, NewSocket, EndedIsOver
<1>2. CASE disconnect BY <1>2, <1>a, CleanupEnds DEF disconnect
<1>3. CASE Retry \/ WindowEnds
  <2>0. over' = over /\ late' = late /\ unwound' = unwound BY <1>3 DEF Retry, WindowEnds
  <2>1. over /\ ~late /\ ~unwound BY <2>0, Zenon
  <2>2. phase = "ended" BY <2>1 DEF EndedIsOver
  <2>3. QED BY <1>3, <2>1, <2>2 DEF Retry, WindowEnds, EndedIsOver, Attached, auth
<1>4. ASSUME NEW k \in Sockets, Opened(k) \/ Closed(k) \/ onFrame(k) PROVE EndedIsOver'
  <2>1. Attached(k) /\ ~late /\ ~unwound BY <1>4, SocketsAct
  <2>2. ~over BY <2>1 DEF EndedIsOver
  <2>3. CASE Closed(k)
    <3> DEFINE c == [conn EXCEPT ![k].st = "gone"]
    <3>1. c \in [Sockets -> Conns] BY <1>0, SetState DEF States
    <3>2. Touched(c) BY <1>0, <2>1, <3>1 DEF Touched, Conns
    <3>3. handleSocketLost(c) BY <2>3 DEF Closed
    <3> HIDE DEF c
    <3>4. cleanup(c) BY <2>2, <3>3 DEF handleSocketLost
    <3>5. QED BY <2>1, <3>2, <3>4, CleanupEnds
  <2>4. CASE sessionRejected(k)
    <3> DEFINE c == [conn EXCEPT ![k].due = @ \ {"answer"}]
    <3>1. conn[k].due \ {"answer"} \in SUBSET Replies BY <1>0 DEF Conns
    <3>2. c \in [Sockets -> Conns] BY <1>0, <3>1, SetDue
    <3>3. Touched(c) BY <1>0, <3>2 DEF Touched, Conns
    <3>4. cleanup(c) BY <2>4 DEF sessionRejected
    <3> HIDE DEF c
    <3>5. QED BY <2>1, <3>3, <3>4, CleanupEnds
  <2>5. CASE sessionClose(k) BY <1>a, <2>1, <2>5, CleanupEnds DEF sessionClose
  <2>6. QED
    BY <1>4, <2>2, <2>3, <2>4, <2>5
    DEF Opened, onFrame, helloOk, sessionAccepted, sessionNotFound, signalOffer, BadFrame
<1>5. CASE PeerFailed
  <2>1. CASE socket # 0 /\ conn[socket].st \in {"connecting", "open"}
    BY <1>5, <2>1 DEF PeerFailed, EndedIsOver
  <2>2. CASE ~(socket # 0 /\ conn[socket].st \in {"connecting", "open"})
    <3>1. ~late /\ ~unwound /\ handleSocketLost(conn) /\ phase \notin Ends
      BY <1>5, <2>2 DEF PeerFailed
    <3>2. ~over BY <3>1 DEF EndedIsOver, Ends
    <3>3. cleanup(conn) BY <3>1, <3>2 DEF handleSocketLost
    <3>4. QED BY <1>a, <3>1, <3>3, CleanupEnds
  <2>3. QED BY <2>1, <2>2
<1>6. CASE PeerConnected \/ ControlOpen \/ onControlFrame
  <2>0. over' = over /\ late' = late /\ unwound' = unwound
    BY <1>6 DEF PeerConnected, ControlOpen, onControlFrame
  <2>1. over /\ ~late /\ ~unwound BY <2>0, Zenon
  <2>2. peer = NoPeer BY <2>1 DEF EndedIsOver
  <2>3. QED BY <1>6, <2>2 DEF PeerConnected, ControlOpen, onControlFrame, NoPeer
<1>7. ASSUME NEW s \in Sessions, Resumes(s) PROVE EndedIsOver'
  <2>1. Current(s) /\ ~late /\ ~unwound BY <1>7, ResumesAct
  <2>2. ~over BY <1>0, <2>1 DEF Current, Sendable, EndedIsOver
  <2>3. CASE NotPaired(s) BY <1>a, <2>1, <2>3, CleanupEnds DEF NotPaired
  <2>4. QED
    BY <1>7, <2>2, <2>3
    DEF Resumes, OpenPeer, Answered, OfferRefused, beginPeerAuth, ProofChecked, onTimeout
<1>8. CASE UNCHANGED vars BY <1>8 DEF vars, auth, EndedIsOver, Attached
<1>9. QED BY <1>1, <1>2, <1>3, <1>4, <1>5, <1>6, <1>7, <1>8 DEF Next
-----------------------------------------------------------------------------
(* The history flags are never taken back.                                   *)
LEMMA Remembered ==
  ASSUME TypeOK, [Next]_vars
  PROVE  /\ ~late' => ~late
         /\ ~unretried' => ~unretried
         /\ ~unwound' => ~unwound
<1>1. CASE Start \/ disconnect \/ Retry \/ WindowEnds
  <2>1. late' = late /\ unretried' = unretried /\ unwound' = unwound
    BY <1>1 DEF Start, disconnect, cleanup, Retry, WindowEnds
  <2>2. QED BY <2>1, Zenon
<1>2. ASSUME NEW c, cleanup(c) \/ handleSocketLost(c) PROVE unretried' = unretried
  BY <1>2 DEF cleanup, handleSocketLost
<1>3. ASSUME NEW k \in Sockets, Opened(k) \/ Closed(k) \/ onFrame(k)
      PROVE  late' = late /\ unwound' = unwound /\ (unretried' = unretried \/ unretried' = TRUE)
  <2>1. CASE Opened(k) BY <1>3, <2>1, SocketsAct DEF Opened
  <2>2. CASE Closed(k) BY <1>2, <1>3, <2>2, SocketsAct DEF Closed
  <2>3. CASE helloOk(k) \/ sessionAccepted(k) \/ sessionNotFound(k)
    BY <1>3, <2>3, SocketsAct DEF helloOk, sessionAccepted, sessionNotFound
  <2>4. CASE signalOffer(k) \/ BadFrame(k)
    BY <1>3, <2>4, SocketsAct DEF signalOffer, BadFrame
  <2>5. CASE sessionRejected(k) \/ sessionClose(k)
    BY <1>2, <1>3, <2>5, SocketsAct DEF sessionRejected, sessionClose
  <2>6. QED BY <1>3, <2>1, <2>2, <2>3, <2>4, <2>5 DEF onFrame
<1>4. CASE PeerConnected \/ ControlOpen \/ onControlFrame \/ UNCHANGED vars
  <2>1. late' = late /\ unretried' = unretried /\ unwound' = unwound
    BY <1>4 DEF PeerConnected, ControlOpen, onControlFrame, vars
  <2>2. QED BY <2>1, Zenon
<1>5. CASE PeerFailed
  <2>1. late' = late /\ unretried' = unretried BY <1>2, <1>5 DEF PeerFailed
  <2>2. unwound' = unwound \/ unwound' = (unwound \/ socket # 0) BY <1>5 DEF PeerFailed
  <2>3. ~unwound' => ~unwound BY <2>2, Zenon
  <2>4. QED BY <2>1, <2>3, Zenon
<1>6. ASSUME NEW s \in Sessions, Resumes(s)
      PROVE  /\ late' = (late \/ late') /\ unwound' = unwound
             /\ unretried' = unretried \/ unretried' = TRUE
  <2>1. CASE OpenPeer(s) BY <2>1 DEF OpenPeer, TypeOK
  <2>2. CASE Answered(s) BY <2>2 DEF Answered, Acts, TypeOK
  <2>3. CASE OfferRefused(s) BY <2>3 DEF OfferRefused, Acts, TypeOK
  <2>4. CASE beginPeerAuth(s) BY <2>4 DEF beginPeerAuth, Acts, TypeOK
  <2>5. CASE NotPaired(s) BY <1>2, <2>5 DEF NotPaired, Acts, TypeOK
  <2>6. CASE ProofChecked(s) BY <2>6 DEF ProofChecked, Acts, TypeOK
  <2>7. CASE onTimeout(s) BY <2>7 DEF onTimeout, Acts, TypeOK
  <2>8. QED BY <1>6, <2>1, <2>2, <2>3, <2>4, <2>5, <2>6, <2>7 DEF Resumes
<1>7. ASSUME NEW k \in Sockets, Opened(k) \/ Closed(k) \/ onFrame(k)
      PROVE  (~late' => ~late) /\ (~unretried' => ~unretried) /\ (~unwound' => ~unwound)
  BY <1>3, <1>7, Zenon
<1>8. ASSUME NEW s \in Sessions, Resumes(s)
      PROVE  (~late' => ~late) /\ (~unretried' => ~unretried) /\ (~unwound' => ~unwound)
  BY <1>6, <1>8, Zenon
<1>9. QED BY <1>1, <1>4, <1>5, <1>7, <1>8 DEF Next

LEMMA CleanupDriven ==
  ASSUME NEW c, cleanup(c) PROVE Driven'
BY DEF cleanup, closePeer, Driven, Ends

LEMMA LostDriven ==
  ASSUME TypeOK, phase \notin Ends, NEW c, handleSocketLost(c)
  PROVE  Driven'
<1>1. CASE Since = "over" BY <1>1, CleanupDriven DEF handleSocketLost
<1>2. CASE Since # "over"
  BY <1>2 DEF handleSocketLost, closePeer, Driven, Retries, Ends, TypeOK
<1>3. QED BY <1>1, <1>2

LEMMA DrivenStep ==
  ASSUME TypeOK, OneSocket, DrivenInv, [Next]_vars
  PROVE  DrivenInv'
<1> SUFFICES ASSUME ~late', ~unretried', ~unwound' PROVE Driven'
  BY DEF DrivenInv
<1>0. conn \in [Sockets -> Conns] /\ socket \in Sockets \cup {0} /\ 0 \notin Sockets
  BY DEF TypeOK, Sockets
<1>a. Driven /\ \A k \in Sockets : Attached(k) => k = socket
  BY Remembered DEF DrivenInv, OneSocket
<1>1. CASE Start
  BY <1>0, <1>1, <1>a DEF Start, connect, NewSocket, Driven, Ends
<1>2. CASE disconnect BY <1>2, CleanupDriven DEF disconnect
<1>3. CASE Retry
  <2>1. CASE phase # "reconnecting" BY <1>3, <1>a, <2>1 DEF Retry, Driven
  <2>2. CASE phase = "reconnecting" /\ socket # 0
    BY <1>3, <1>a, <2>2 DEF Retry, connect, Driven, Ends
  <2>3. CASE phase = "reconnecting" /\ socket = 0
    BY <1>0, <1>3, <1>a, <2>3 DEF Retry, connect, NewSocket, Driven, Ends
  <2>4. QED BY <2>1, <2>2, <2>3
<1>4. CASE WindowEnds BY <1>4, <1>a DEF WindowEnds, Driven
<1>5. ASSUME NEW k \in Sockets, Opened(k) \/ Closed(k) \/ onFrame(k) PROVE Driven'
  <2>1. k = socket /\ socket # 0 /\ phase \notin Ends
    BY <1>0, <1>5, <1>a, SocketsAct DEF Driven
  <2>2. CASE Opened(k)
    <3>1. phase # "reconnecting" BY <1>a, <2>1, <2>2 DEF Driven, Opened
    <3>2. QED BY <2>1, <2>2, <3>1 DEF Driven, Opened
  <2>3. CASE Closed(k) BY <2>1, <2>3, LostDriven DEF Closed
  <2>4. CASE helloOk(k) \/ sessionAccepted(k)
    BY <2>1, <2>4 DEF helloOk, sessionAccepted, Driven, Ends
  <2>5. CASE sessionNotFound(k) BY <2>5 DEF sessionNotFound
  <2>6. CASE signalOffer(k) \/ BadFrame(k)
    <3>1. phase # "reconnecting" BY <1>a, <2>1, <2>6 DEF Driven, signalOffer, BadFrame
    <3>2. QED BY <2>1, <2>6, <3>1 DEF Driven, signalOffer, BadFrame
  <2>7. CASE sessionRejected(k) \/ sessionClose(k)
    BY <2>7, CleanupDriven DEF sessionRejected, sessionClose
  <2>8. QED BY <1>5, <2>2, <2>3, <2>4, <2>5, <2>6, <2>7 DEF onFrame
<1>6. CASE PeerFailed
  <2>1. CASE socket # 0 /\ conn[socket].st \in {"connecting", "open"}
    BY <1>0, <1>6, <2>1 DEF PeerFailed, Driven, closePeer, Conns, Ends
  <2>2. CASE ~(socket # 0 /\ conn[socket].st \in {"connecting", "open"})
    BY <1>6, <2>2, LostDriven DEF PeerFailed
  <2>3. QED BY <2>1, <2>2
<1>7. CASE PeerConnected \/ ControlOpen \/ onControlFrame
  <2>1. peer # NoPeer \/ UNCHANGED <<phase, socket, conn, peer, retries>>
    BY <1>7 DEF PeerConnected, ControlOpen, onControlFrame, NoPeer
  <2>2. QED
    BY <1>7, <1>a, <2>1 DEF PeerConnected, ControlOpen, onControlFrame, Driven, Ends
<1>8. ASSUME NEW s \in Sessions, Resumes(s) PROVE Driven'
  <2>1. socket # 0 /\ phase # "reconnecting" /\ phase \notin Ends
    BY <1>8, <1>a, ResumesAct DEF Current, Sendable, Driven
  <2>2. CASE OpenPeer(s) \/ Answered(s) \/ beginPeerAuth(s)
    BY <2>1, <2>2 DEF OpenPeer, Answered, beginPeerAuth, Driven, Ends
  <2>3. CASE OfferRefused(s) \/ ProofChecked(s) \/ onTimeout(s)
    BY <2>1, <2>3 DEF OfferRefused, ProofChecked, onTimeout, Driven, Ends
  <2>4. CASE NotPaired(s) BY <2>4, CleanupDriven DEF NotPaired
  <2>5. QED BY <1>8, <2>2, <2>3, <2>4 DEF Resumes
<1>9. CASE UNCHANGED vars BY <1>9, <1>a DEF vars, Driven
<1>10. QED BY <1>1, <1>2, <1>3, <1>4, <1>5, <1>6, <1>7, <1>8, <1>9 DEF Next
-----------------------------------------------------------------------------
LEMMA CleanupUnoffered ==
  ASSUME NEW c, cleanup(c) \/ handleSocketLost(c)
  PROVE  Unoffered'
<1>1. closePeer BY DEF cleanup, handleSocketLost
<1>2. QED BY <1>1 DEF closePeer, Voided, Unoffered

LEMMA UnofferedStep ==
  ASSUME TypeOK, Unoffered, [Next]_vars
  PROVE  Unoffered'
<1>1. CASE Start \/ Retry \/ WindowEnds
  BY <1>1 DEF Start, Retry, WindowEnds, Unoffered
<1>2. CASE disconnect BY <1>2, CleanupUnoffered DEF disconnect
<1>3. ASSUME NEW k \in Sockets, Opened(k) \/ BadFrame(k) \/ helloOk(k) \/ sessionAccepted(k)
      PROVE  Unoffered'
  BY <1>3 DEF Opened, BadFrame, helloOk, sessionAccepted, Unoffered
<1>4. ASSUME NEW k \in Sockets, sessionNotFound(k) PROVE Unoffered'
  BY <1>4 DEF sessionNotFound, Unoffered
<1>5. ASSUME NEW k \in Sockets, Closed(k) \/ sessionRejected(k) \/ sessionClose(k)
      PROVE  Unoffered'
  BY <1>5, CleanupUnoffered DEF Closed, sessionRejected, sessionClose
<1>6. ASSUME NEW k \in Sockets, signalOffer(k) PROVE Unoffered'
  <2>1. CASE UNCHANGED <<peer, accepts>> BY <2>1 DEF Unoffered
  <2>2. CASE peer' = [peer EXCEPT !.sdp = conn[k].session]
    BY <1>6, <2>2 DEF signalOffer, TypeOK, Peers, Unoffered, NoPeer
  <2>3. QED BY <1>6, <2>1, <2>2 DEF signalOffer
<1>7. CASE PeerFailed
  <2>1. closePeer BY <1>7 DEF PeerFailed, handleSocketLost, cleanup
  <2>2. QED BY <2>1 DEF closePeer, Voided, Unoffered
<1>8. CASE PeerConnected \/ ControlOpen \/ onControlFrame
  BY <1>8 DEF PeerConnected, ControlOpen, onControlFrame, Unoffered, TypeOK, Peers, NoPeer
<1>9. ASSUME NEW s \in Sessions, Resumes(s) PROVE Unoffered'
  <2>1. CASE OpenPeer(s) BY <2>1 DEF OpenPeer, Unoffered, NoPeer
  <2>2. CASE Answered(s) BY <2>2 DEF Answered, Unoffered, TypeOK, Peers, NoPeer
  <2>3. CASE OfferRefused(s) BY <2>3 DEF OfferRefused, Unoffered, TypeOK
  <2>4. CASE beginPeerAuth(s) \/ ProofChecked(s) \/ onTimeout(s)
    BY <2>4 DEF beginPeerAuth, ProofChecked, onTimeout, Unoffered
  <2>5. CASE NotPaired(s) BY <2>5, CleanupUnoffered DEF NotPaired
  <2>6. QED BY <1>9, <2>1, <2>2, <2>3, <2>4, <2>5 DEF Resumes
<1>10. CASE UNCHANGED vars BY <1>10 DEF vars, Unoffered
<1>11. QED
  BY <1>1, <1>2, <1>3, <1>4, <1>5, <1>6, <1>7, <1>8, <1>9, <1>10 DEF Next, onFrame

OffersHold == PeerNeedsSocket /\ (Sendable => Taken(conn[socket]))

LEMMA SocketGone ==
  ASSUME closePeer, socket' = 0 PROVE OffersHold'
BY DEF OffersHold, closePeer, PeerNeedsSocket, Sendable

LEMMA ConnectOffers ==
  ASSUME TypeOK, OffersHold, connect, UNCHANGED <<peer, sid, fetching, held>>
  PROVE  OffersHold'
<1>1. CASE socket # 0
  BY <1>1 DEF connect, OffersHold, PeerNeedsSocket, Sendable, Taken
<1>2. CASE socket = 0
  <2>1. PICK k \in Sockets : socket' = k /\ conn' = [conn EXCEPT ![k].st = "connecting"]
    BY <1>2 DEF connect, NewSocket
  <2>2. conn'[socket'].st = "connecting" BY <2>1 DEF TypeOK, Conns
  <2>3. peer' = NoPeer BY <1>2 DEF OffersHold, PeerNeedsSocket
  <2>4. QED BY <2>2, <2>3 DEF OffersHold, PeerNeedsSocket, Sendable
<1>3. QED BY <1>1, <1>2

LEMMA OffersStep ==
  ASSUME TypeOK, OneSocket, FreshSockets, Unoffered, OffersInv, [Next]_vars
  PROVE  OffersInv'
<1> SUFFICES ASSUME ~late', ~unwound' PROVE OffersHold'
  BY DEF OffersInv, OffersHold
<1>0. conn \in [Sockets -> Conns] /\ socket \in Sockets \cup {0} /\ 0 \notin Sockets
  BY DEF TypeOK, Sockets
<1>a. OffersHold /\ \A k \in Sockets : Attached(k) => k = socket
  BY Remembered DEF OffersInv, OffersHold, OneSocket
<1>1. CASE Start BY <1>1, <1>a, ConnectOffers DEF Start
<1>2. CASE disconnect BY <1>2, SocketGone DEF disconnect, cleanup
<1>3. CASE Retry
  <2>1. CASE phase = "reconnecting" BY <1>3, <1>a, <2>1, ConnectOffers DEF Retry
  <2>2. CASE phase # "reconnecting"
    BY <1>3, <1>a, <2>2 DEF Retry, OffersHold, PeerNeedsSocket, Sendable, Taken
  <2>3. QED BY <2>1, <2>2
<1>4. ASSUME NEW k \in Sockets, Opened(k) \/ Closed(k) \/ onFrame(k) PROVE OffersHold'
  <2>1. k = socket /\ socket \in Sockets /\ conn[k] \in Conns
    BY <1>0, <1>4, <1>a, SocketsAct
  <2>2. conn[k].st = "open" => Taken(conn[k]) BY <1>0, <1>a, <2>1 DEF OffersHold, Sendable
  <2>3. CASE Opened(k)
    <3>1. conn[k].session = 0 /\ ~conn[k].offered /\ peer = NoPeer
      BY <1>a, <2>1, <2>3 DEF Opened, FreshSockets, OffersHold, PeerNeedsSocket
    <3>2. conn'[k] = [conn[k] EXCEPT !.st = "open", !.due = {"hello.ok"}]
      BY <1>0, <2>3 DEF Opened
    <3>3. conn'[k].st = "open" /\ conn'[k].due = {"hello.ok"} /\ conn'[k].session = 0
      BY <2>1, <3>1, <3>2 DEF Conns
    <3>4. peer' = NoPeer /\ socket' = socket BY <2>3, <3>1 DEF Opened
    <3>5. Taken(conn[socket])' BY <2>1, <3>3, <3>4 DEF Taken
    <3>6. QED BY <1>0, <2>1, <3>3, <3>4, <3>5 DEF OffersHold, PeerNeedsSocket
  <2>4. CASE Closed(k) BY <2>4, SocketGone DEF Closed, handleSocketLost, cleanup
  <2>5. CASE helloOk(k)
    <3>1. conn'[k] = [conn[k] EXCEPT !.due = (@ \ {"hello.ok"}) \cup {"answer"}]
      BY <1>0, <2>1, <2>5 DEF helloOk, Sendable, Conns
    <3>2. conn[k].session = 0 /\ peer = NoPeer BY <2>2, <2>5 DEF helloOk, Taken
    <3>3. QED
      BY <2>1, <2>5, <3>1, <3>2 DEF helloOk, OffersHold, PeerNeedsSocket, Taken, Conns
  <2>6. CASE sessionAccepted(k)
    <3>1. PICK s \in Sessions : s = now + 1
      BY <2>6, SessionsAssumption DEF sessionAccepted, TypeOK, Sessions
    <3>2. conn'[k] = [conn[k] EXCEPT !.due = @ \ {"answer"}, !.session = s, !.offered = FALSE]
      BY <1>0, <2>6, <3>1 DEF sessionAccepted
    <3>3. conn[k].due = {"answer"} /\ peer = NoPeer /\ conn[k].st = "open"
      BY <2>1, <2>2, <2>6 DEF sessionAccepted, Taken, Conns, Replies
    <3>4. conn'[k].due = {} BY <2>1, <3>2, <3>3 DEF Conns
    <3>5. conn'[k].session = s /\ ~conn'[k].offered /\ conn'[k].st = "open"
      BY <2>1, <3>2, <3>3 DEF Conns
    <3>6. /\ socket' = socket /\ peer' = NoPeer /\ sid' = s /\ s # 0 /\ s \in fetching'
      BY <2>6, <3>1, <3>3 DEF sessionAccepted, Sessions
    <3>7. Taken(conn[socket])' BY <2>1, <3>4, <3>5, <3>6 DEF Taken
    <3>8. QED BY <1>0, <2>1, <3>5, <3>6, <3>7 DEF OffersHold, PeerNeedsSocket
  <2>7. CASE sessionNotFound(k)
    <3>1. conn'[k] = [conn[k] EXCEPT !.due = @ \ {"answer"}] BY <1>0, <2>7 DEF sessionNotFound
    <3>2. /\ conn'[k].st = "open" /\ conn'[k].due \subseteq conn[k].due
          /\ conn'[k].session = conn[k].session /\ conn'[k].offered = conn[k].offered
      BY <2>1, <2>7, <3>1 DEF sessionNotFound, Conns
    <3>3. UNCHANGED <<socket, peer, sid, fetching, held>> /\ Taken(conn[k])
      BY <2>2, <2>7 DEF sessionNotFound
    <3>4. Taken(conn[socket])' BY <2>1, <3>2, <3>3 DEF Taken
    <3>5. QED BY <1>0, <2>1, <3>2, <3>3, <3>4 DEF OffersHold, PeerNeedsSocket
  <2>8. CASE signalOffer(k)
    <3>1. conn'[k] = [conn[k] EXCEPT !.offered = TRUE] BY <1>0, <2>8 DEF signalOffer
    <3>2. conn[k].session # 0 /\ conn[k].session = sid /\ conn[k].due = {}
      BY <2>2, <2>8 DEF signalOffer, Taken
    <3>3. conn'[k].st = "open" /\ conn'[k].due = {} /\ conn'[k].session = sid
      BY <2>1, <2>8, <3>1, <3>2 DEF Conns, signalOffer
    <3>4. CASE peer = NoPeer
      BY <2>1, <2>2, <2>8, <3>2, <3>3, <3>4
      DEF signalOffer, Holds, OffersHold, PeerNeedsSocket, Taken
    <3>5. CASE peer # NoPeer
      <4>1. peer' = [peer EXCEPT !.sdp = sid] /\ peer \in Peers
        BY <2>8, <3>2, <3>5 DEF signalOffer, TypeOK
      <4>2. peer'.sdp = sid /\ peer' # NoPeer BY <3>2, <4>1 DEF Peers, NoPeer
      <4>3. UNCHANGED <<socket, sid, fetching>> BY <2>8 DEF signalOffer
      <4>4. sid \notin fetching BY <2>2, <2>8, <3>2, <3>5 DEF signalOffer, Taken
      <4>5. Taken(conn[socket])' BY <2>1, <3>2, <3>3, <4>2, <4>3, <4>4 DEF Taken
      <4>6. QED BY <1>0, <2>1, <3>3, <4>3, <4>5 DEF OffersHold, PeerNeedsSocket
    <3>6. QED BY <3>4, <3>5
  <2>9. CASE BadFrame(k)
    <3>1. conn'[k].st = "closing" BY <1>0, <2>1, <2>9 DEF BadFrame, Sendable, Conns
    <3>2. QED BY <2>1, <2>9, <3>1 DEF BadFrame, OffersHold, PeerNeedsSocket, Sendable
  <2>10. CASE sessionRejected(k) \/ sessionClose(k)
    BY <2>10, SocketGone DEF sessionRejected, sessionClose, cleanup
  <2>11. QED BY <1>4, <2>3, <2>4, <2>5, <2>6, <2>7, <2>8, <2>9, <2>10 DEF onFrame
<1>5. CASE PeerFailed
  <2>1. CASE socket # 0 /\ conn[socket].st \in {"connecting", "open"}
    <3>1. conn'[socket].st = "closing" /\ socket' = socket
      BY <1>0, <1>5, <2>1 DEF PeerFailed, Conns
    <3>2. QED BY <2>1, <3>1 DEF OffersHold, PeerNeedsSocket, Sendable
  <2>2. CASE ~(socket # 0 /\ conn[socket].st \in {"connecting", "open"})
    BY <1>5, <2>2, SocketGone DEF PeerFailed, handleSocketLost, cleanup
  <2>3. QED BY <2>1, <2>2
<1>6. CASE PeerConnected \/ ControlOpen \/ onControlFrame
  <2>1. /\ UNCHANGED <<socket, conn, sid, held, fetching>>
        /\ peer'.sdp = peer.sdp /\ (peer' = NoPeer <=> peer = NoPeer)
    BY <1>6 DEF PeerConnected, ControlOpen, onControlFrame, TypeOK, Peers, NoPeer
  <2>2. QED BY <1>a, <2>1 DEF OffersHold, PeerNeedsSocket, Sendable, Taken
<1>7. ASSUME NEW s \in Sessions, Resumes(s) PROVE OffersHold'
  <2>1. socket # 0 /\ conn[socket].st = "open" /\ conn[socket].session = s
    BY <1>7, ResumesAct DEF Current, Sendable
  <2>2. s # 0 /\ Taken(conn[socket]) BY <1>a, <2>1 DEF OffersHold, Sendable, Sessions
  <2>3. CASE OpenPeer(s)
    <3>1. peer' = [st |-> "new", sdp |-> held] /\ peer' # NoPeer /\ held \in {0, s}
      BY <2>3 DEF OpenPeer, NoPeer
    <3>2. peer = NoPeer BY <2>1, <2>2, <2>3 DEF OpenPeer, Taken
    <3>3. QED
      BY <2>1, <2>2, <2>3, <3>1, <3>2 DEF OpenPeer, OffersHold, PeerNeedsSocket, Taken
  <2>4. CASE Answered(s)
    <3>1. peer # NoPeer BY <2>4 DEF Answered, Unoffered
    <3>2. peer'.sdp = peer.sdp /\ peer' # NoPeer
      BY <2>4, <3>1 DEF Answered, TypeOK, Peers, NoPeer
    <3>3. QED
      BY <2>1, <2>2, <2>4, <3>1, <3>2 DEF Answered, OffersHold, PeerNeedsSocket, Taken
  <2>5. CASE OfferRefused(s) \/ beginPeerAuth(s) \/ ProofChecked(s) \/ onTimeout(s)
    BY <1>a, <2>5
    DEF OfferRefused, beginPeerAuth, ProofChecked, onTimeout, OffersHold, PeerNeedsSocket,
        Sendable, Taken
  <2>6. CASE NotPaired(s) BY <2>6, SocketGone DEF NotPaired, cleanup
  <2>7. QED BY <1>7, <2>3, <2>4, <2>5, <2>6 DEF Resumes
<1>8. CASE WindowEnds \/ UNCHANGED vars
  BY <1>8, <1>a DEF WindowEnds, vars, OffersHold, PeerNeedsSocket, Sendable, Taken
<1>9. QED BY <1>1, <1>2, <1>3, <1>4, <1>5, <1>6, <1>7, <1>8 DEF Next
-----------------------------------------------------------------------------
LEMMA InitInv == Init => IInv
<1> SUFFICES ASSUME Init PROVE IInv
  OBVIOUS
<1>1. TypeOK BY DEF Init, TypeOK, Phases, Conns, Unused, Peers, NoPeer
<1>2. OneSocket /\ FreshSockets BY DEF Init, OneSocket, FreshSockets, Attached, Unused
<1>3. WindowInv /\ EndedIsOver /\ DrivenInv
  BY DEF Init, WindowInv, EndedIsOver, DrivenInv, Driven, Ends
<1>4. Unoffered /\ OffersInv
  BY DEF Init, Unoffered, OffersInv, PeerNeedsSocket, Sendable
<1>5. QED BY <1>1, <1>2, <1>3, <1>4 DEF IInv

LEMMA InvStep == IInv /\ [Next]_vars => IInv'
BY TypeStep, OneSocketStep, FreshStep, WindowStep, EndedStep, DrivenStep, UnofferedStep, OffersStep
DEF IInv

LEMMA InvHolds == Spec => []IInv
BY InitInv, InvStep, PTL DEF Spec

(* Every variable of the phone's session keeps its type.                     *)
THEOREM ReceiverTypeCorrect == Spec => []TypeOK
<1>1. IInv => TypeOK BY DEF IInv
<1>2. QED BY <1>1, InvHolds, PTL

(* A session that has ended stays ended and leaves nothing behind, unless a  *)
(* callback that does not ask for its session acts on it or a socket was     *)
(* dropped before it had closed.                                             *)
THEOREM EndedForGood == Spec => []EndedIsOver
<1>1. IInv => EndedIsOver BY DEF IInv
<1>2. QED BY <1>1, InvHolds, PTL

(* A phone that shows "Reconnecting" has a timer or the close of its socket  *)
(* coming, and one in no session has a socket, unless one of the messages    *)
(* that arrange no retry was shown, a callback has acted after its session,  *)
(* or a socket was dropped before it had closed.                             *)
THEOREM ReconnectingAlwaysDriven == Spec => []ReconnectingIsDriven
<1>1. IInv => ReconnectingIsDriven
  BY DEF IInv, DrivenInv, Driven, ReconnectingIsDriven
<1>2. QED BY <1>1, InvHolds, PTL

(* At most one attempt to reconnect begins after the window is over.         *)
THEOREM ReconnectAlwaysGivesUp == Spec => []ReconnectGivesUp
<1>1. IInv => ReconnectGivesUp BY DEF IInv, WindowInv, ReconnectGivesUp
<1>2. QED BY <1>1, InvHolds, PTL

(* An offer of the present session waits for its peer or has reached it,     *)
(* unless a callback has acted after its session or a socket was dropped     *)
(* before it had closed.                                                     *)
THEOREM OffersAreTaken == Spec => []OfferIsTaken
<1>1. IInv => OfferIsTaken
  BY DEF IInv, OffersInv, Taken, OfferIsTaken
<1>2. QED BY <1>1, InvHolds, PTL
=============================================================================
