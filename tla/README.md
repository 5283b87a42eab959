# RemoteTab: a TLA+ verification project

RemoteTab lets a phone see and control one Chrome tab of a laptop. The modules
here model its control logic from the source under `src/`, check it with TLC on
small instances and prove the core with TLAPS. `PROJECT.json` holds the runs,
the mutants, the map from definitions to source lines, the hazards and the
findings; this file says how they fit together.

## 1. The system

Three programs. The **signaling service** (Bun, one process, one thread) keeps a
WebSocket to every device. The **desktop** is a Chrome extension: a service
worker, an offscreen document that holds the captured stream, a popup. The
**phone** is a web page. A phone pairs with a desktop by scanning a QR code,
later asks it for a session through the service, the two exchange SDP and ICE
through it, and from then on talk over WebRTC: video one way, a control channel
the other. On that channel they first prove their keys to each other, then the
phone sends numbered input frames and the desktop turns them into debugger
commands on the tab.

| Component | Source | State | Operations | Talks to |
| --- | --- | --- | --- | --- |
| Signaling router | `apps/signaling/src/router.ts` | handles, pending authentication challenges, `authenticated`, `sessionRequests` | one handler per frame type, `handleConnClosed` | transport (calls), registry and repositories (calls), devices (frames) |
| Registry and repositories | `apps/signaling/src/registry.ts` | connections, device lookup, pairings, sessions | register, bind, unregister, sweep, find, list | called by the router and the sweeper |
| Device registry | `apps/signaling/src/device-registry.ts` | device keys, revocations (memory or sqlite) | enroll, revoke, isRevoked, get | called by the router and the admin endpoint |
| Transport | `apps/signaling/src/server.ts` | sockets, frame rate windows | open, message, close, sweep, HTTP endpoints, stop | sockets |
| TURN issuance | `apps/signaling/src/turn.ts`, `rate-limit.ts` | request windows per device | verify, limit, mint | HTTP |
| Desktop service worker | `apps/extension/src/entrypoints/background.ts` and its helpers `session-state.ts`, `session-store.ts`, `teardown.ts`, `power-adapter.ts`, `capture-adapter.ts` | phase in `chrome.storage`, active session id, handshake, teardown object | popup requests, signaling frames, sender events, tab events, restart | all of the desktop |
| Pairing | `pairing-manager.ts`, `paired-devices.ts`, phone `pairing.ts` | the pending secret, the stored list of phones | create, cancel, onPairJoin, upsert, revoke | signaling |
| Input service | `input-service.ts`, `cdp-input.ts` | armed session, sequence guard, attached tab, command queue | begin, attachTo, handleFrame, stop | control channel, `chrome.debugger` |
| Signaling client | `signaling-client.ts`, `backoff.ts` | socket, reconnect timer, attempt | connect, close, send | signaling |
| Handshake | `packages/crypto/src/peer-handshake.ts` | nonces, timer, outcome | start, onChallenge, onProof | control channel |
| Control protocol | `packages/protocol/src/control.ts`, `frame.ts`, `packages/webrtc/src/peer-handle.ts` | sequence counter, sequence guard, buffered bytes | encode, accept, sendControl | both ends |
| Receiver session (phone) | `apps/mobile-web/src/lib/receiver-session.ts` | phase, session id, control sender, peer, timers | connect, onFrame, onPeerEvent, reconnect, disconnect | signaling, control channel |
| Input senders and bridges (phone) | `input-sender.ts`, `touch-bridge.ts`, `keyboard-bridge.ts`, `components/Viewer.tsx` | latest move, pending wheel, urgent queue, timers | send, flush, retry, reset | receiver session |
| Gestures (phone) | `gesture.ts`, `video-rect.ts` | last samples, last tap | down, move, up | touch bridge |

### What is hard

* **Interleaving.** Every JavaScript callback runs to its end, but each `await`
  gives way to others: proofs verified on the server, `enableRemote` and the
  teardown on the desktop, the handshake's signatures, the viewport request
  before each pointer command.
* **Failure.** Sockets close at any moment, silent connections are evicted, the
  service restarts and forgets all but the enrolled keys, Chrome kills the
  service worker, a channel drops with frames in it.
* **Ordering.** One sequence counter serves two input senders, four timers and
  the handshake, and the desktop ends the session at the first gap.
* **Stale state.** Requests answered long after they were made, senders that
  outlive their session, pairings decided after the QR code was replaced.

`PROJECT.json` lists these one by one under `hazards`, each with the line where
it bites and the properties that would catch it.

### What makes each component right

| Component | Properties |
| --- | --- |
| Router, registry | A device is in one open session at most (ADR-009); sessions, pairings and requests only name live connections; every close is announced to the peer; every request is answered; frames stay in their session; lookup follows the live connection |
| Authentication | A connection counts as proved only by a key that is its device's registered key; an enrolled key is never replaced; in required mode nothing is paired unproved |
| Pairing | One open pairing per desktop; a pairing is decided once; a secret pairs one phone; the phone that stores the desktop is the one that saw the code; a waiting popup is answered; the list follows the user's wishes; a code can be read |
| Input path | Frames are numbered in their turn; inputs reach the tab in the order the user made them, none twice; refused keys and buttons are retried; nothing of one session acts in another |
| Lifecycle | Remote Mode comes on only when the user asks for it; after a stop nothing of the session remains (capture, debugger, keep-awake, signaling); a restart fails closed |
| Handshake | An end accepts its peer only when that peer signed, in this session, the nonce drawn for it; input is accepted in no other session; honest ends are not left to a timer |
| Receiver session | What has ended stays ended; "Reconnecting" is driven by something and gives up; an offer reaches the peer it is for |

## 2. Modules

| Module | Models | Used by |
| --- | --- | --- |
| `SignalingServer` | router, registry, repositories, device registry, transport | three runs, two proof modules |
| `MCSignalingServer` | TLC instances: who may say hello, symmetry, the view | |
| `SignalingServerProofs` | type correctness, routing, sessions | |
| `SignalingPairingProofs` | pairings, keys, proved devices; what is sent: the action properties | |
| `InputPipeline` | input senders, control sender, control channel, sequence guard, input service, command queue | one run, two proof modules, one finding |
| `MCInputPipeline` | TLC instance, symmetry of touch senders | |
| `InputPipelineProofs` | type correctness, numbering, retries | |
| `InputOrderProofs` | the order in which inputs reach the tab | |
| `MutualAuth` | abstract: what peer authentication promises | refined by `PeerHandshake` |
| `PeerHandshake`, `MCPeerHandshake` | both ends of the proof of keys over the control channel, over several sessions | one run |
| `PeerHandshakeProofs` | type correctness, the refinement of `MutualAuth`, fresh control, honest ends verify | |
| `ReceiverSession` | the phone's session object: sockets, sessions, peer, reconnection | one run |
| `ReceiverSessionProofs` | its type correctness and all its invariants | |
| `Pairing`, `MCPairing` | popup, pairing manager, stored list, the server's windows, the phones' pairing sessions | one run, one proof module, one finding |
| `PairingProofs` | its type correctness and all the invariants of its run | |
| `DesktopLifecycle`, `MCDesktopLifecycle` | the service worker's life of Remote Mode: enable, stop, session, restart | one run, one proof module, one finding |
| `RemoteMode` | abstract: what Remote Mode promises the user of the laptop | refined by `DesktopLifecycle` |
| `DesktopLifecycleProofs` | type correctness, all the invariants of its run, the refinement of `RemoteMode` | |
| `TouchGestures`, `MCTouchGestures` | gesture classifier and the coordinates it is given | one finding |

`PeerHandshake` composes the two ends of the handshake with the code around
them, `Pairing` composes four programs (popup, service worker, server, phones),
`InputPipeline` the phone's senders with the desktop's input service. Where a
module needs a neighbour that another one models in full, it has the neighbour's
part that matters to it and says so (`Pairing` has the server's pairing windows
without its connections, `ReceiverSession` a server that answers as it likes).

### SignalingServer

State and code:

| Variable | In the code |
| --- | --- |
| `live`, `opened` | `sockets`, `handles`, `conns`, which always agree between two callbacks; ids are never given out again |
| `reg`, `byDevice` | the identity of each connection and `ConnectionRegistry.byDevice` |
| `failures`, `proofs`, `provedKey` | `pendingAuth` and its failure counter, the suspended runs of `onAuthProof`, the `authenticated` set with the key that was proved |
| `enrolled`, `revoked` | `DeviceRegistry` |
| `pairings`, `lapsed`, `sessions`, `requests` | the repositories and `sessionRequests` |
| `out` | the frames that the last step sent |

Every frame handler is one action whose disjuncts are its early returns in their
order; a handler that ends fatally also closes the connection and so contains
`handleConnClosed`, because Bun runs the close callback inside `ws.close()`.
`onAuthProof` awaits twice and is three actions (`onAuthProof`,
`FingerprintChecked`, `SignatureChecked`), so that anything may happen while a
proof is being verified. Silence and expiry have no clock: `SweepStale` and
`PairingLapses` may happen to any connection or open pairing. Frames are typed
records; the signature and the fingerprint are right or wrong as the step
chooses. `Restart` forgets everything but, in a durable registry, the keys.

### InputPipeline

State and code: `session`, `live` and `seq` are `sessionIdValue`, `controlSender`
and its counter; `box` holds each `PrioritizedInputSender`'s latest move, pending
wheel, urgent queue and armed timers; `bridge` is the touch bridge that `Viewer`
made last; `channel` is the data channel and `bufferedAmount` in one; `desk` holds
`activeSessionId`, the input service and the phase; `cdp` is the debugger command
queue; `acted` is what the tab received. Each DOM event, timer, frame and command
completion is one action, with all flushes it performs.

Two things follow from the code and shape the properties:

* A move or wheel that the channel refuses uses up its sequence number. The next
  frame is then a gap and the desktop tears the session down. The variable
  `marred` records that this happened in the session (or that an item encoded for
  an older session was left over, or a frame reached a service that was not armed
  yet). `NumbersInTurn` says that these are the *only* ways to a gap.
* `reset` is never called on the senders that hold something, so an urgent item
  may be retried into the next session (finding `input_stale`).

`Drag` takes the classifier's verdict as given. With the coordinates that
`TouchBridge` passes today no drag is ever recognised (finding `gesture_drag`), so
moves become reachable only when that is repaired; scrolling needs no threshold
and is reachable today.

### MutualAuth and PeerHandshake

| Variable | In the code |
| --- | --- |
| `now`, `link`, `wire` | the session that joins both ends and its control channel, in order |
| `hs[e][s]` | the `PeerAuthHandshake` that end `e` made for session `s`: settled or not, `peerNonce`, `peerProofSig`, `peerProofVerified`, the signature and the verifications it awaits |
| `current` | the variable `handshake` of `background.ts` and of `receiver-session.ts` |
| `phase` | both programs' phase, as far as the handshake sets it |
| `knows` | whether the key stored for the peer is right, wrong or absent |
| `missed`, `crossed` | history: a challenge was dropped; a handshake of an earlier session has acted since this one began |

Signing, verifying and reading keys are awaited, so `start`, `maybeProve` and
`verifyPeer` are steps of their own, for any session, also one that is over: a
handshake is not stopped when its session is replaced. Its frames then go to the
session that is there. A signature is the pair of session and nonce that it
binds.

`MutualAuth` is the promise: an end signs one nonce in a session and accepts a
session only when its peer has signed, in that session, the nonce drawn for it,
and it knows the peer's key. `PeerHandshake` implements it with

    trusts   <- knows = "right"
    answered <- peerNonce of each handshake (the code signs as soon as it has it)
    accepted <- peerProofVerified

and that holds without any exception, across sessions too (`AuthIsMutual`). What
does need the exception `crossed` is the *phase*: `onPeerVerified` looks at the
phase and not at the session, so a verification that ends late can make the next
session active (`ControlIsFresh`).

### ReceiverSession

| Variable | In the code |
| --- | --- |
| `phase`, `socket`, `sid`, `peer`, `held`, `handshake` | `status`, `socket`, `sessionIdValue`, `peer`, `pendingOfferSdp`, `handshake` |
| `conn` | every `WebSocket` that was made, whether its handlers are still on it, and what the server owes on it |
| `fetching`, `accepts`, `reading`, `checking`, `unsettled` | what is awaited: TURN servers, `acceptOffer`, keys, verifications, the handshake's ten seconds |
| `retries`, `since`, `pings` | the reconnect timers, `reconnectingSinceMs` with its window, `pingTimer` |
| `over`, `overtime` | history: the session has ended for its user; attempts begun after the window |
| `late`, `unretried`, `unwound` | history: a callback has acted after its session; "Reconnecting" was shown without a retry; a socket was dropped before it had closed |

The last three name the ways in which the code leaves its own rules, and each
property excludes only those it must. `late` is set where a callback does not ask
whether its session still exists (`openPeerWithTurn`, `acceptOffer`,
`beginPeerAuth`, the handshake); `unretried` where the message promises a retry
and nothing arranges one; `unwound` where `recoverFromPeerFailure` meets a socket
that is closing already and drops it with its handlers on. All other
interleavings of sockets, timers, frames and awaits keep the properties.

### Pairing

| Variable | In the code |
| --- | --- |
| `pending`, `pairId`, `checks` | `PairingManager.pending` with its payload; the joins whose proof it is verifying |
| `paired`, `saves` | the list of `PairedDeviceStore`; the lists that an `upsert` or `revoke` has read and is about to write |
| `made`, `asked`, `waiter`, `timers`, `codes` | `pairStart`, what the popup knows of it, `pairPayloadWaiter`, its five seconds, the codes shown |
| `link`, `toServer`, `toDesktop` | the desktop's socket and the frames on it |
| `window`, `lapsed` | the server's pairings |
| `session`, `stored` | `PairingSession` of each scan and the desktops it stored |
| `history` | what crossed, was contested or overlapped, which secrets are gone and who was being verified then (see the module) |

A secret is written as the number of the `create()` that drew it and the server's
pairing id as the same number, so that a code whose two halves do not belong
together can be told. Whoever knows a window may join it without its secret
(`Unseen`).

`FillsOrigin` is a constant because the code as it stands stops there:
`create()` leaves the server's origin open, nothing fills it, and the phone
refuses the code (run `pairing_code`, `FillsOrigin = FALSE`). The run `pairing`
has it filled, as the phone's own tests do, to see what comes after the scan.

### RemoteMode and DesktopLifecycle

| Variable | In the code |
| --- | --- |
| `state`, `replies` | `SessionState` in `chrome.storage.session` and the answers it owes |
| `task` | the asynchronous functions under way, each at the await where it rests |
| `doc` | the offscreen document with its `OffscreenTabCaptureAdapter` and the `getUserMedia` calls pending in it |
| `power`, `debugger` | the keep-awake request, `InputService.attached` |
| `client`, `active`, `teardown` | `signaling`, `activeSessionId`, the `TeardownOrchestrator` and its pass |
| `asked`, `raced` | history: the popup's last request; whether a task that stops things has met one that starts them |

An action is what runs between two awaits, so `enableRemote` is a dozen of them
and a teardown pass six. A load returns what was stored when it was asked for:
the storage answers in order, and much depends on that order (a phase loaded
before the pass loads is also saved before the pass saves). `Restart` drops every
task and variable; the stored phase and the keep-awake request stay, the document
may. It does not happen while a debugger is attached, which keeps the worker
alive in Chrome. `power` is a Boolean, although `power-adapter.ts:14` says that
Chrome keeps a request count and `enableRemote` requests twice
(`background.ts:595-597`) where the pass releases once: an extension has one
keep-awake request, which a second one replaces and one release ends, so the two
requests do no harm on the platform. They would if it counted as the comment says.

`Clash` names the meetings that the code does not survive: a pass, a
reconciliation or a `teardownSession` while `enableRemote` or `onPeerVerified` is
under way, a `teardownSession` during a pass, two `enableRemote`s, a request whose
load is answered only after the pass has cleared the session, a restart while the
reconciliation is still closing the document. `OffMeansOff` and its companions
say that in every other interleaving (several stops at once, lost captures and
closed tabs, reports of the client and the sender, requests during a pass,
restarts anywhere else) the four places where Remote Mode lives agree. The finding
`lifecycle_stop` is one of the meetings; the guards of `Clash` say where the rest
are. Answers of the sender's document and timeouts of `sendToOffscreen` in the
pass are one action, because the pass goes on either way.

`RemoteMode` is the promise, in the words of the documents (ADR-005, "explicit
local consent" in the PRD, keep-awake "only while Remote Mode is enabled"): five
variables and six kinds of step. It comes on only when the user has asked for it
last, nothing is in use while it is off, the debugger is on the tab for a session
only, and what a worker that died has left is at most a document, which the next
one closes. `DesktopLifecycle` implements it (`LocalConsent`) with

    mode   <- "on" in every stored phase but idle; otherwise "off", or "left"
              while there is a document
    used   <- which of document, keep-awake, client, session, debugger there are
    woken  <- a reconciliation is waiting for the stored state
    broken <- raced

and says more than `OffMeansOff` in one way: it holds at every moment, not only
when everything is at rest.

The session id is reduced to whether there is one, so two overlapping
`teardownSession`s are not told apart by the session they end; the handshake is
its last step only.

### TouchGestures

`GestureClassifier` with `TouchBridge` in front. Positions are client pixels on
one axis; the bridge divides by the width of the video, the thresholds are
compared as they stand in the code. With the division taken out (`Beyond` without
`* Width`) the property of the run holds, which is how `gesture.test.ts` sees it.

## 3. Runs

| Run | Instance | Shows |
| --- | --- | --- |
| `server_sessions` | one desktop, two phones, four connections, two session ids, no proofs | `OneOpenSessionPerDevice`, `OpenSessionEndsAreLive`, `RequestsAreLive`, `RoutingIsExact` and the action properties `CloseIsAnnounced`, `RequestsAreAnswered`, `SignalsStayInTheirSession` through disconnects, evictions and restarts |
| `server_auth_open` | one device, three connections, two keys, three proofs at once, open mode | `TypeOK` (with the failure limit), `ProvedKeyIsRegistered`, `KeysAreNeverReplaced` |
| `server_pairings` | a desktop and a phone, three connections, one key, one proof at once, two pairing ids, required mode, a registry that a restart empties | `OpenPairingsAreProved`, `OneOpenPairingPerDesktop`, `OpenPairingEndsAreLive`, `PairingIsDecidedOnce` |
| `input` | two sessions, two touch senders and the keyboard's, a channel that holds two frames, two inputs | `TypeOK`, `NumbersInTurn`, `UrgentOrder`, `EveryOrder`, `RefusedIsRetried` |
| `handshake` | two sessions; both keys right, the phone's wrong, either missing | `TypeOK`, `ControlIsFresh`, `HonestEndsVerify`; refinement `AuthIsMutual` |
| `receiver` | three sockets, two accepted sessions | `TypeOK`, `EndedIsOver`, `ReconnectingIsDriven`, `ReconnectGivesUp`, `OfferIsTaken` |
| `pairing` | two `pairStart`s, two scans, two phones | `TypeOK`, `SecretIsSpentOnce`, `PairingIsMutual`, `StartIsAnswered`, `StoreFollowsWishes` |
| `lifecycle` | three tasks at once, four events (clicks, losses, closed tabs, restarts) besides those that take a session forward | `OffMeansOff`, `OnMeansOn`, `ControlMeansSession`, `StopIsArmed`; refinement `LocalConsent`; liveness `Settles`, `StopReachesIdle` |
| `lifecycle_stop` | as `lifecycle`, two events: Enable and Stop | **violation** of `StopIsClean` |
| `input_stale` | as `input`, a channel that holds one frame | **violation** of `NoStaleInput` |
| `gesture_drag` | a viewer 300 pixels wide, five pixels | **violation** of `DragNeverClicks` |
| `pairing_code` | one `pairStart`, the origin as the code leaves it | **violation** of `CodesAreReadable` |

**Bounds.** Connection ids are given out once, so the number of connections
bounds reconnects: three let a device reconnect while its old socket is still
there, and again while the answer to the second is under way; a fourth lets two
phones do so around one desktop. Two sessions or pairings are what supersession,
conflict and lateness need; two keys and three proofs let one proof enroll a key
while a second with another key is suspended. Two inputs of up to two frames each
fill the channel, a queue and a timer at once, and two sessions are what stale
state needs, in the input path, the handshake and the phone's session alike; a
third socket lets a reconnection itself be lost. Two codes and two scans are a
code that replaces another and two joins of one window. Three tasks are two that
meet and a report that one of them causes; four events besides the session's own
progress reach every phase and then disturb it three times. With fewer the
meetings of `Clash` are still reached, with four tasks no other was found. The
theorems of section 4 hold without these bounds.

**Symmetry and views.** Connections, pairing ids, session ids, keys, touch
senders and pairing phones are interchangeable; devices are not. The server's
runs also leave `out` out of the fingerprint: no step reads it, and action
properties see it before it is dropped. `pairing` leaves out what nothing asks for
any more: timers that no `pairStart` waits for, the age of closed windows, wishes
once updates have overlapped. No liveness property is checked under symmetry.

**Deadlock** is not checked where people may simply stop (`input`, `lifecycle`,
`pairing`, the gesture run) or where the bounded sessions are over (`handshake`,
`receiver`); the server can always be restarted.

**Fairness.** Only `DesktopLifecycle` assumes any: weak fairness of what the
worker does by itself, task by task (`Worker`). The storage answers its head, a
promise that has settled is resumed, and the timers of `sendToOffscreen` run out,
which stands for a document that never answers. Nothing is assumed of the user,
the tab, the server or the phone, nor of `getUserMedia`. Elsewhere progress
depends on the network and on people, and what the code owes is stated as an
invariant instead: an urgent queue with something in it has a timer armed
(`RefusedIsRetried`; a refused wheel has none until the next one comes), a
session that reconnects has a timer or a closing socket (`ReconnectingIsDriven`),
a popup that waits has its timer (`StartIsAnswered`), two honest ends with nothing
under way have verified (`HonestEndsVerify`).

**Mutants.** Every property of a passing run has one: a definition of the code
model changed the way a plausible bug would change it (a lookup by one role only,
the sweeper unregistering first, a timer forgotten after the flush instead of
before...), which TLC must find. They are marked `mutant` in the modules. That of the
handshake's `TypeOK` (`NonceOffByOne`) is the least likely of them: the nonce is a
JSON field in the code, and the mutant only shows that the type notices a wrong one.

## 4. Theorems

All are of the form `Spec => []Inv`, but for five action properties and two
refinements. They hold for any finite or infinite sets of connections, devices,
keys, ids and any bounds.

| Theorem | Module | States |
| --- | --- | --- |
| `TypeCorrect` | `SignalingServerProofs` | `TypeOK` |
| `RoutingAlwaysExact` | | `RoutingIsExact` |
| `OneOpenSession` | | `OneOpenSessionPerDevice` |
| `OpenSessionsJoinLiveEnds` | | `OpenSessionEndsAreLive` |
| `RequestsNameLivePhones` | | `RequestsAreLive` |
| `OneOpenPairing` | `SignalingPairingProofs` | `OneOpenPairingPerDesktop` |
| `OpenPairingsHaveLiveEnds` | | `OpenPairingEndsAreLive` |
| `ProvedKeysAreRegistered` | | `ProvedKeyIsRegistered` |
| `OpenPairingsAlwaysProved` | | `OpenPairingsAreProved` |
| `KeysNeverReplaced` | | `KeysAreNeverReplaced` |
| `SignalsAlwaysStay` | | `SignalsStayInTheirSession` |
| `ClosesAlwaysAnnounced` | | `CloseIsAnnounced` |
| `RequestsAlwaysAnswered` | | `RequestsAreAnswered` |
| `PairingsDecidedOnce` | | `PairingIsDecidedOnce` |
| `PipelineTypeCorrect` | `InputPipelineProofs` | `TypeOK` |
| `NumbersAlwaysInTurn` | | `NumbersInTurn` |
| `RefusedAlwaysRetried` | | `RefusedIsRetried` |
| `UrgentAlwaysOrdered` | `InputOrderProofs` | `UrgentOrder` |
| `EveryAlwaysOrdered` | | `EveryOrder` |
| `HandshakeTypeCorrect` | `PeerHandshakeProofs` | `TypeOK` |
| `HandshakeIsMutual` | | `AuthIsMutual`: `PeerHandshake` implements `MutualAuth` |
| `ControlAlwaysFresh` | | `ControlIsFresh` |
| `HonestEndsAlwaysVerify` | | `HonestEndsVerify` |
| `ReceiverTypeCorrect` | `ReceiverSessionProofs` | `TypeOK` |
| `EndedForGood` | | `EndedIsOver` |
| `ReconnectingAlwaysDriven` | | `ReconnectingIsDriven` |
| `ReconnectAlwaysGivesUp` | | `ReconnectGivesUp` |
| `OffersAreTaken` | | `OfferIsTaken` |
| `PairingTypeCorrect` | `PairingProofs` | `TypeOK` |
| `StoreAlwaysFollowsWishes` | | `StoreFollowsWishes` |
| `StartsAlwaysAnswered` | | `StartIsAnswered` |
| `SecretsAreSpentOnce` | | `SecretIsSpentOnce` |
| `PairingsAreMutual` | | `PairingIsMutual` |
| `LifecycleTypeCorrect` | `DesktopLifecycleProofs` | `TypeOK` (proved, and in no run) |
| `OffAlwaysMeansOff` | | `OffMeansOff` |
| `OnAlwaysMeansOn` | | `OnMeansOn` |
| `ControlAlwaysMeansSession` | | `ControlMeansSession` |
| `StopAlwaysArmed` | | `StopIsArmed` |
| `ConsentIsKept` | | `LocalConsent`: `DesktopLifecycle` implements `RemoteMode` |
| `StoppedStaysStopped` | | what a pass has stopped stays stopped until it ends |

**Server.** Type correctness is inductive as it stands, one lemma per group of
handlers. For the rest the many handlers are first reduced to the few effects
they have on a group of variables (`ConnectionCases`, `SessionCases`,
`PairingCases`, `KeyCases`), each a lemma over all actions; the inductive step is
then a short case split over those effects. `ConnInv` adds to `RoutingIsExact`
that only live connections have an identity. `SessionInv` joins the session,
request and device facts: a new session's ends are live because the request it
answers named a live phone, which is why `RequestsAreLive` must be carried along.
`PairInv` joins the two pairing invariants, since superseding needs both. `KeyInv`
says of every suspended proof what its check has already established. A
connection loses its proof only by leaving, and then no open pairing names it, so
for `OpenPairingsAreProved` only the new ends of a pairing need checking.

The action properties are about frames. Every step is first one of five things
(`StepCases`): a connection that goes (`Cut`), frames that touch neither pairings
nor sessions (`Aside`), one pairing move, one session move, or a restart. Each
property is then a case split over these, and uses `SessionInv` or `PairInv` for
one fact: the other end is live and is not the one that is leaving, so the frame
is really sent.

**Input path.** `NumbersInTurn` speaks of the channel only, but whether the next
frame fits depends on what the senders hold. `IInv` adds that the desktop's
session is the phone's while there is a channel, that a closed channel is empty,
that an unarmed guard is at zero, and that in an unmarred session no sender holds
an item that already has a number. What a sender does in one callback is a
function on a *turn* (counter, channel, box), so each of `flushMove`,
`flushWheel`, `flushUrgent` and `sendUrgent` has one lemma (`InTurn` and the type
are kept), and an action combines two of them at most. `FrameHandled` shows that
the guard's refusal cannot happen in an unmarred session.

`RefusedIsRetried` is inductive beside the type: every flush
either empties what it was called for or arms the timer again, and no other
callback touches a timer.

Both order properties follow from one invariant, `OrderInv`: per sender, what the
tab has received was made before what is commanded, that before what is on the
channel, and that before what the sender still holds; among commands, those that
still ask for the viewport come after those that do not. One comparison
(`InOrder`) serves both: keys and buttons are compared always, moves and wheels
only if they were made in this session and it is not marred, so a frame dropped or
refused costs nothing but its own order. Three facts about the senders are needed
beside it: a bridge never holds a move and a wheel at once (`ModeKept`), what waits
for a retry has its number and has marred the session (`AtRest`), and in an
unmarred session nothing is both queued and pending. A turn of one sender adds only
frames of that sender (`Adds`), hence disturbs no other; `FlushUrgentShape` says
which items leave and which stay; the desktop only takes frames (`Taken`).

**Handshake.** The abstract step `Accept` asks that the *peer* has signed the
nonce, and the concrete one sees only a signature that verifies. What joins them
is that nobody but a handshake makes signatures: `IInv` adds to the type that
every proof on the wire, remembered, or being verified was signed by the peer
(`WireGenuine`, `Genuine`), and that what has been signed stays signed
(`SignedStays`). Every step is then reduced to its effect on the three abstract
variables (`Effect`): nothing, one `Answer` or one `Accept`. `ControlIsFresh`
follows from the same case split with `crossed`. For `HonestEndsVerify`, `HonestInv`
says of a session that nothing has disturbed (`Fair`) that neither handshake fails
(`Good`) and that a wire brings the challenge before the proof, and has each that
the end has not heard and its peer has sent (`Wired`); so with nothing under way
both have heard both. Nothing is claimed once the session is disturbed, and
`FairBefore` shows that a session does not recover from that; `Ahead` (a session to
come has no handshakes, a dead one no frames) lets the next one start clean.

**Receiver session.** Seven conjuncts beside the type, in the order in which they
lean on each other: without a dropped socket only `socket` has handlers
(`OneSocket`); sockets that were not used are as `Init` made them
(`FreshSockets`); at most one attempt was begun after the window, and while it
counts it has its socket (`WindowInv`); then `EndedIsOver` itself, `DrivenInv` (the invariant with the further fact
that a phone without a socket has no peer), and for the offers
that a phone without a peer is accepting none (`Unoffered`) and that a socket
still connecting has no peer beside it (`OffersInv`). `SocketMoves` reduces every
step to the few things that can happen to the sockets, and most conjuncts are
proved over those instead of over the 26 actions.

**Pairing.** `Typed` adds to `TypeOK` the types of frames and of the history, so
that what a frame names exists. The list: while updates do not overlap, the one
under way is the user's wish (`StoreInv`). The popup's code is right because every
create and confirmation under way is the last `pairStart`'s (`CodeInv`). `SpentInv`
says of every proof that is being verified that its secret is pending, or that the
session is one of those that were being verified when it went (`late`); a secret
that went does not become pending again, and no two proofs of one are being verified
unless it is `contested`. Hence only the pending secret gains checks, and whatever is
accepted is in `late`. `GoneShape` says what `PendingGone` does to the history.
`PairingIsMutual` follows the evidence
from the scan to the stored desktop (`MutualInv`): a window keeps its session until
a second one joins (`WindowsAreKept`, which needs that a create under way is for a
window not yet opened, `CreatesNew`), so the join, the proof verified, the
acceptance and the session the server tells are one session's (`JoinersKnown`,
`TellsProven`). `WindowMoves`, `ToServerMoves`, `JoinFramesMove` and `ToldMoves`
reduce all actions to what they do to a window, a queue and a session's mail.

**Desktop lifecycle.** The invariants speak of moments at which nothing is under
way, so the induction has to say what every task under way may take for granted.
`TypeInv` comes first and holds whatever races: a task waits exactly if the
storage owes it one answer, and the document holds a request only of a task that
waits for it. On it rest the tables of effects (`EnableEffects`, `PassEffects`,
`SessionEffects`, `OutsideEffects`), which reduce each action to a task that moves
or asks. `Still`, claimed as long as nothing has raced, has nine parts: no two
tasks clash (`Alone`); in idle everything is off but a document that a
reconciliation is closing (`IdleInv`); a reconciliation finds everything of the
last worker gone (`WakeInv`); a pass has done what it is past, and the
orchestrator knows it (`PassInv`); it has finished only if the state is idle or
`enableRemote` is about to replace it (`ArmedInv`); where `enableRemote` rests,
how far the state, the document and keep-awake have come (`EnableInv`); a phase
other than idle has a task that works on it or is really on (`OnInv`); what a
report has loaded still has the capture there is (`SeenInv`); a phase with a peer
has its session, or the report that it ended is under way (`SessionInv`).

Two facts about the order of the storage's answers carry what is left
(`InOrder`): behind the load of a pass no report is waiting, or it would save its
phase over the idle that the pass saves (`ReadInv`); and a report that tells of a
session comes before the report of that session's end (`OpensInv`). Without
`~raced` this is false at the meetings that `Clash` lists. `IInv` was checked by
TLC first, in full for three tasks and four events and beyond ten million states
for four tasks and seven events. For the refinement one more fact is
needed, that an `enableRemote` which still waits for its tab was the last thing
asked for (`AskedInv`); then only `TabFound` turns the mode on, only `StateStops`
and `Reconciled` turn it off, and while it is off no document comes to be
(`TurnedOn`, `TurnedOff`, `IdleDoc`).

**Assumptions** are those on the constants, named in the modules
(`SendersAssumption`, `BoundsAssumption`, `SessionsAssumption`,
`StoredAssumption`, `SocketsAssumption`, `TasksAssumption`, `EventsAssumption`, those of `Pairing` and of
`SignalingServer`).

**Only model-checked:** the liveness properties `Settles` and `StopReachesIdle`,
since the prover has no rule for ENABLED.

## 5. Findings

* `input_stale`: a key typed while the stream is down is retried into the next
  session, against the comment of `PrioritizedInputSender.reset`.
* `lifecycle_stop`: Stop, clicked while `enableRemote` waits for its document,
  has nothing to stop yet; the document and the capture come after it and stay,
  and the next Stop finds an orchestrator that has finished and does nothing.
* `gesture_drag`: pixel thresholds are applied to coordinates between 0 and 1, so
  every short gesture is a tap and none a drag.
* `pairing_code`: the payload of the QR code is encoded without the server's
  origin, which the phone's decoder demands: no code of the popup can be used.

Met while modelling and visible in the models, each left out of a property by a
named exception or simply not claimed:

* Server. A socket that closes while its proof is verified leaves its id in
  `authenticated` (`router.ts:266`); ids are never reused, so it is a leak and not
  a wrong authentication. When two sessions join one window the last is told of
  the decision, whichever the desktop accepted (`rejoined`).
* Input path. A refused move or wheel ends the session (`marred`); a key command
  can overtake a pointer command made before it by the other sender, because
  pointer commands first ask for the viewport; a debugger command of an ended
  session that fails late tears down the session that is active by then.
* Handshake. A challenge that arrives before the handshake exists is dropped and
  never sent again, so the session waits for a timer (`missed`). A verification
  that ends late makes whatever session is there active (`crossed`). The desktop
  turns active although the phone has refused it or given up: its own proof was
  right.
* Receiver session. After `SESSION_NOT_FOUND`, a failed handshake, its timeout or
  a failed offer the phone shows "Reconnecting", which promises a retry, and
  nothing retries (`unretried`; `receiver-session.ts:326`, `366`, `526`, `584`
  against the comments at 219 and 640). A peer failure while the socket is closing
  leaves that socket with its handlers beside the new one (`unwound`). Two quick
  clicks on Connect make two session objects of which one is forgotten
  (`App.tsx:71`).
* Pairing. `onPairJoin` reads `pending` before its two awaits and not after them
  (`pairing-manager.ts:112`, `145`, `151`): a `cancel()` or `create()` while a proof
  is being verified does not stop that pairing, against "Cancel: destroy the secret"
  (line 99); the phone is accepted and stored, and the acceptance also drops the newer
  code, which the popup still shows. `SecretIsSpentOnce` therefore lets a session be
  accepted that was being verified when its secret went (`late`), and no other. In
  the trace the phone's join arrives, the user cancels, and the proof is then found
  right. A join for an older window destroys the new code that is pending
  (`onPairJoin`). Two joins of one secret that are verified together both succeed
  (`contested`). A second `pairStart` takes the first one's waiter and is answered
  with the first one's id (`crossed`). `PairingSession` does not answer
  `auth.challenge`, so it cannot pair where authentication is required, and it
  waits for ever when the code is cancelled or its socket closes without an error.
  Nothing in the popup asks for `revokeDevice`.
* Lifecycle. `activeSessionId` is set before the server has confirmed the
  acceptance, and the server's refusal is ignored; the worker's `teardownSession`
  does not send `session.close`, so the server keeps the old session open and
  refuses the next acceptance (`background.ts:347`, 525-539).

## 6. Not modelled

| Part | Why |
| --- | --- |
| `sender-session.ts` | Nothing imports it at this commit: `offscreen/main.ts` answers only the capture messages, so the requests `background.ts` makes of it have no receiver. The events it would send are taken from `background.ts` as the inputs of the desktop. |
| Media, SDP, ICE, the health channel | Calls into the browser without a state machine of their own here |
| Signaling client's ping chain, the delay of `backoff.ts`, its answer to `auth.challenge` | The worker's view of it (online, lost, closed) is in `DesktopLifecycle`; the server takes right and wrong proofs at any time |
| Rate limiters, TURN issuance | Sequential arithmetic on a clock; the phone's wait for it is in `ReceiverSession` |
| `PairedDeviceStore.remove`, the phone's list of desktops with `forgetDesktop`, the camera | The first has no caller; the others are single writes of the page |
| The server's refusal of a late acceptance, as the desktop meets it | It needs the server's sessions and the worker in one module (see the plan) |
| Message schemas, sizes, key maps, text chunking, IME | Data; the modules take validated frames |
| `PrioritizedInputSender.dispose`, `DeviceRegistry.revoke` from the wire | The first has no caller and is left out; the second is an environment step (`Revoke`) |
| User interfaces, configuration, logging | Rendering and formatting |

## 7. Plan

What is left, in this order, each with its MC module, runs, mutants and proofs:

1. `SessionNegotiation`: phone, server and desktop in one module, with the
   acceptance that the server refuses, the session it keeps open after the
   worker's `teardownSession`, and reconnects that meet both.
2. If room is left: the rate limiters and TURN issuance.
