-------------------------- MODULE DesktopLifecycle --------------------------
(***************************************************************************)
(* Remote Mode on the desktop: background.ts with its teardown pass, the     *)
(* offscreen document that holds the captured stream, keep-awake, the        *)
(* debugger, the signaling client and the session being relayed.             *)
(*                                                                           *)
(* The service worker is one thread, so an action is what runs between two   *)
(* awaits; a task is an async function under way, resting at an await.  The  *)
(* state of the session lives in chrome.storage.session, which answers in    *)
(* the order it was asked: a load returns what was stored when it was asked  *)
(* for (`seen'), a save is stored when it is asked for, and `replies' holds  *)
(* the tasks that wait for an answer.  A task with nothing left to do but    *)
(* wait is gone.  The worker may be killed at every await; the state, the    *)
(* keep-awake request and perhaps the offscreen document outlive it.         *)
(*                                                                           *)
(* What the sender inside the offscreen document reports is taken as input,  *)
(* in any order; the frames of the handshake and of the input service are in *)
(* InputPipeline.                                                            *)
(***************************************************************************)
EXTENDS Naturals, Sequences

CONSTANTS
  Tasks,     \* bound: async functions under way at once
  Orphan,    \* a getUserMedia whose caller has given up
  MaxEvents  \* bound: things the user, the tab, the phone or Chrome do

ASSUME TasksAssumption == Tasks # {} /\ Orphan \notin Tasks
                          /\ "null" \notin Tasks /\ "finished" \notin Tasks
ASSUME EventsAssumption == MaxEvents \in Nat

VARIABLES
  state,     \* the stored session state: its phase and its capture
  replies,   \* tasks that wait for the storage, in the order of their answers
  task,      \* each task: where it rests, what it loaded, what it reports
  doc,       \* the offscreen document and its capture adapter
  power,     \* the system is kept awake
  debugger,  \* InputService.attached: the debugger is on the tab
  client,    \* the signaling client: "none", "away" or "online"
  active,    \* activeSessionId is not null
  teardown,  \* the orchestrator: "null", the task of its pass, or "finished"
  asked,     \* the last thing the popup asked for
  events,    \* events so far
  raced      \* a task that stops things has met one that starts things

vars == <<state, replies, task, doc, power, debugger, client, active, teardown,
          asked, events, raced>>

(* The phase `stopping' and the capture `error' are never stored. *)
Phases == {"idle", "enabled", "signaling", "peer-connected", "authenticating",
           "remote-active", "reconnecting"}
SessionStates == [phase : Phases, capture : {"idle", "starting", "active"}]
Off == [phase |-> "idle", capture |-> "idle"]
NoDoc == [open |-> FALSE, capture |-> "idle", stream |-> FALSE, getting |-> {}]

(* Where a task can rest: enableRemote and startSignaling, onPeerVerified,   *)
(* teardownSession, the teardown pass, the reconciliation after a restart.   *)
Enabling == {"enabling", "looking", "enabled", "checking", "creating", "capturing",
             "granted", "refused", "activated", "connecting"}
Verifying == {"verifying", "verified", "attaching"}
Ending == {"ending"}
Passing == {"detaching", "hangingUp", "uncapturing", "closing", "reading", "stopping"}
Waking == {"waking", "sweeping"}
Places == {"none", "reporting", "requesting", "noticing"}
            \cup Enabling \cup Verifying \cup Ending \cup Passing \cup Waking

(* What a report does to the phase: in which it saves, and which one.        *)
(* mutant: a session torn down while it authenticates keeps its phase *)
EndsFromLate == Phases \ {"idle", "enabled", "authenticating"}
EndsFrom == Phases \ {"idle", "enabled"}
Reports ==
  [online      |-> [from |-> {"enabled"}, to |-> "signaling"],
   away        |-> [from |-> {"peer-connected", "authenticating", "remote-active"},
                    to |-> "reconnecting"],
   connected   |-> [from |-> Phases, to |-> "peer-connected"],
   interrupted |-> [from |-> Phases \ {"idle"}, to |-> "reconnecting"],
   opened      |-> [from |-> {"peer-connected"}, to |-> "authenticating"],
   shut        |-> [from |-> {"remote-active"}, to |-> "reconnecting"],
   ended       |-> [from |-> EndsFrom, to |-> "signaling"]]
SenderReports == {"connected", "interrupted", "opened", "shut"}

NoTask == [at |-> "none", seen |-> Off, report |-> "none"]
At(t, places) == task[t].at \in places
Some(places) == \E t \in Tasks : At(t, places)
Free == {t \in Tasks : task[t] = NoTask}
Slot == CHOOSE t \in Free : TRUE
-----------------------------------------------------------------------------
(* Moving tasks.  w is the worker's part of a step: its tasks and replies.   *)

Enders(f, t) == f[t].at \in Ending \/ f[t].report = "ended"
Clash(f) ==
  \E t, u \in Tasks :
    /\ t # u
    /\ \/ f[t].at \in Enabling \cup Verifying /\ (f[u].at \in Passing \cup Waking \/ Enders(f, u))
       \/ Enders(f, t) /\ f[u].at \in Passing \cup Waking
       \/ f[t].at = "requesting" /\ f[u].at = "reading"
       \/ f[t].at \in Enabling /\ f[u].at \in Enabling

Now == [task |-> task, replies |-> replies]
Becomes(w) == task' = w.task /\ replies' = w.replies /\ raced' = (raced \/ Clash(w.task))

Rest(w, t, at) == [w EXCEPT !.task[t] = [NoTask EXCEPT !.at = at]]
Asks(w, t, at, s) ==
  [task |-> [w.task EXCEPT ![t] = [NoTask EXCEPT !.at = at, !.seen = s]],
   replies |-> Append(w.replies, t)]
Done(w, t) == [w EXCEPT !.task[t] = NoTask]

(* The storage answers t, the first of those that wait. *)
Answered(t, at) == replies # <<>> /\ Head(replies) = t /\ task[t].at = at
Heard == [Now EXCEPT !.replies = Tail(@)]

(* A report loads the state; one that would save nothing leaves no trace.    *)
Matters(r) == state.phase \in Reports[r].from
Reported(w, r) ==
  IF Matters(r)
  THEN LET t == CHOOSE u \in Tasks : w.task[u] = NoTask
           x == Asks(w, t, "reporting", state)
       IN [x EXCEPT !.task[t].report = r]
  ELSE w
CanReport(r) == Matters(r) => Free # {}

(* stopRemoteSession: one pass of the orchestrator of this Remote Mode; a    *)
(* caller that finds it running or finished has nothing else to do.          *)
StopCall(w, t) ==
  /\ Becomes(IF teardown = "null" THEN Rest(w, t, "detaching") ELSE Done(w, t))
  /\ teardown' = IF teardown = "null" THEN t ELSE teardown

(* Events are counted; what takes a session forward is not.  One of the      *)
(* slots is left for the worker's own reports.                               *)
Room == \E t, u \in Free : t # u
Event == events < MaxEvents /\ events' = events + 1 /\ Room
Forward == UNCHANGED events /\ Room
Quietly == UNCHANGED <<asked, events>>
-----------------------------------------------------------------------------
(* enableRemote                                                              *)

(* The popup shows Enable while the stored phase is idle. *)
EnableClicked ==
  /\ Event /\ state.phase = "idle" /\ asked' = "enable"
  /\ Becomes(Asks(Now, Slot, "enabling", state))
  /\ UNCHANGED <<state, doc, power, debugger, client, active, teardown>>

EnableLoaded(t) ==
  /\ Answered(t, "enabling")
  /\ Becomes(Rest(Heard, t, "looking"))
  /\ UNCHANGED <<state, doc, power, debugger, client, active, teardown>> /\ Quietly

TabRefused(t) ==
  /\ At(t, {"looking"})
  /\ Becomes(Done(Now, t))
  /\ UNCHANGED <<state, doc, power, debugger, client, active, teardown>> /\ Quietly

TabFound(t) ==
  /\ At(t, {"looking"})
  /\ state' = [phase |-> "enabled", capture |-> "starting"]
  /\ Becomes(Asks(Now, t, "enabled", Off))
  /\ UNCHANGED <<doc, power, debugger, client, active, teardown>> /\ Quietly

(* mutant: the orchestrator of the last Remote Mode is kept *)
EnableSavedKeeping(t) ==
  /\ Answered(t, "enabled")
  /\ Becomes(Rest(Heard, t, "checking"))
  /\ UNCHANGED <<state, doc, power, debugger, client, active, teardown>> /\ Quietly
EnableSaved(t) ==
  /\ Answered(t, "enabled")
  /\ teardown' = "null"
  /\ Becomes(Rest(Heard, t, "checking"))
  /\ UNCHANGED <<state, doc, power, debugger, client, active>> /\ Quietly

(* The request reaches the document, which refuses a second capture; without *)
(* a document it fails at once.                                              *)
StartCapture(t, d) ==
  IF d.open /\ d.capture \notin {"starting", "active"}
  THEN /\ doc' = [d EXCEPT !.capture = "starting", !.getting = @ \cup {t}]
       /\ Becomes(Rest(Now, t, "capturing"))
  ELSE /\ doc' = d
       /\ Becomes(Rest(Now, t, "refused"))

CheckDocument(t) ==
  /\ At(t, {"checking"})
  /\ IF doc.open THEN StartCapture(t, doc)
     ELSE Becomes(Rest(Now, t, "creating")) /\ UNCHANGED doc
  /\ UNCHANGED <<state, power, debugger, client, active, teardown>> /\ Quietly

CreateDocument(t) ==
  /\ At(t, {"creating"}) /\ ~doc.open
  /\ StartCapture(t, [NoDoc EXCEPT !.open = TRUE])
  /\ UNCHANGED <<state, power, debugger, client, active, teardown>> /\ Quietly

(* There is one already, or Chrome fails: failCapture. *)
CreateFails(t) ==
  /\ At(t, {"creating"})
  /\ StopCall(Now, t)
  /\ UNCHANGED <<state, doc, power, debugger, client, active>> /\ Quietly

(* getUserMedia ends, whatever became of the request that made it; g is its  *)
(* caller.                                                                   *)
CaptureGranted(g) ==
  /\ g \in doc.getting
  /\ doc' = [doc EXCEPT !.capture = "active", !.stream = TRUE, !.getting = @ \ {g}]
  /\ Becomes(IF g = Orphan THEN Now ELSE Rest(Now, g, "granted"))
  /\ UNCHANGED <<state, power, debugger, client, active, teardown>> /\ Quietly

CaptureRefused(g) ==
  /\ g \in doc.getting
  /\ doc' = [doc EXCEPT !.capture = "error", !.getting = @ \ {g}]
  /\ Becomes(IF g = Orphan THEN Now ELSE Rest(Now, g, "refused"))
  /\ UNCHANGED <<state, power, debugger, client, active, teardown>> /\ Quietly

(* mutant: the timer starts when the document has answered *)
TimedLate == {"granted"}
Timed == {"capturing", "granted"}
Forget(gs, t) == IF t \in gs THEN (gs \ {t}) \cup {Orphan} ELSE gs
CaptureTimesOut(t) ==
  /\ At(t, Timed)
  /\ doc' = [doc EXCEPT !.getting = Forget(@, t)]
  /\ Becomes(Rest(Now, t, "refused"))
  /\ UNCHANGED <<state, power, debugger, client, active, teardown>> /\ Quietly

FailCapture(t) ==
  /\ At(t, {"refused"})
  /\ StopCall(Now, t)
  /\ UNCHANGED <<state, doc, power, debugger, client, active>> /\ Quietly

CaptureActive(t) ==
  /\ At(t, {"granted"})
  /\ state' = [phase |-> "enabled", capture |-> "active"]
  /\ Becomes(Asks(Now, t, "activated", Off))
  /\ UNCHANGED <<doc, power, debugger, client, active, teardown>> /\ Quietly

Activated(t) ==
  /\ Answered(t, "activated")
  /\ power' = TRUE
  /\ Becomes(Rest(Heard, t, "connecting"))
  /\ UNCHANGED <<state, doc, debugger, client, active, teardown>> /\ Quietly

(* startSignaling: settings and key are loaded; the client that was there is *)
(* closed, and the new one says that it is connecting.                       *)
StartSignaling(t) ==
  /\ At(t, {"connecting"})
  /\ client' = "away"
  /\ Becomes(Reported(Done(Now, t), "away"))
  /\ UNCHANGED <<state, doc, power, debugger, active, teardown>> /\ Quietly
-----------------------------------------------------------------------------
(* The teardown pass, one action for each step that waits                    *)

(* The popup shows Stop in every other phase. *)
StopClicked ==
  /\ Event /\ state.phase # "idle" /\ asked' = "stop"
  /\ StopCall(Now, Slot)
  /\ UNCHANGED <<state, doc, power, debugger, client, active>>

(* revokeDevice, for the phone of the session *)
RevokeClicked ==
  /\ Event /\ active
  /\ StopCall(Now, Slot)
  /\ UNCHANGED <<state, doc, power, debugger, client, active, asked>>

InputStops(t) ==
  /\ At(t, {"detaching"})
  /\ debugger' = FALSE
  /\ Becomes(Rest(Now, t, "hangingUp"))
  /\ UNCHANGED <<state, doc, power, client, active, teardown>> /\ Quietly

(* sender:stopSession is answered, or its 3 s are over: the client is closed *)
(* and says so, unless it was offline already; offscreen:stopCapture is      *)
(* sent.  A getUserMedia that is pending goes on.                            *)
PeerStops(t) ==
  /\ At(t, {"hangingUp"})
  /\ client' = "none"
  /\ \/ client # "none" /\ CanReport("away")
        /\ Becomes(Reported(Rest(Now, t, "uncapturing"), "away"))
     \/ client # "online" /\ Becomes(Rest(Now, t, "uncapturing"))
  /\ doc' = IF doc.open THEN [doc EXCEPT !.capture = "idle", !.stream = FALSE] ELSE doc
  /\ UNCHANGED <<state, power, debugger, active, teardown>> /\ Quietly

(* offscreen:stopCapture is answered, or its 3 s are over. *)
CaptureStops(t) ==
  /\ At(t, {"uncapturing"})
  /\ power' = FALSE
  /\ Becomes(Rest(Now, t, "closing"))
  /\ UNCHANGED <<state, doc, debugger, client, active, teardown>> /\ Quietly

(* The document closes; requests it has not answered fail. *)
Dropped(w) ==
  [w EXCEPT !.task = [t \in Tasks |-> IF w.task[t].at = "capturing"
                                      THEN [NoTask EXCEPT !.at = "refused"] ELSE w.task[t]]]
DocumentCloses(t) ==
  /\ At(t, {"closing"})
  /\ doc' = NoDoc
  /\ active' = FALSE
  /\ Becomes(Asks(Dropped(Now), t, "reading", Off))
  /\ UNCHANGED <<state, power, debugger, client, teardown>> /\ Quietly

(* `stopped' does not look at the state it is given. *)
(* mutant: a Remote Mode that is still `enabled' is not stopped *)
StateStopsLate(t) ==
  /\ Answered(t, "reading")
  /\ state' = IF state.phase = "enabled" THEN state ELSE Off
  /\ Becomes(Asks(Heard, t, "stopping", Off))
  /\ UNCHANGED <<doc, power, debugger, client, active, teardown>> /\ Quietly
StateStops(t) ==
  /\ Answered(t, "reading")
  /\ state' = Off
  /\ Becomes(Asks(Heard, t, "stopping", Off))
  /\ UNCHANGED <<doc, power, debugger, client, active, teardown>> /\ Quietly

(* An orchestrator that enableRemote has replaced is no one's any more. *)
PassFinished(t) ==
  /\ Answered(t, "stopping")
  /\ teardown' = IF teardown = t THEN "finished" ELSE teardown
  /\ Becomes(Done(Heard, t))
  /\ UNCHANGED <<state, doc, power, debugger, client, active>> /\ Quietly
-----------------------------------------------------------------------------
(* The signaling client and the session                                      *)

ClientOnline ==
  /\ client = "away" /\ client' = "online"
  /\ Room /\ Becomes(Reported(Now, "online"))
  /\ UNCHANGED <<state, doc, power, debugger, active, teardown>> /\ Quietly

ClientLost ==
  /\ Event /\ client = "online" /\ client' = "away"
  /\ Becomes(Reported(Now, "away"))
  /\ UNCHANGED <<state, doc, power, debugger, active, teardown, asked>>

(* session.request; one that finds no capture is rejected and changes nothing *)
SessionRequested ==
  /\ IF active THEN Event ELSE Forward
  /\ client = "online" /\ state.capture = "active"
  /\ Becomes(Asks(Now, Slot, "requesting", state))
  /\ UNCHANGED <<state, doc, power, debugger, client, active, teardown, asked>>

RequestLoaded(t) ==
  /\ Answered(t, "requesting")
  /\ active' = TRUE
  /\ state' = IF active THEN state ELSE [task[t].seen EXCEPT !.phase = "peer-connected"]
  /\ Becomes(Done(Heard, t))
  /\ UNCHANGED <<doc, power, debugger, client, teardown>> /\ Quietly

(* handleSenderEvent, for an event of the active session *)
SenderEvent(r) ==
  /\ IF r = "opened" THEN Forward ELSE Event
  /\ active /\ doc.open /\ Matters(r)
  /\ Becomes(Reported(Now, r))
  /\ UNCHANGED <<state, doc, power, debugger, client, active, teardown, asked>>

(* A channel that opened needs a phone that is paired; if it is not any more *)
(* the task waits for the pairings and stops everything.                     *)
ReportLoaded(t) ==
  /\ Answered(t, "reporting")
  /\ state' = [task[t].seen EXCEPT !.phase = Reports[task[t].report].to]
  /\ \/ Becomes(Done(Heard, t))
     \/ task[t].report = "opened" /\ Becomes(Asks(Heard, t, "noticing", Off))
  /\ UNCHANGED <<doc, power, debugger, client, active, teardown>> /\ Quietly

(* peer.proof arrives: its signature is checked before onPeerVerified loads  *)
(* the state.                                                                *)
ProofArrives ==
  /\ Forward /\ active /\ doc.open /\ state.phase = "authenticating" /\ ~Some(Verifying)
  /\ Becomes(Rest(Now, Slot, "verifying"))
  /\ UNCHANGED <<state, doc, power, debugger, client, active, teardown, asked>>

ProofVerified(t) ==
  /\ At(t, {"verifying"})
  /\ Becomes(Asks(Now, t, "verified", state))
  /\ UNCHANGED <<state, doc, power, debugger, client, active, teardown>> /\ Quietly

(* The answer to the save is part of the wait for the debugger. *)
onPeerVerified(t) ==
  /\ Answered(t, "verified")
  /\ IF task[t].seen.phase = "authenticating"
     THEN /\ state' = [task[t].seen EXCEPT !.phase = "remote-active"]
          /\ Becomes(Rest(Heard, t, "attaching"))
     ELSE Becomes(Done(Heard, t)) /\ UNCHANGED state
  /\ UNCHANGED <<doc, power, debugger, client, active, teardown>> /\ Quietly

InputAttached(t) ==
  /\ At(t, {"attaching"})
  /\ debugger' = TRUE
  /\ Becomes(Done(Now, t))
  /\ UNCHANGED <<state, doc, power, client, active, teardown>> /\ Quietly

(* The attachment fails, or the viewport that is asked for after it. *)
AttachFails(t) ==
  /\ At(t, {"attaching"})
  /\ debugger' \in {debugger, TRUE}
  /\ StopCall(Now, t)
  /\ UNCHANGED <<state, doc, power, client, active>> /\ Quietly

(* teardownSession: the phone or the server closes the session, the sender   *)
(* fails, a frame breaks the protocol, the handshake times out.              *)
SessionFails ==
  /\ Event /\ active
  /\ Becomes(Rest(Now, Slot, "ending"))
  /\ UNCHANGED <<state, doc, power, debugger, client, active, teardown, asked>>

DebuggerDetached ==
  /\ Event /\ debugger /\ debugger' = FALSE
  /\ Becomes(Rest(Now, Slot, "ending"))
  /\ UNCHANGED <<state, doc, power, client, active, teardown, asked>>

(* Its two waits, for the sender and for the debugger, are one here. *)
SessionEnds(t) ==
  /\ At(t, {"ending"})
  /\ debugger' = FALSE /\ active' = FALSE
  /\ Becomes(Reported(Done(Now, t), "ended"))
  /\ UNCHANGED <<state, doc, power, client, teardown>> /\ Quietly
-----------------------------------------------------------------------------
(* The tab and the worker itself                                             *)

(* The track ends and the document says so; the worker looks at the capture. *)
(* mutant: a lost capture matters only while the tab is controlled *)
LossMattersLate(s) == s.phase = "remote-active"
LossMatters(s) == s.capture # "idle"
TrackEnds ==
  /\ Event /\ doc.stream
  /\ doc' = [doc EXCEPT !.stream = FALSE, !.capture = "idle"]
  /\ Becomes(IF LossMatters(state) THEN Asks(Now, Slot, "noticing", Off) ELSE Now)
  /\ UNCHANGED <<state, power, debugger, client, active, teardown, asked>>

(* tabs.onRemoved of the target tab, which there is in every other phase *)
TabCloses ==
  /\ Event /\ state.phase # "idle"
  /\ Becomes(Asks(Now, Slot, "noticing", Off))
  /\ UNCHANGED <<state, doc, power, debugger, client, active, teardown, asked>>

Noticed(t) ==
  /\ Answered(t, "noticing")
  /\ StopCall(Heard, t)
  /\ UNCHANGED <<state, doc, power, debugger, client, active>> /\ Quietly

(* Chrome ends the worker and starts it again, never while it debugs a tab;  *)
(* the offscreen document may survive.                                       *)
Restart ==
  /\ Event /\ ~debugger
  /\ LET fresh == [task |-> [t \in Tasks |-> NoTask], replies |-> <<>>]
         t == CHOOSE u \in Tasks : TRUE
         w == IF state.phase = "idle" THEN fresh ELSE Asks(fresh, t, "waking", Off)
     IN task' = w.task /\ replies' = w.replies
  /\ raced' = (raced \/ Some({"sweeping"}))
  /\ doc' \in {NoDoc, [doc EXCEPT !.getting = IF @ = {} THEN {} ELSE {Orphan}]}
  /\ client' = "none" /\ active' = FALSE /\ teardown' = "null"
  /\ UNCHANGED <<state, power, debugger, asked>>

(* reconcileAfterRestart: the document is closed while the state is saved *)
(* mutant: the keep-awake request of the last worker is forgotten *)
ReconciledAwake(t) ==
  /\ Answered(t, "waking")
  /\ state' = Off
  /\ Becomes(Rest(Heard, t, "sweeping"))
  /\ UNCHANGED <<doc, power, debugger, client, active, teardown>> /\ Quietly
Reconciled(t) ==
  /\ Answered(t, "waking")
  /\ state' = Off /\ power' = FALSE
  /\ Becomes(Rest(Heard, t, "sweeping"))
  /\ UNCHANGED <<doc, debugger, client, active, teardown>> /\ Quietly

LeftoversClose(t) ==
  /\ At(t, {"sweeping"})
  /\ doc' = NoDoc
  /\ Becomes(Done(Dropped(Now), t))
  /\ UNCHANGED <<state, power, debugger, client, active, teardown>> /\ Quietly
-----------------------------------------------------------------------------
Init ==
  /\ state = Off /\ replies = <<>> /\ task = [t \in Tasks |-> NoTask]
  /\ doc = NoDoc /\ power = FALSE /\ debugger = FALSE /\ client = "none" /\ active = FALSE
  /\ teardown = "null" /\ asked = "nothing" /\ events = 0 /\ raced = FALSE

(* What the worker does by itself, and cannot leave undone *)
Worker(t) ==
  \/ EnableLoaded(t) \/ TabRefused(t) \/ TabFound(t) \/ EnableSaved(t) \/ CheckDocument(t)
  \/ CreateDocument(t) \/ CreateFails(t) \/ CaptureTimesOut(t) \/ FailCapture(t)
  \/ CaptureActive(t) \/ Activated(t) \/ StartSignaling(t)
  \/ InputStops(t) \/ PeerStops(t) \/ CaptureStops(t) \/ DocumentCloses(t) \/ StateStops(t)
  \/ PassFinished(t) \/ RequestLoaded(t) \/ ReportLoaded(t) \/ ProofVerified(t)
  \/ onPeerVerified(t) \/ InputAttached(t) \/ AttachFails(t) \/ SessionEnds(t)
  \/ Noticed(t) \/ Reconciled(t) \/ LeftoversClose(t)

(* What others do, and need not *)
Outside ==
  \/ EnableClicked \/ StopClicked \/ RevokeClicked \/ ClientOnline \/ ClientLost
  \/ SessionRequested \/ (\E r \in SenderReports : SenderEvent(r)) \/ ProofArrives
  \/ SessionFails \/ DebuggerDetached \/ TrackEnds \/ TabCloses \/ Restart
  \/ (\E g \in Tasks \cup {Orphan} : CaptureGranted(g) \/ CaptureRefused(g))

Next == Outside \/ \E t \in Tasks : Worker(t)

Fairness == \A t \in Tasks : WF_vars(Worker(t))
Spec == Init /\ [][Next]_vars /\ Fairness
-----------------------------------------------------------------------------
(* The variables are of their types, and only tasks that rest at an access to *)
(* the storage are owed an answer.                                            *)
TypeOK ==
  /\ state \in SessionStates
  /\ replies \in Seq(Tasks)
  /\ task \in [Tasks -> [at : Places, seen : SessionStates, report : DOMAIN Reports \cup {"none"}]]
  /\ doc \in [open : BOOLEAN, capture : {"idle", "starting", "active", "error"},
              stream : BOOLEAN, getting : SUBSET (Tasks \cup {Orphan})]
  /\ power \in BOOLEAN /\ debugger \in BOOLEAN /\ client \in {"none", "away", "online"}
  /\ active \in BOOLEAN /\ teardown \in Tasks \cup {"null", "finished"}
  /\ asked \in {"nothing", "enable", "stop"} /\ events \in 0 .. MaxEvents /\ raced \in BOOLEAN
  /\ \A i \in 1 .. Len(replies) :
       At(replies[i], {"enabling", "enabled", "activated", "reading", "stopping", "reporting",
                       "requesting", "verified", "noticing", "waking"})

(* Nothing is under way in the worker. *)
Quiet == \A t \in Tasks : task[t] = NoTask
AllOff == ~doc.open /\ ~power /\ ~debugger /\ client = "none" /\ ~active

(* When the popup shows that Remote Mode is off, everything is off: no        *)
(* offscreen document with its stream, no keep-awake, no debugger, no client  *)
(* at the server, no session.  Passes, restarts, lost captures, closed tabs,  *)
(* late reports and requests may come in any order (buildTeardown,            *)
(* reconcileAfterRestart); `raced' excludes what StopIsClean is about.        *)
OffMeansOff == Quiet /\ ~raced /\ state.phase = "idle" => AllOff

(* When it shows that Remote Mode is on, the tab is captured, the system is   *)
(* kept awake and the client is at the server or trying: a capture that ended *)
(* or failed, or a worker that died, never leaves it shown as on, unless      *)
(* tasks have raced.                                                          *)
OnMeansOn ==
  Quiet /\ ~raced /\ state.phase # "idle" =>
    state.capture = "active" /\ doc.stream /\ power /\ client # "none"

(* A phase with a peer means that there is a session, and remote-active means *)
(* that the debugger is on the tab, which it is for no other reason; the      *)
(* reports of the client, the sender, the handshake and teardownSession load  *)
(* and save the phase independently (updateSignalingPhase, handleSenderEvent).*)
(* Not claimed once tasks have raced.                                         *)
ControlMeansSession ==
  Quiet /\ ~raced =>
    /\ state.phase \in {"peer-connected", "authenticating", "remote-active"} => active
    /\ state.phase = "remote-active" => debugger
    /\ debugger => active

(* While Remote Mode is shown as on, Stop does something: stopRemoteSession   *)
(* will find no orchestrator that has already run, unless tasks have raced.   *)
StopIsArmed == Quiet /\ ~raced /\ state.phase # "idle" => teardown = "null"

(* Whatever happened, races included, every task comes to its end: no await   *)
(* of enableRemote, the teardown pass or a handler waits for ever             *)
(* (sendToOffscreen has timeouts).  The user is not busy for ever.            *)
Settles == []<>Quiet

(* A teardown pass, whoever asked for it, ends in idle: its last step is      *)
(* reached whatever the document does, and after a restart in its middle the  *)
(* reconciliation takes its place (TeardownOrchestrator.execute).             *)
StopReachesIdle == (teardown \in Tasks /\ ~raced) ~> (state.phase = "idle" \/ raced)

(* Once the user has asked for Stop and everything has come to rest, capture, *)
(* debugger, session and keep-awake are off (MANUAL_EVIDENCE.md: Stop Remote  *)
(* is CLEAN).                                                                 *)
StopIsClean == Quiet /\ asked = "stop" => ~doc.stream /\ ~debugger /\ ~active /\ ~power

(* What Remote Mode has in use, as RemoteMode sees it: a phase is `on', and a *)
(* document without one is what a worker that died has left.                  *)
InUse ==
  {u \in {"document", "awake", "client", "session", "debugger"} :
     \/ u = "document" /\ doc # NoDoc
     \/ u = "awake" /\ power
     \/ u = "client" /\ client # "none"
     \/ u = "session" /\ active
     \/ u = "debugger" /\ debugger}
Promise == INSTANCE RemoteMode WITH
  mode <- IF state.phase # "idle" THEN "on" ELSE IF doc = NoDoc THEN "off" ELSE "left",
  used <- InUse,
  woken <- state.phase # "idle" /\ Some({"waking"}),
  broken <- raced

(* While nothing has raced, Remote Mode keeps the promise of RemoteMode:      *)
(* neither a late answer, a report, a request nor a restart turns it on or    *)
(* leaves anything on (enableRemote, buildTeardown, reconcileAfterRestart).   *)
LocalConsent == Promise!PSpec
=============================================================================
