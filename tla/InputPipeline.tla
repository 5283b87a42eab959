--------------------------- MODULE InputPipeline ---------------------------
(***************************************************************************)
(* The way of an input from the phone's screen to the remote tab: touch and *)
(* keyboard bridges, their PrioritizedInputSenders, the one sequence counter *)
(* of the session (ControlSender), the control channel, the desktop's        *)
(* SequenceGuard and InputService, and the queue of debugger commands.       *)
(*                                                                           *)
(* One ReceiverSession object lives through several sessions (reconnects).   *)
(* JavaScript callbacks run to their end, so each is one action.  An input   *)
(* is the number of its creation and the session it was created in, in one   *)
(* frame or two (down and up); its coordinates or text are left out, and the *)
(* classifier's verdicts are taken as given: TouchGestures is about them.    *)
(* The channel and what waits in bufferedAmount are one FIFO queue.          *)
(***************************************************************************)
EXTENDS Naturals, Sequences, FiniteSetsExt

CONSTANTS
  Touch,        \* senders of touch bridges: the current one and older ones
  Keyboard,     \* the sender that Viewer makes for the keyboard bridge
  MaxBuffered,  \* MAX_CONTROL_BUFFERED, in frames
  MaxSessions,  \* bound: sessions of one ReceiverSession object
  MaxInputs     \* bound: inputs created

Senders == Touch \cup {Keyboard}

ASSUME SendersAssumption == Keyboard \notin Touch /\ "handshake" \notin Senders /\ Touch # {}
ASSUME BoundsAssumption == MaxBuffered \in Nat /\ MaxSessions \in Nat /\ MaxInputs \in Nat

VARIABLES
  session,  \* ReceiverSession.sessionIdValue, 0 before the first
  live,     \* ReceiverSession.controlSender is not null
  seq,      \* ControlSender.seq
  chan,     \* the control channel: "negotiating", "open" or "closed"
  auth,     \* handshake frame the phone has yet to send: "challenge", "proof", "none"
  bridge,   \* the touch bridge in use: its sender, its mode, whether it is active
  box,      \* each sender's latestMove, pendingWheel, urgentQueue and armed timers
  made,     \* inputs created so far
  channel,  \* frames on the control channel
  marred,   \* in this session a numbered frame was not sent, or not heard, in its turn
  desk,     \* activeSessionId, InputService (armed, guard, attached), phase, teardown under way
  cdp,      \* CdpInputAdapter.queue
  acted     \* inputs the tab has received

phoneVars == <<session, live, seq, chan, auth, bridge, box, made>>
deskVars == <<desk, cdp, acted>>
vars == <<session, live, seq, chan, auth, bridge, box, made, channel, marred, desk, cdp, acted>>

NoInput == [id |-> 0, at |-> 0]
NewBox == [move |-> NoInput, wheel |-> NoInput, queue |-> <<>>, timers |-> {}]
NoDesk == [active |-> 0, armed |-> FALSE, last |-> 0, attached |-> FALSE,
           phase |-> "waiting", tearing |-> FALSE]

NewInput == [id |-> made + 1, at |-> session]
Frame(s, kind, n, i) ==
  [session |-> session, seq |-> n, from |-> s, kind |-> kind, id |-> i.id, at |-> i.at, part |-> 1]
-----------------------------------------------------------------------------
(* What a sender does in one turn, on t: the counter, the channel, its box *)

Turn(s) == [seq |-> seq, channel |-> channel, marred |-> marred, box |-> box[s]]
After(s, t) ==
  /\ seq' = t.seq /\ channel' = t.channel /\ marred' = t.marred
  /\ box' = [box EXCEPT ![s] = t.box]

(* mutant: the buffer is checked after the frame was added *)
RoomCheckedLate(t) == IF chan = "open" /\ Len(t.channel) <= MaxBuffered + 1
                      THEN MaxBuffered + 2 - Len(t.channel) ELSE 0
Room(t) == IF chan = "open" /\ Len(t.channel) <= MaxBuffered
           THEN MaxBuffered + 1 - Len(t.channel) ELSE 0
sendControl(t, f) ==
  IF Room(t) > 0 THEN [t EXCEPT !.channel = Append(@, f)] ELSE [t EXCEPT !.marred = TRUE]

(* A move that the channel refuses is dropped, its sequence number with it. *)
flushMove(s, t) ==
  IF t.box.move = NoInput \/ ~live
  THEN [t EXCEPT !.box.move = NoInput]
  ELSE sendControl([t EXCEPT !.seq = @ + 1, !.box.move = NoInput],
                   Frame(s, "move", t.seq + 1, t.box.move))

(* A wheel frame that the channel refuses is encoded again at the next flush. *)
flushWheel(s, t) ==
  IF t.box.wheel = NoInput \/ ~live
  THEN [t EXCEPT !.box.wheel = NoInput]
  ELSE sendControl([t EXCEPT !.seq = @ + 1, !.box.wheel = IF Room(t) > 0 THEN NoInput ELSE @],
                   Frame(s, "wheel", t.seq + 1, t.box.wheel))

(* The loop of flushUrgent: `sent' frames leave; the first one refused keeps *)
(* its encoding.  Only the head of the queue can already be encoded.         *)
Encoded(item) == item.frame.seq # 0
Encode(item, n) == [item EXCEPT !.frame = [session |-> session, seq |-> n]]
UrgentFrame(s, item) ==
  [session |-> item.frame.session, seq |-> item.frame.seq, from |-> s, kind |-> item.kind,
   id |-> item.id, at |-> item.at, part |-> item.part]

flushUrgent(s, t) ==
  LET q == t.box.queue
      kept == IF q # <<>> /\ Encoded(q[1]) THEN 1 ELSE 0
      sent == Min({Room(t), Len(q)})
      tried == Min({sent + 1, Len(q)})
      Coded(i) == IF i <= kept THEN q[i] ELSE Encode(q[i], t.seq + i - kept)
      rest == IF live
              THEN [i \in 1..(Len(q) - sent) |-> IF i = 1 THEN Coded(sent + 1) ELSE q[sent + i]]
              ELSE IF kept = 1 THEN q ELSE <<>>
      timers == IF rest # <<>> THEN t.box.timers \cup {"retry"} ELSE t.box.timers
  IN [t EXCEPT !.seq = IF live THEN @ + tried - kept ELSE @,
               !.channel = IF live THEN @ \o [i \in 1..sent |-> UrgentFrame(s, Coded(i))] ELSE @,
               !.marred = @ \/ rest # <<>>,
               !.box = [t.box EXCEPT !.queue = rest, !.timers = timers]]

(* sendUrgent for each part of an input, one after the other: flushing after *)
(* each push sends and encodes the same frames as flushing after the last.   *)
sendUrgent(s, kind, parts, t) ==
  LET item(n) == [id |-> made + 1, at |-> session, kind |-> kind, part |-> n,
                  frame |-> [session |-> 0, seq |-> 0]]
  IN flushUrgent(s, [t EXCEPT !.box.queue = @ \o [n \in 1..parts |-> item(n)]])

sendMove(s) == [Turn(s) EXCEPT !.box.move = NewInput, !.box.timers = @ \cup {"move"}]
sendWheel(s) == [Turn(s) EXCEPT !.box.wheel = NewInput, !.box.timers = @ \cup {"wheel"}]
-----------------------------------------------------------------------------
(* The bridges and the timers of their senders *)

Touching(mode) == bridge.open /\ bridge.mode = mode
Make == made < MaxInputs /\ made' = made + 1
SenderStep(s, t) == After(s, t) /\ UNCHANGED <<session, live, chan, auth, bridge, desk, cdp, acted>>

Drag == Touching("pointer") /\ Make /\ SenderStep(bridge.id, sendMove(bridge.id))
Scroll == Touching("scroll") /\ Make /\ SenderStep(bridge.id, sendWheel(bridge.id))
(* mutant: the click does not flush the pending move first *)
TapWithoutFlush ==
  /\ Touching("pointer") /\ Make
  /\ SenderStep(bridge.id, sendUrgent(bridge.id, "button", 2, Turn(bridge.id)))
Tap ==
  /\ Touching("pointer") /\ Make
  /\ LET s == bridge.id
     IN SenderStep(s, sendUrgent(s, "button", 2, flushMove(s, Turn(s))))

(* Keys and text, typed in the sheet whether or not the channel is open. *)
Viewing == live \/ session = 0
sendKey == Viewing /\ Make /\ SenderStep(Keyboard, sendUrgent(Keyboard, "key", 2, Turn(Keyboard)))
sendText == Viewing /\ Make /\ SenderStep(Keyboard, sendUrgent(Keyboard, "key", 1, Turn(Keyboard)))

Fires(s, timer) == [Turn(s) EXCEPT !.box.timers = @ \ {timer}]
MoveTimer(s) ==
  "move" \in box[s].timers /\ SenderStep(s, flushMove(s, Fires(s, "move"))) /\ UNCHANGED made
WheelTimer(s) ==
  "wheel" \in box[s].timers /\ SenderStep(s, flushWheel(s, Fires(s, "wheel"))) /\ UNCHANGED made
(* mutant: the callback forgets its timer after the flush, not before *)
RetryTimerClearedLate(s) ==
  /\ "retry" \in box[s].timers /\ UNCHANGED made
  /\ SenderStep(s, [flushUrgent(s, Turn(s)) EXCEPT !.box.timers = @ \ {"retry"}])
RetryTimer(s) ==
  "retry" \in box[s].timers /\ SenderStep(s, flushUrgent(s, Fires(s, "retry"))) /\ UNCHANGED made

(* Viewer makes a new bridge when the mode or controlOpen changes.  The old  *)
(* one stops listening; its sender keeps what it holds, timers included.     *)
Rerender(mode) ==
  LET open == chan = "open"
  IN /\ Viewing /\ (mode # bridge.mode \/ open # bridge.open)
     /\ \E s \in Touch \ {bridge.id} :
          box[s] = NewBox /\ bridge' = [id |-> s, mode |-> mode, open |-> open]
     /\ UNCHANGED <<session, live, seq, chan, auth, box, made, channel, marred, deskVars>>
-----------------------------------------------------------------------------
(* The session and its channel *)

Leftovers == \E s \in Senders : \E i \in 1..Len(box[s].queue) : Encoded(box[s].queue[i])

(* session.accepted: a new ControlSender, on a desktop that is free. *)
SessionAccepted ==
  /\ Viewing /\ chan = "closed" /\ session < MaxSessions /\ desk.active = 0
  /\ session' = session + 1 /\ live' = TRUE /\ seq' = 0 /\ chan' = "negotiating"
  /\ auth' = "none" /\ marred' = Leftovers
  /\ desk' = [NoDesk EXCEPT !.active = session + 1]
  /\ UNCHANGED <<bridge, box, made, channel, cdp, acted>>

ChannelOpens ==
  /\ chan = "negotiating"
  /\ chan' = "open" /\ auth' = "challenge"
  /\ UNCHANGED <<session, live, seq, bridge, box, made, channel, marred, deskVars>>

Drop == chan' = "closed" /\ channel' = <<>>
ChannelLost ==
  /\ chan # "closed" /\ Drop
  /\ UNCHANGED <<session, live, seq, auth, bridge, box, made, marred, deskVars>>

(* cleanup: the session object is done for good. *)
Disconnect ==
  /\ live /\ live' = FALSE /\ Drop /\ auth' = "none"
  /\ UNCHANGED <<session, seq, bridge, box, made, marred, deskVars>>

(* mutant: each handshake frame comes from a ControlSender of its own *)
sendControlFrameThrowaway ==
  /\ auth # "none" /\ live
  /\ After(Keyboard, sendControl(Turn(Keyboard),
              Frame("handshake", auth, 1, [id |-> 0, at |-> session])))
  /\ auth' = IF auth = "challenge" THEN "proof" ELSE "none"
  /\ UNCHANGED <<session, live, chan, bridge, made, deskVars>>
(* sendControlFrame of the handshake: the number is used up even if the      *)
(* channel refuses the frame.                                                *)
sendControlFrame ==
  /\ auth # "none" /\ live
  /\ LET t == sendControl([Turn(Keyboard) EXCEPT !.seq = @ + 1],
                          Frame("handshake", auth, seq + 1, [id |-> 0, at |-> session]))
     IN After(Keyboard, t)
  /\ auth' = IF auth = "challenge" THEN "proof" ELSE "none"
  /\ UNCHANGED <<session, live, chan, bridge, made, deskVars>>
-----------------------------------------------------------------------------
(* The desktop *)

(* The channel opened there too: authenticating, then InputService.begin.    *)
begin ==
  /\ chan = "open" /\ desk.active # 0 /\ ~desk.armed
  /\ desk' = [desk EXCEPT !.armed = TRUE, !.last = 0, !.attached = FALSE]
  /\ UNCHANGED <<phoneVars, channel, marred, cdp, acted>>

(* onPeerVerified: remote-active, debugger attached. *)
onPeerVerified ==
  /\ desk.phase = "proved"
  /\ desk' = [desk EXCEPT !.phase = "active", !.attached = TRUE]
  /\ UNCHANGED <<phoneVars, channel, marred, cdp, acted>>

SequenceOk(f) == f.session = desk.active /\ f.seq = desk.last + 1
IsAuth(f) == f.kind \in {"challenge", "proof"}

(* InputService.handleFrame on the next frame: not armed yet; out of         *)
(* sequence; part of the handshake; input.  A pointer command asks for the   *)
(* viewport first, a key command goes to the queue at once.                  *)
handleFrame ==
  LET f == Head(channel)
      accepted == [desk EXCEPT !.last = f.seq]
  IN /\ channel # <<>> /\ channel' = Tail(channel)
     /\ \/ ~desk.armed /\ marred' = TRUE /\ UNCHANGED <<desk, cdp>>
        \/ /\ desk.armed /\ ~SequenceOk(f)
           /\ desk' = [desk EXCEPT !.tearing = TRUE] /\ UNCHANGED <<cdp, marred>>
        \/ /\ desk.armed /\ SequenceOk(f) /\ IsAuth(f)
           /\ desk' = [accepted EXCEPT
                         !.phase = IF f.kind = "proof" /\ @ = "waiting" THEN "proved" ELSE @]
           /\ UNCHANGED <<cdp, marred>>
        \/ /\ desk.armed /\ SequenceOk(f) /\ ~IsAuth(f)
           /\ desk' = accepted
           /\ cdp' = IF desk.phase = "active" /\ desk.attached
                     THEN Append(cdp, [metrics |-> f.kind # "key", input |-> f])
                     ELSE cdp
           /\ UNCHANGED marred
     /\ UNCHANGED <<phoneVars, acted>>

(* mutant: debugger commands are not chained *)
CommandDoneUnchained ==
  /\ desk.attached
  /\ \E n \in 1..Len(cdp) :
       LET c == cdp[n]
           others == [i \in 1..(Len(cdp) - 1) |-> IF i < n THEN cdp[i] ELSE cdp[i + 1]]
       IN IF c.metrics
          THEN cdp' = Append(others, [c EXCEPT !.metrics = FALSE]) /\ UNCHANGED acted
          ELSE cdp' = others /\ acted' = Append(acted, c.input)
  /\ UNCHANGED <<phoneVars, channel, marred, desk>>
(* The next debugger command succeeds; a viewport's answer queues the event. *)
CommandDone ==
  /\ cdp # <<>> /\ desk.attached
  /\ LET c == Head(cdp)
     IN IF c.metrics
        THEN cdp' = Append(Tail(cdp), [c EXCEPT !.metrics = FALSE]) /\ UNCHANGED acted
        ELSE cdp' = Tail(cdp) /\ acted' = Append(acted, c.input)
  /\ UNCHANGED <<phoneVars, channel, marred, desk>>

(* It fails: MESSAGE_INVALID, and whatever session is there is torn down. *)
CommandFails ==
  /\ cdp # <<>> /\ cdp' = Tail(cdp)
  /\ desk' = [desk EXCEPT !.tearing = desk.active # 0]
  /\ UNCHANGED <<phoneVars, channel, marred, acted>>

(* The peer fails, the handshake times out, the server closes the session... *)
SessionEnds ==
  /\ desk.active # 0 /\ ~desk.tearing
  /\ desk' = [desk EXCEPT !.tearing = TRUE]
  /\ UNCHANGED <<phoneVars, channel, marred, cdp, acted>>

teardownSession ==
  /\ desk.tearing /\ desk' = NoDesk /\ Drop
  /\ UNCHANGED <<session, live, seq, auth, bridge, box, made, marred, cdp, acted>>
-----------------------------------------------------------------------------
Init ==
  /\ session = 0 /\ live = FALSE /\ seq = 0 /\ chan = "closed" /\ auth = "none"
  /\ \E s \in Touch : bridge = [id |-> s, mode |-> "pointer", open |-> FALSE]
  /\ box = [s \in Senders |-> NewBox] /\ made = 0
  /\ channel = <<>> /\ marred = FALSE
  /\ desk = NoDesk /\ cdp = <<>> /\ acted = <<>>

Phone ==
  \/ Drag \/ Scroll \/ Tap \/ sendKey \/ sendText
  \/ \E s \in Senders : MoveTimer(s) \/ WheelTimer(s) \/ RetryTimer(s)
  \/ \E mode \in {"pointer", "scroll"} : Rerender(mode)
  \/ SessionAccepted \/ ChannelOpens \/ ChannelLost \/ Disconnect \/ sendControlFrame
Desktop ==
  \/ begin \/ onPeerVerified \/ handleFrame \/ CommandDone \/ CommandFails
  \/ SessionEnds \/ teardownSession
Next == Phone \/ Desktop

Spec == Init /\ [][Next]_vars
-----------------------------------------------------------------------------
Kinds == {"challenge", "proof", "move", "wheel", "button", "key"}
Urgent(f) == f.kind \in {"button", "key"}
Inputs == [id: 0..MaxInputs, at: 0..MaxSessions]
Items == [id: 1..MaxInputs, at: 0..MaxSessions, kind: Kinds, part: 1..2,
          frame: [session: 0..MaxSessions, seq: Nat]]
Frames == [session: 0..MaxSessions, seq: Nat, from: Senders \cup {"handshake"}, kind: Kinds,
           id: 0..MaxInputs, at: 0..MaxSessions, part: 1..2]
Before(f, g) == f.id < g.id \/ (f.id = g.id /\ f.part < g.part)

TypeOK ==
  /\ session \in 0..MaxSessions /\ live \in BOOLEAN /\ seq \in Nat
  /\ chan \in {"negotiating", "open", "closed"} /\ auth \in {"challenge", "proof", "none"}
  /\ bridge \in [id: Touch, mode: {"pointer", "scroll"}, open: BOOLEAN]
  /\ box \in [Senders -> [move: Inputs, wheel: Inputs, queue: Seq(Items),
                          timers: SUBSET {"move", "wheel", "retry"}]]
  /\ made \in 0..MaxInputs /\ marred \in BOOLEAN
  /\ channel \in Seq(Frames) /\ Len(channel) <= MaxBuffered + 1
  /\ desk \in [active: 0..MaxSessions, armed: BOOLEAN, last: Nat, attached: BOOLEAN,
               phase: {"waiting", "proved", "active"}, tearing: BOOLEAN]
  /\ cdp \in Seq([metrics: BOOLEAN, input: Frames]) /\ acted \in Seq(Frames)

(* #22: two bridges, three kinds of input, timers and the handshake share    *)
(* one counter, yet as long as no numbered frame was refused, left over or   *)
(* lost before `begin', what is on the channel is exactly what the guard     *)
(* expects next: the session is never torn down by its own input.            *)
NumbersInTurn ==
  ~marred /\ chan = "open" =>
    /\ \A i \in 1..Len(channel) :
         channel[i].session = desk.active /\ channel[i].seq = desk.last + i
    /\ seq = desk.last + Len(channel)

(* The tab receives the keys and buttons of a sender in the order the user   *)
(* made them and none twice, through retries, reconnects and the viewport    *)
(* request that each pointer command waits for.                              *)
UrgentOrder ==
  \A i, j \in 1..Len(acted) :
    /\ i < j /\ Urgent(acted[i]) /\ Urgent(acted[j]) /\ acted[i].from = acted[j].from
    => Before(acted[i], acted[j])

(* Without a refusal, moves and wheels keep that order too: a click lands    *)
(* after the move that the user made before it (flushNow).                   *)
EveryOrder ==
  ~marred => \A i, j \in 1..Len(acted) :
    /\ i < j /\ acted[i].from = acted[j].from /\ acted[i].at = session /\ acted[j].at = session
    => Before(acted[i], acted[j])

(* "Never silently dropped, retried while congested": while the urgent queue *)
(* of a sender holds anything, a timer is armed that will try again, also    *)
(* for the senders of bridges no longer in use (flushUrgent, the retry       *)
(* timer's callback).  A refused wheel is not meant: it stays in             *)
(* pendingWheel without a timer, until the next wheel arms one.              *)
RefusedIsRetried == \A s \in Senders : box[s].queue # <<>> => "retry" \in box[s].timers

(* "Stale input from a previous session is never replayed into a new one"    *)
(* (PrioritizedInputSender.reset): what is on the channel was made in the    *)
(* session it is sent in.                                                    *)
NoStaleInput == \A i \in 1..Len(channel) : channel[i].at = session
=============================================================================
