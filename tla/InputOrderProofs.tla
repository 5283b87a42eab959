-------------------------- MODULE InputOrderProofs --------------------------
(* The order in which the remote tab receives inputs, for any number of      *)
(* touch bridges, sessions and inputs and for a channel of any capacity.     *)
EXTENDS InputPipelineProofs

USE SendersAssumption, BoundsAssumption

(* What a frame says of its input; its session and number are left aside.    *)
SameInput(f, g) ==
  f.from = g.from /\ f.kind = g.kind /\ f.id = g.id /\ f.at = g.at /\ f.part = g.part

(* The frames of which both order properties speak at once: keys and buttons *)
(* always, moves and wheels of this session as long as it is not marred.     *)
Compared(m, f, g) ==
  /\ f.from = g.from /\ f.from \in Senders
  /\ (Urgent(f) /\ Urgent(g)) \/ (~m /\ f.at = session /\ g.at = session)
InOrder(m, f, g) == Compared(m, f, g) => Before(f, g)

(* A frame made among the first n inputs, by a sender of its kind.           *)
Born(n, f) ==
  /\ f.id <= n /\ f.at <= session
  /\ f.from \in Senders <=> ~IsAuth(f)
  /\ f.from = Keyboard <=> f.kind = "key"

(* What the desktop has already taken from the channel.                      *)
Passed == {acted[i] : i \in 1..Len(acted)} \cup {cdp[i].input : i \in 1..Len(cdp)}

(* A frame h behind everything that is past the senders.                     *)
AfterAll(n, m, ch, h) ==
  /\ Born(n, h)
  /\ \A e \in Passed : InOrder(m, e, h)
  /\ \A i \in 1..Len(ch) : InOrder(m, ch[i], h)

ChannelOrder(n, m, ch) ==
  \A j \in 1..Len(ch) :
    /\ Born(n, ch[j])
    /\ \A e \in Passed : InOrder(m, e, ch[j])
    /\ \A i \in 1..Len(ch) : i < j => InOrder(m, ch[i], ch[j])

Moved(s, b) == Frame(s, "move", 0, b.move)
Wheeled(s, b) == Frame(s, "wheel", 0, b.wheel)
Empty(b) == b.move = NoInput /\ b.wheel = NoInput

(* What sender s holds comes after all it has sent.                          *)
HeldOrder(n, m, ch, s, b) ==
  /\ \A i \in 1..Len(b.queue) :
       /\ AfterAll(n, m, ch, UrgentFrame(s, b.queue[i])) /\ Urgent(b.queue[i])
       /\ \A j \in 1..Len(b.queue) : i < j => Before(b.queue[i], b.queue[j])
  /\ b.move # NoInput => AfterAll(n, m, ch, Moved(s, b))
  /\ b.wheel # NoInput => AfterAll(n, m, ch, Wheeled(s, b))
  /\ b.move = NoInput \/ b.wheel = NoInput
  /\ s = Keyboard \/ (~m /\ b.queue # <<>>) => Empty(b)

(* A box between two turns: what waits was refused, and has its number.      *)
AtRest(m, b) == b.queue # <<>> => m /\ Encoded(b.queue[1])

(* Only the sender of a bridge in scroll mode is given wheels.               *)
ModeKept(s, b) ==
  s = bridge.id => (bridge.mode = "pointer" => b.wheel = NoInput)
                     /\ (bridge.mode = "scroll" => b.move = NoInput)

(* Commands that still ask for the viewport come after those that do not.    *)
CommandOrder ==
  /\ \A e \in Passed : Born(made, e) /\ ~IsAuth(e)
  /\ \A i, j \in 1..Len(acted) : i < j => InOrder(marred, acted[i], acted[j])
  /\ \A i \in 1..Len(acted), j \in 1..Len(cdp) : InOrder(marred, acted[i], cdp[j].input)
  /\ \A j \in 1..Len(cdp) : cdp[j].metrics => cdp[j].input.kind # "key"
  /\ \A i, j \in 1..Len(cdp) :
       \/ i < j /\ cdp[i].metrics = cdp[j].metrics
       \/ ~cdp[i].metrics /\ cdp[j].metrics
       => InOrder(marred, cdp[i].input, cdp[j].input)

BoxesInOrder ==
  \A s \in Senders :
    HeldOrder(made, marred, channel, s, box[s]) /\ AtRest(marred, box[s]) /\ ModeKept(s, box[s])

(* On its way to the tab an input is behind all that its sender made before: *)
(* acted, then commanded, then on the channel, then held.                    *)
OrderInv == CommandOrder /\ ChannelOrder(made, marred, channel) /\ BoxesInOrder
-----------------------------------------------------------------------------
(* Frames of the same input are compared alike; what is compared in a marred *)
(* session is compared in any.                                               *)
LEMMA SameInputsAlike ==
  ASSUME NEW f, NEW g, SameInput(f, g)
  PROVE  /\ \A m, e : (InOrder(m, e, f) <=> InOrder(m, e, g)) /\ (InOrder(m, f, e) <=> InOrder(m, g, e))
         /\ \A n : Born(n, f) <=> Born(n, g)
         /\ \A n, m, ch : AfterAll(n, m, ch, f) <=> AfterAll(n, m, ch, g)
<1>1. \A m, e : (InOrder(m, e, f) <=> InOrder(m, e, g)) /\ (InOrder(m, f, e) <=> InOrder(m, g, e))
  BY DEF SameInput, InOrder, Compared, Urgent, Before
<1>2. \A n : Born(n, f) <=> Born(n, g)
  BY DEF SameInput, Born, IsAuth
<1>3. QED BY <1>1, <1>2 DEF AfterAll

LEMMA MarredComparesLess ==
  ASSUME NEW m \in BOOLEAN, NEW m2 \in BOOLEAN, m => m2, NEW e, NEW f, InOrder(m, e, f)
  PROVE  InOrder(m2, e, f)
BY DEF InOrder, Compared

LEMMA OrderSurvivesMarring ==
  ASSUME NEW n, NEW m \in BOOLEAN, NEW m2 \in BOOLEAN, m => m2, NEW ch
  PROVE  /\ \A h : AfterAll(n, m, ch, h) => AfterAll(n, m2, ch, h)
         /\ ChannelOrder(n, m, ch) => ChannelOrder(n, m2, ch)
         /\ \A s, b : HeldOrder(n, m, ch, s, b) => HeldOrder(n, m2, ch, s, b)
<1>1. \A e, f : InOrder(m, e, f) => InOrder(m2, e, f)
  BY MarredComparesLess
<1>2. \A h : AfterAll(n, m, ch, h) => AfterAll(n, m2, ch, h)
  BY <1>1 DEF AfterAll
<1>3. ChannelOrder(n, m, ch) => ChannelOrder(n, m2, ch)
  BY <1>1 DEF ChannelOrder
<1>4. \A s, b : HeldOrder(n, m, ch, s, b) => HeldOrder(n, m2, ch, s, b)
  BY <1>2 DEF HeldOrder
<1>5. QED BY <1>2, <1>3, <1>4

(* The next input comes after whatever was made before it.                   *)
LEMMA NewInputsLast ==
  ASSUME NEW n \in Nat, NEW e, Born(n, e), e.id \in Nat, NEW f, f.id = n + 1, NEW m
  PROVE  InOrder(m, e, f) /\ Born(n + 1, e)
<1>1. e.id < f.id /\ e.id <= n + 1
  BY DEF Born
<1>2. QED BY <1>1 DEF InOrder, Before, Born

LEMMA AppendShape ==
  ASSUME NEW S, NEW q \in Seq(S), NEW e \in S
  PROVE  /\ Append(q, e) \in Seq(S) /\ Len(Append(q, e)) = Len(q) + 1 /\ Len(q) \in Nat
         /\ Append(q, e)[Len(q) + 1] = e
         /\ \A i \in 1..Len(q) : Append(q, e)[i] = q[i]
         /\ \A i \in 1..Len(Append(q, e)) : i \in 1..Len(q) \/ i = Len(q) + 1
OBVIOUS

(* One more frame on the channel. *)
LEMMA ChannelAppends ==
  ASSUME NEW n, NEW m, NEW ch \in Seq(Frames), NEW f \in Frames
  PROVE  /\ ChannelOrder(n, m, ch) /\ AfterAll(n, m, ch, f) => ChannelOrder(n, m, Append(ch, f))
         /\ \A h : AfterAll(n, m, ch, h) /\ InOrder(m, f, h) => AfterAll(n, m, Append(ch, f), h)
<1> DEFINE c == Append(ch, f)
<1>1. /\ Len(c) = Len(ch) + 1 /\ Len(ch) \in Nat /\ c[Len(ch) + 1] = f
      /\ \A i \in 1..Len(ch) : c[i] = ch[i]
      /\ \A i \in 1..Len(c) : i \in 1..Len(ch) \/ i = Len(ch) + 1
  BY AppendShape
<1> HIDE DEF c
<1>2. ASSUME ChannelOrder(n, m, ch), AfterAll(n, m, ch, f)
      PROVE  ChannelOrder(n, m, c)
  <2>1. ASSUME NEW j \in 1..Len(c)
        PROVE  /\ Born(n, c[j])
               /\ \A e \in Passed : InOrder(m, e, c[j])
               /\ \A i \in 1..Len(c) : i < j => InOrder(m, c[i], c[j])
    <3>1. CASE j \in 1..Len(ch)
      <4>1. \A i \in 1..Len(c) : i < j => i \in 1..Len(ch)
        BY <1>1, <3>1
      <4>2. QED BY <1>1, <1>2, <3>1, <4>1 DEF ChannelOrder
    <3>2. CASE j = Len(ch) + 1
      <4>1. \A i \in 1..Len(c) : i < j => i \in 1..Len(ch)
        BY <1>1, <3>2
      <4>2. QED BY <1>1, <1>2, <3>2, <4>1 DEF AfterAll
    <3>3. QED BY <1>1, <3>1, <3>2
  <2>2. QED BY <2>1 DEF ChannelOrder
<1>3. \A h : AfterAll(n, m, ch, h) /\ InOrder(m, f, h) => AfterAll(n, m, c, h)
  BY <1>1 DEF AfterAll
<1>4. QED BY <1>2, <1>3 DEF c

LEMMA HeldAppends ==
  ASSUME NEW n, NEW m, NEW ch \in Seq(Frames), NEW f \in Frames, NEW s, NEW b,
         HeldOrder(n, m, ch, s, b),
         \A i \in 1..Len(b.queue) : InOrder(m, f, UrgentFrame(s, b.queue[i])),
         b.move # NoInput => InOrder(m, f, Moved(s, b)),
         b.wheel # NoInput => InOrder(m, f, Wheeled(s, b))
  PROVE  HeldOrder(n, m, Append(ch, f), s, b)
BY ChannelAppends DEF HeldOrder
-----------------------------------------------------------------------------
(* A sender's turn in order, and the only frames it may add.                 *)
Adds(s, t) ==
  \A i \in 1..Len(t.channel) :
    \/ i \in 1..Len(channel) /\ t.channel[i] = channel[i]
    \/ t.channel[i].from \in {s, "handshake"}
TurnOrder(n, s, t) ==
  /\ marred => t.marred
  /\ ChannelOrder(n, t.marred, t.channel)
  /\ HeldOrder(n, t.marred, t.channel, s, t.box)
  /\ ModeKept(s, t.box)
  /\ Adds(s, t)

LEMMA AddsOne ==
  ASSUME NEW s, NEW ch \in Seq(Frames), NEW f \in Frames, f.from \in {s, "handshake"},
         NEW t, t.channel = ch, Adds(s, t), NEW v, v.channel = Append(ch, f)
  PROVE  Adds(s, v)
<1>1. /\ \A i \in 1..Len(ch) : v.channel[i] = ch[i]
      /\ \A i \in 1..Len(v.channel) : i \in 1..Len(ch) \/ (i = Len(ch) + 1 /\ v.channel[i] = f)
  BY AppendShape
<1>2. QED BY <1>1 DEF Adds

(* sendControl on a turn u that has given up, of what t holds, the frame f.  *)
LEMMA SendControlOrder ==
  ASSUME NEW n, NEW s, NEW t \in Turns, TurnOrder(n, s, t),
         NEW u \in Turns, u.channel = t.channel, u.marred = t.marred, ModeKept(s, u.box),
         NEW f \in Frames, f.from \in {s, "handshake"}, AfterAll(n, t.marred, t.channel, f),
         HeldOrder(n, t.marred, t.channel, s, u.box),
         Room(u) > 0 => HeldOrder(n, t.marred, Append(t.channel, f), s, u.box)
  PROVE  LET v == sendControl(u, f)
         IN TurnOrder(n, s, v) /\ v.box = u.box /\ (t.marred => v.marred)
<1> DEFINE v == sendControl(u, f)
<1>1. t.channel \in Seq(Frames) /\ t.marred \in BOOLEAN
  BY DEF Turns
<1>2. CASE Room(u) > 0
  <2>1. v.channel = Append(t.channel, f) /\ v.marred = t.marred /\ v.box = u.box
    BY <1>2 DEF sendControl, Turns
  <2> HIDE DEF v
  <2>2. ChannelOrder(n, v.marred, v.channel)
    BY <1>1, <2>1, ChannelAppends DEF TurnOrder
  <2>3. Adds(s, v)
    BY <1>1, <2>1, AddsOne DEF TurnOrder
  <2>4. QED BY <1>2, <2>1, <2>2, <2>3 DEF TurnOrder, v
<1>3. CASE ~(Room(u) > 0)
  <2>1. v.channel = t.channel /\ v.marred = TRUE /\ v.box = u.box
    BY <1>3 DEF sendControl, Turns
  <2> HIDE DEF v
  <2>2. ChannelOrder(n, TRUE, t.channel) /\ HeldOrder(n, TRUE, t.channel, s, u.box)
    BY <1>1, OrderSurvivesMarring DEF TurnOrder
  <2>3. QED BY <2>1, <2>2 DEF TurnOrder, Adds, v
<1>4. QED BY <1>2, <1>3
-----------------------------------------------------------------------------
(* flushMove: the move leaves, or is dropped. *)
LEMMA FlushMoveOrder ==
  ASSUME TypeOK, NEW n, NEW s \in Senders, NEW t \in Turns, TurnOrder(n, s, t)
  PROVE  LET v == flushMove(s, t)
         IN /\ TurnOrder(n, s, v) /\ v.box.queue = t.box.queue /\ v.box.wheel = t.box.wheel
            /\ v.box.move = NoInput /\ (t.marred => v.marred)
<1> DEFINE u == [t EXCEPT !.box.move = NoInput]
           w == [t EXCEPT !.seq = @ + 1, !.box.move = NoInput]
           f == Frame(s, "move", t.seq + 1, t.box.move)
           v == flushMove(s, t)
<1>1. t.box \in Boxes /\ t.channel \in Seq(Frames) /\ t.seq \in Nat /\ t.marred \in BOOLEAN
  BY DEF Turns
<1>2. /\ u.box.queue = t.box.queue /\ u.box.wheel = t.box.wheel /\ u.box.move = NoInput
      /\ u.channel = t.channel /\ u.marred = t.marred
  BY <1>1 DEF Turns, Boxes
<1>3. /\ w \in Turns /\ w.box.queue = t.box.queue /\ w.box.wheel = t.box.wheel
      /\ w.box.move = NoInput /\ w.channel = t.channel /\ w.marred = t.marred
  <2>1. /\ [t.box EXCEPT !.move = NoInput] \in Boxes
        /\ [t.box EXCEPT !.move = NoInput].queue = t.box.queue
        /\ [t.box EXCEPT !.move = NoInput].wheel = t.box.wheel
        /\ [t.box EXCEPT !.move = NoInput].move = NoInput
    BY <1>1, NoInputType DEF Boxes
  <2>2. w = [[t EXCEPT !.seq = t.seq + 1] EXCEPT !.box = [t.box EXCEPT !.move = NoInput]]
    BY DEF Turns
  <2>3. t.seq + 1 \in Nat
    BY <1>1
  <2>4. QED BY <2>1, <2>2, <2>3 DEF Turns
<1>4. ASSUME NEW b, b.queue = t.box.queue, b.wheel = t.box.wheel, b.move = NoInput
      PROVE  HeldOrder(n, t.marred, t.channel, s, b) /\ ModeKept(s, b)
  BY <1>4 DEF TurnOrder, HeldOrder, ModeKept, Wheeled, Empty
<1>5. CASE t.box.move = NoInput \/ ~live
  <2>1. v = u
    BY <1>5 DEF flushMove
  <2> HIDE DEF u, v
  <2>2. QED BY <1>2, <1>4, <2>1 DEF TurnOrder, Adds, v
<1>6. CASE ~(t.box.move = NoInput \/ ~live)
  <2>1. v = sendControl(w, f)
    BY <1>6 DEF flushMove
  <2>2. f \in Frames /\ f.from = s /\ f.kind = "move" /\ SameInput(f, Moved(s, t.box))
    <3>1. f \in Frames
      BY <1>1, FrameType DEF Kinds, Boxes
    <3>2. f.from = s /\ f.kind = "move" /\ SameInput(f, Moved(s, t.box))
      BY DEF Frame, Moved, SameInput
    <3>3. QED BY <3>1, <3>2
  <2> HIDE DEF f, w, v
  <2>3. AfterAll(n, t.marred, t.channel, f)
    BY <1>6, <2>2, SameInputsAlike DEF TurnOrder, HeldOrder
  <2>4. HeldOrder(n, t.marred, t.channel, s, w.box) /\ ModeKept(s, w.box)
    BY <1>3, <1>4
  <2>5. ~Urgent(f) /\ (~t.marred => t.box.queue = <<>>) /\ t.box.wheel = NoInput
    BY <1>6, <2>2 DEF TurnOrder, HeldOrder, Empty, Urgent
  <2>6. \A i \in 1..Len(w.box.queue) : InOrder(t.marred, f, UrgentFrame(s, w.box.queue[i]))
    BY <1>3, <2>5 DEF InOrder, Compared
  <2>7. HeldOrder(n, t.marred, Append(t.channel, f), s, w.box)
    BY <1>1, <1>3, <2>2, <2>4, <2>5, <2>6, HeldAppends
  <2>8. TurnOrder(n, s, v) /\ v.box = w.box /\ (t.marred => v.marred)
    BY <1>3, <2>1, <2>2, <2>3, <2>4, <2>7, SendControlOrder
  <2>9. QED BY <1>3, <2>8 DEF v
<1>7. QED BY <1>5, <1>6

(* flushWheel: the wheel leaves, or stays where the turn is marred. *)
LEMMA FlushWheelOrder ==
  ASSUME TypeOK, NEW n, NEW s \in Senders, NEW t \in Turns, TurnOrder(n, s, t)
  PROVE  LET v == flushWheel(s, t)
         IN TurnOrder(n, s, v) /\ v.box.queue = t.box.queue /\ (t.marred => v.marred)
<1> DEFINE left == IF Room(t) > 0 THEN NoInput ELSE t.box.wheel
           u == [t EXCEPT !.box.wheel = NoInput]
           w == [t EXCEPT !.seq = @ + 1, !.box.wheel = left]
           f == Frame(s, "wheel", t.seq + 1, t.box.wheel)
           v == flushWheel(s, t)
<1>1. t.box \in Boxes /\ t.channel \in Seq(Frames) /\ t.seq \in Nat /\ t.marred \in BOOLEAN
  BY DEF Turns
<1>2. /\ u.box.queue = t.box.queue /\ u.box.move = t.box.move /\ u.box.wheel = NoInput
      /\ u.channel = t.channel /\ u.marred = t.marred
  BY <1>1 DEF Turns, Boxes
<1>3. left \in Inputs /\ left \in {t.box.wheel, NoInput}
  BY <1>1, NoInputType DEF Boxes
<1> HIDE DEF left
<1>4. /\ w \in Turns /\ w.box.queue = t.box.queue /\ w.box.move = t.box.move
      /\ w.box.wheel = left /\ w.channel = t.channel /\ w.marred = t.marred
  <2>1. /\ [t.box EXCEPT !.wheel = left] \in Boxes
        /\ [t.box EXCEPT !.wheel = left].queue = t.box.queue
        /\ [t.box EXCEPT !.wheel = left].move = t.box.move
        /\ [t.box EXCEPT !.wheel = left].wheel = left
    BY <1>1, <1>3 DEF Boxes
  <2>2. w = [[t EXCEPT !.seq = t.seq + 1] EXCEPT !.box = [t.box EXCEPT !.wheel = left]]
    BY DEF Turns
  <2>3. t.seq + 1 \in Nat
    BY <1>1
  <2>4. QED BY <2>1, <2>2, <2>3 DEF Turns
<1>5. ASSUME NEW b, b.queue = t.box.queue, b.move = t.box.move, b.wheel \in {t.box.wheel, NoInput}
      PROVE  HeldOrder(n, t.marred, t.channel, s, b) /\ ModeKept(s, b)
  BY <1>5 DEF TurnOrder, HeldOrder, ModeKept, Moved, Wheeled, Empty
<1>6. CASE t.box.wheel = NoInput \/ ~live
  <2>1. v = u
    BY <1>6 DEF flushWheel
  <2> HIDE DEF u, v
  <2>2. QED BY <1>2, <1>5, <2>1 DEF TurnOrder, Adds, v
<1>7. CASE ~(t.box.wheel = NoInput \/ ~live)
  <2>1. v = sendControl(w, f)
    BY <1>7 DEF flushWheel, left
  <2>2. f \in Frames /\ f.from = s /\ f.kind = "wheel" /\ SameInput(f, Wheeled(s, t.box))
    <3>1. f \in Frames
      BY <1>1, FrameType DEF Kinds, Boxes
    <3>2. f.from = s /\ f.kind = "wheel" /\ SameInput(f, Wheeled(s, t.box))
      BY DEF Frame, Wheeled, SameInput
    <3>3. QED BY <3>1, <3>2
  <2> HIDE DEF f, w, v
  <2>3. AfterAll(n, t.marred, t.channel, f)
    BY <1>7, <2>2, SameInputsAlike DEF TurnOrder, HeldOrder
  <2>4. HeldOrder(n, t.marred, t.channel, s, w.box) /\ ModeKept(s, w.box)
    BY <1>3, <1>4, <1>5
  <2>5. ~Urgent(f) /\ (~t.marred => t.box.queue = <<>>) /\ t.box.move = NoInput
    BY <1>7, <2>2 DEF TurnOrder, HeldOrder, Empty, Urgent
  <2>6. \A i \in 1..Len(w.box.queue) : InOrder(t.marred, f, UrgentFrame(s, w.box.queue[i]))
    BY <1>4, <2>5 DEF InOrder, Compared
  <2>7. ASSUME Room(w) > 0
        PROVE  HeldOrder(n, t.marred, Append(t.channel, f), s, w.box)
    <3>1. w.box.wheel = NoInput
      BY <1>4, <2>7 DEF left, Room
    <3>2. QED BY <1>1, <1>4, <2>2, <2>4, <2>5, <2>6, <3>1, HeldAppends
  <2>8. TurnOrder(n, s, v) /\ v.box = w.box /\ (t.marred => v.marred)
    BY <1>4, <2>1, <2>2, <2>3, <2>4, <2>7, SendControlOrder
  <2>9. QED BY <1>4, <2>8 DEF v
<1>8. QED BY <1>6, <1>7
-----------------------------------------------------------------------------
(* What flushUrgent does to a turn: n items leave, in their order; what is   *)
(* left is the rest of the queue, its head encoded, or nothing.              *)
Flushed(s, t, v, n) ==
  LET q == t.box.queue
  IN /\ v.marred = (t.marred \/ v.box.queue # <<>>)
     /\ v.box.move = t.box.move /\ v.box.wheel = t.box.wheel
     /\ Len(v.channel) = Len(t.channel) + n
     /\ \A i \in 1..Len(t.channel) : v.channel[i] = t.channel[i]
     /\ \A k \in 1..n : SameInput(v.channel[Len(t.channel) + k], UrgentFrame(s, q[k]))
     /\ v.box.queue # <<>> =>
          /\ Len(v.box.queue) = Len(q) - n /\ Encoded(v.box.queue[1])
          /\ \A i \in 1..(Len(q) - n) : SameInput(UrgentFrame(s, v.box.queue[i]), UrgentFrame(s, q[n + i]))

LEMMA FlushUrgentShape ==
  ASSUME TypeOK, NEW s \in Senders, NEW t \in Turns
  PROVE  \E n \in 0..Len(t.box.queue) : Flushed(s, t, flushUrgent(s, t), n)
<1> DEFINE q == t.box.queue
           kept == IF q # <<>> /\ Encoded(q[1]) THEN 1 ELSE 0
           sent == Min({Room(t), Len(q)})
           tried == Min({sent + 1, Len(q)})
           Coded(i) == IF i <= kept THEN q[i] ELSE Encode(q[i], t.seq + i - kept)
           rest == IF live
                   THEN [i \in 1..(Len(q) - sent) |->
                           IF i = 1 THEN Coded(sent + 1) ELSE q[sent + i]]
                   ELSE IF kept = 1 THEN q ELSE <<>>
           timers2 == IF rest # <<>> THEN t.box.timers \cup {"retry"} ELSE t.box.timers
           new == [i \in 1..sent |-> UrgentFrame(s, Coded(i))]
           v == [t EXCEPT !.seq = IF live THEN @ + tried - kept ELSE @,
                          !.channel = IF live THEN @ \o new ELSE @,
                          !.marred = @ \/ rest # <<>>,
                          !.box = [t.box EXCEPT !.queue = rest, !.timers = timers2]]
<1>1. flushUrgent(s, t) = v
  BY DEF flushUrgent
<1>2. t.seq \in Nat /\ t.channel \in Seq(Frames) /\ Len(t.channel) \in Nat /\ t.marred \in BOOLEAN
      /\ t.box \in Boxes
  BY DEF Turns
<1>3. q \in Seq(Items) /\ Len(q) \in Nat /\ (q = <<>> <=> Len(q) = 0)
      /\ \A i \in 1..Len(q) : q[i] \in Items
  BY <1>2 DEF Boxes
<1>4. Room(t) \in Nat
  BY RoomIsNat
<1>5. sent \in Nat /\ sent <= Room(t) /\ sent <= Len(q)
  <2>1. sent = IF Room(t) <= Len(q) THEN Room(t) ELSE Len(q)
    BY <1>3, <1>4, SmallerOfTwo
  <2> HIDE DEF sent, q
  <2>2. QED BY <1>3, <1>4, <2>1
<1> HIDE DEF sent
<1>6. kept \in {0, 1} /\ (kept = 1 => Len(q) > 0 /\ Encoded(q[1]))
  BY <1>3
<1> HIDE DEF kept, tried
<1>7. \A i \in 1..Len(q) : SameInput(UrgentFrame(s, Coded(i)), UrgentFrame(s, q[i]))
  <2> SUFFICES ASSUME NEW i \in 1..Len(q)
               PROVE  SameInput(UrgentFrame(s, Coded(i)), UrgentFrame(s, q[i]))
    OBVIOUS
  <2>1. PICK it \in Items : it = q[i]
    BY <1>3
  <2>2. \A x : SameInput(UrgentFrame(s, Encode(it, x)), UrgentFrame(s, it))
    BY DEF SameInput, UrgentFrame, Encode, Items
  <2>3. SameInput(UrgentFrame(s, it), UrgentFrame(s, it))
    BY DEF SameInput
  <2> HIDE DEF q
  <2>4. QED BY <2>1, <2>2, <2>3
<1>8. \A i \in 1..Len(q) : i = sent + 1 => Encoded(Coded(i))
  <2> SUFFICES ASSUME NEW i \in 1..Len(q), i = sent + 1
               PROVE  Encoded(Coded(i))
    OBVIOUS
  <2>1. PICK it \in Items : it = q[i]
    BY <1>3
  <2>2. \A x \in Nat : x > 0 => Encoded(Encode(it, x))
    BY DEF Encoded, Encode, Items
  <2> HIDE DEF q
  <2>3. CASE i <= kept
    BY <1>6, <2>1, <2>3
  <2>4. CASE ~(i <= kept)
    <3>1. t.seq + i - kept \in Nat /\ t.seq + i - kept > 0
      BY <1>2, <1>3, <1>6, <2>4
    <3>2. QED BY <2>1, <2>2, <2>4, <3>1
  <2>5. QED BY <2>3, <2>4
<1> HIDE DEF Coded
<1>9. new \in Seq(Frames \cup {new[i] : i \in 1..sent}) /\ Len(new) = sent
      /\ \A i \in 1..sent : new[i] = UrgentFrame(s, Coded(i))
  <2>1. new \in [1..sent -> Frames \cup {new[i] : i \in 1..sent}]
    OBVIOUS
  <2>2. QED BY <1>5, <2>1
<1> HIDE DEF new
<1>10. /\ v.marred = (t.marred \/ rest # <<>>) /\ v.box.queue = rest
       /\ v.box.move = t.box.move /\ v.box.wheel = t.box.wheel
       /\ v.channel = IF live THEN t.channel \o new ELSE t.channel
  <2> DEFINE seq2 == IF live THEN t.seq + tried - kept ELSE t.seq
             channel2 == IF live THEN t.channel \o new ELSE t.channel
             marred2 == t.marred \/ rest # <<>>
             box2 == [t.box EXCEPT !.queue = rest, !.timers = timers2]
  <2>1. v = [t EXCEPT !.seq = seq2, !.channel = channel2, !.marred = marred2, !.box = box2]
    OBVIOUS
  <2>2. PICK b \in Boxes : b = t.box
    BY <1>2
  <2> HIDE DEF v, timers2, seq2, channel2, marred2, rest
  <2>3. box2.queue = rest /\ box2.move = t.box.move /\ box2.wheel = t.box.wheel
    BY <2>2 DEF Boxes
  <2> HIDE DEF box2
  <2>4. v.marred = marred2 /\ v.box = box2 /\ v.channel = channel2
    BY <2>1 DEF Turns
  <2>5. QED BY <2>3, <2>4 DEF marred2, channel2
<1> HIDE DEF v
<1>11. CASE live
  <2>1. rest = [i \in 1..(Len(q) - sent) |-> IF i = 1 THEN Coded(sent + 1) ELSE q[sent + i]]
    BY <1>11
  <2> HIDE DEF rest, q
  <2>2. Len(q) - sent \in Nat
    BY <1>3, <1>5
  <2>3. /\ Len(t.channel \o new) = Len(t.channel) + sent
        /\ \A i \in 1..Len(t.channel) : (t.channel \o new)[i] = t.channel[i]
        /\ \A k \in 1..sent : (t.channel \o new)[Len(t.channel) + k] = new[k]
    BY <1>2, <1>5, <1>9
  <2>4. Len(rest) = Len(q) - sent
    BY <2>1, <2>2
  <2>5. \A k \in 1..sent : SameInput(v.channel[Len(t.channel) + k], UrgentFrame(s, q[k]))
    <3>1. \A k \in 1..sent : k \in 1..Len(q)
      BY <1>3, <1>5
    <3>2. QED BY <1>7, <1>9, <1>10, <1>11, <2>3, <3>1
  <2>6. \A i \in 1..(Len(q) - sent) : SameInput(UrgentFrame(s, rest[i]), UrgentFrame(s, q[sent + i]))
    <3>1. \A i \in 1..(Len(q) - sent) : sent + i \in 1..Len(q)
      BY <1>3, <1>5
    <3>2. \A i \in 1..(Len(q) - sent) :
            rest[i] = IF i = 1 THEN Coded(sent + 1) ELSE q[sent + i]
      BY <2>1
    <3>3. \A f : SameInput(f, f)
      BY DEF SameInput
    <3>4. QED BY <1>7, <3>1, <3>2, <3>3
  <2>7. rest # <<>> => Encoded(rest[1])
    <3>1. rest # <<>> => 1 \in 1..(Len(q) - sent) /\ sent + 1 \in 1..Len(q)
      BY <1>3, <1>5, <2>1, <2>2
    <3>2. QED BY <1>8, <2>1, <3>1
  <2>8. sent \in 0..Len(q)
    BY <1>3, <1>5
  <2>9. Flushed(s, t, v, sent)
    BY <1>10, <1>11, <2>3, <2>4, <2>5, <2>6, <2>7 DEF Flushed, q
  <2>10. QED BY <1>1, <2>8, <2>9 DEF q
<1>12. CASE ~live
  <2>1. (rest = q /\ kept = 1) \/ rest = <<>>
    BY <1>12
  <2> HIDE DEF rest, q
  <2>2. v.channel = t.channel /\ 0 \in 0..Len(q)
    BY <1>3, <1>10, <1>12
  <2>3. \A i \in 1..(Len(q) - 0) : SameInput(UrgentFrame(s, q[i]), UrgentFrame(s, q[0 + i]))
    BY <1>3 DEF SameInput
  <2>4. v.box.queue # <<>> =>
          /\ Len(v.box.queue) = Len(q) - 0 /\ Encoded(v.box.queue[1])
          /\ \A i \in 1..(Len(q) - 0) :
               SameInput(UrgentFrame(s, v.box.queue[i]), UrgentFrame(s, q[0 + i]))
    BY <1>3, <1>6, <1>10, <2>1, <2>3
  <2>5. Len(v.channel) = Len(t.channel) + 0 /\ 1..0 = {}
    BY <1>2, <2>2
  <2>6. Flushed(s, t, v, 0)
    BY <1>10, <2>2, <2>4, <2>5 DEF Flushed, q
  <2>7. QED BY <1>1, <2>2, <2>6 DEF q
<1>13. QED BY <1>11, <1>12

LEMMA FlushUrgentOrder ==
  ASSUME TypeOK, NEW n, NEW s \in Senders, NEW t \in Turns, TurnOrder(n, s, t)
  PROVE  LET v == flushUrgent(s, t)
         IN TurnOrder(n, s, v) /\ AtRest(v.marred, v.box) /\ (t.marred => v.marred)
<1> DEFINE q == t.box.queue
           c == Len(t.channel)
           m == t.marred
<1>1. PICK v : v = flushUrgent(s, t)
  OBVIOUS
<1>2. PICK N \in 0..Len(q) : Flushed(s, t, v, N)
  BY <1>1, FlushUrgentShape
<1>3. /\ m \in BOOLEAN /\ c \in Nat /\ q \in Seq(Items) /\ Len(q) \in Nat /\ N \in Nat
      /\ (q = <<>> <=> Len(q) = 0) /\ N <= Len(q)
  BY <1>2 DEF Turns, Boxes
<1>4. /\ v.marred = (m \/ v.box.queue # <<>>) /\ v.marred \in BOOLEAN /\ (m => v.marred)
      /\ v.box.move = t.box.move /\ v.box.wheel = t.box.wheel
  BY <1>2, <1>3 DEF Flushed
<1>5. ASSUME NEW j \in 1..Len(v.channel)
      PROVE  \/ j \in 1..c /\ v.channel[j] = t.channel[j]
             \/ \E k \in 1..N : j = c + k /\ SameInput(v.channel[j], UrgentFrame(s, q[k]))
  <2>1. Len(v.channel) = c + N /\ \A i \in 1..c : v.channel[i] = t.channel[i]
    BY <1>2 DEF Flushed
  <2>2. \A k \in 1..N : SameInput(v.channel[c + k], UrgentFrame(s, q[k]))
    BY <1>2 DEF Flushed
  <2> HIDE DEF c, q
  <2>3. CASE j <= c
    BY <1>3, <2>1, <2>3
  <2>4. CASE ~(j <= c)
    <3>1. j - c \in 1..N /\ j = c + (j - c)
      BY <1>3, <2>1, <2>4
    <3>2. PICK k \in 1..N : j = c + k
      BY <3>1
    <3>3. QED BY <2>2, <3>2
  <2>5. QED BY <2>3, <2>4
<1>6. \A i \in 1..Len(q) :
        /\ AfterAll(n, m, t.channel, UrgentFrame(s, q[i])) /\ Urgent(q[i])
        /\ \A j \in 1..Len(q) : i < j => Before(q[i], q[j])
  BY DEF TurnOrder, HeldOrder
<1>7. \A k \in 1..N : k \in 1..Len(q)
  BY <1>3
<1>8. \A i, j \in 1..Len(q) : i < j =>
        \A f, g : SameInput(f, UrgentFrame(s, q[i])) /\ SameInput(g, UrgentFrame(s, q[j])) =>
          InOrder(m, f, g)
  <2>1. \A x, y, f, g :
          SameInput(f, UrgentFrame(s, x)) /\ SameInput(g, UrgentFrame(s, y)) /\ Before(x, y)
          => Before(f, g)
    <3> SUFFICES ASSUME NEW x, NEW y, NEW f, NEW g, SameInput(f, UrgentFrame(s, x)),
                        SameInput(g, UrgentFrame(s, y)), Before(x, y)
                 PROVE  Before(f, g)
      OBVIOUS
    <3>1. f.id = x.id /\ f.part = x.part /\ g.id = y.id /\ g.part = y.part
      BY DEF SameInput, UrgentFrame
    <3>2. QED BY <3>1 DEF Before
  <2>2. QED BY <1>6, <2>1 DEF InOrder
<1> HIDE DEF q, m, c
(* the channel *)
<1>9. ChannelOrder(n, m, v.channel)
  <2> SUFFICES ASSUME NEW j \in 1..Len(v.channel)
               PROVE  /\ Born(n, v.channel[j])
                      /\ \A e \in Passed : InOrder(m, e, v.channel[j])
                      /\ \A i \in 1..Len(v.channel) : i < j => InOrder(m, v.channel[i], v.channel[j])
    BY DEF ChannelOrder
  <2>1. CASE j \in 1..c /\ v.channel[j] = t.channel[j]
    <3>1. ASSUME NEW i \in 1..Len(v.channel), i < j
          PROVE  InOrder(m, v.channel[i], v.channel[j])
      <4>1. i \in 1..c /\ v.channel[i] = t.channel[i]
        BY <1>3, <1>5, <2>1, <3>1
      <4>2. QED BY <2>1, <3>1, <4>1 DEF TurnOrder, ChannelOrder, c, m
    <3>2. QED BY <2>1, <3>1 DEF TurnOrder, ChannelOrder, c, m
  <2>2. ASSUME NEW k \in 1..N, j = c + k, SameInput(v.channel[j], UrgentFrame(s, q[k]))
        PROVE  /\ Born(n, v.channel[j])
               /\ \A e \in Passed : InOrder(m, e, v.channel[j])
               /\ \A i \in 1..Len(v.channel) : i < j => InOrder(m, v.channel[i], v.channel[j])
    <3>1. AfterAll(n, m, t.channel, v.channel[j])
      BY <1>6, <1>7, <2>2, SameInputsAlike
    <3>2. ASSUME NEW i \in 1..Len(v.channel), i < j
          PROVE  InOrder(m, v.channel[i], v.channel[j])
      <4>1. CASE i \in 1..c /\ v.channel[i] = t.channel[i]
        BY <3>1, <4>1 DEF AfterAll, c
      <4>2. CASE \E l \in 1..N : i = c + l /\ SameInput(v.channel[i], UrgentFrame(s, q[l]))
        <5>1. PICK l \in 1..N : i = c + l /\ SameInput(v.channel[i], UrgentFrame(s, q[l]))
          BY <4>2
        <5>2. l < k
          BY <1>3, <2>2, <3>2, <5>1
        <5>3. QED BY <1>7, <1>8, <2>2, <5>1, <5>2
      <4>3. QED BY <1>5, <4>1, <4>2
    <3>3. QED BY <3>1, <3>2 DEF AfterAll
  <2>3. QED BY <1>5, <2>1, <2>2
<1>10. ChannelOrder(n, v.marred, v.channel)
  BY <1>3, <1>4, <1>9, OrderSurvivesMarring
(* what is still held *)
<1>11. ASSUME NEW i \in 1..Len(v.box.queue), v.box.queue # <<>>
       PROVE  /\ AfterAll(n, v.marred, v.channel, UrgentFrame(s, v.box.queue[i]))
              /\ Urgent(v.box.queue[i])
              /\ \A j \in 1..Len(v.box.queue) : i < j => Before(v.box.queue[i], v.box.queue[j])
  <2>1. /\ Len(v.box.queue) = Len(q) - N
        /\ \A j \in 1..(Len(q) - N) :
             SameInput(UrgentFrame(s, v.box.queue[j]), UrgentFrame(s, q[N + j]))
    BY <1>2, <1>11 DEF Flushed, q
  <2>2. \A j \in 1..(Len(q) - N) : N + j \in 1..Len(q)
    BY <1>3
  <2>3. i \in 1..(Len(q) - N) /\ N + i \in 1..Len(q)
    BY <1>11, <2>1, <2>2
  <2>4. AfterAll(n, m, t.channel, UrgentFrame(s, v.box.queue[i]))
    BY <1>6, <2>1, <2>3, SameInputsAlike
  <2>5. ASSUME NEW j \in 1..Len(v.channel)
        PROVE  InOrder(m, v.channel[j], UrgentFrame(s, v.box.queue[i]))
    <3>1. CASE j \in 1..c /\ v.channel[j] = t.channel[j]
      BY <2>4, <3>1 DEF AfterAll, c
    <3>2. ASSUME NEW k \in 1..N, SameInput(v.channel[j], UrgentFrame(s, q[k]))
          PROVE  InOrder(m, v.channel[j], UrgentFrame(s, v.box.queue[i]))
      <4>1. k < N + i
        BY <1>3, <2>3, <3>2
      <4>2. QED BY <1>7, <1>8, <2>1, <2>3, <3>2, <4>1
    <3>3. QED BY <1>5, <3>1, <3>2
  <2>6. AfterAll(n, m, v.channel, UrgentFrame(s, v.box.queue[i]))
    BY <2>4, <2>5 DEF AfterAll
  <2>7. AfterAll(n, v.marred, v.channel, UrgentFrame(s, v.box.queue[i]))
    BY <1>3, <1>4, <2>6, OrderSurvivesMarring
  <2>8. \A f, g : SameInput(UrgentFrame(s, f), UrgentFrame(s, g)) =>
          f.id = g.id /\ f.part = g.part /\ (Urgent(g) => Urgent(f))
    BY DEF SameInput, UrgentFrame, Urgent
  <2>9. Urgent(v.box.queue[i])
    BY <1>6, <2>1, <2>3, <2>8
  <2>10. ASSUME NEW j \in 1..Len(v.box.queue), i < j
         PROVE  Before(v.box.queue[i], v.box.queue[j])
    <3>1. j \in 1..(Len(q) - N) /\ N + j \in 1..Len(q) /\ N + i < N + j
      BY <1>3, <2>1, <2>2, <2>3, <2>10
    <3>2. Before(q[N + i], q[N + j])
      BY <1>6, <2>3, <3>1
    <3>3. QED BY <2>1, <2>3, <2>8, <3>1, <3>2 DEF Before
  <2>11. QED BY <2>7, <2>9, <2>10
<1>12. ASSUME NEW h, ~Urgent(h), AfterAll(n, m, t.channel, h), ~Empty(t.box)
       PROVE  AfterAll(n, v.marred, v.channel, h)
  <2>1. m \/ q = <<>>
    BY <1>12 DEF TurnOrder, HeldOrder, q, m
  <2>2. ASSUME NEW j \in 1..Len(v.channel)
        PROVE  InOrder(m, v.channel[j], h)
    <3>1. CASE j \in 1..c /\ v.channel[j] = t.channel[j]
      BY <1>12, <3>1 DEF AfterAll, c
    <3>2. ASSUME NEW k \in 1..N
          PROVE  InOrder(m, v.channel[j], h)
      <4>1. m
        BY <1>3, <2>1, <3>2
      <4>2. QED BY <1>12, <4>1 DEF InOrder, Compared
    <3>3. QED BY <1>5, <3>1, <3>2
  <2>3. AfterAll(n, m, v.channel, h)
    BY <1>12, <2>2 DEF AfterAll
  <2>4. QED BY <1>3, <1>4, <2>3, OrderSurvivesMarring
<1>13. /\ v.box.move # NoInput => AfterAll(n, v.marred, v.channel, Moved(s, v.box))
       /\ v.box.wheel # NoInput => AfterAll(n, v.marred, v.channel, Wheeled(s, v.box))
  <2>1. ~Urgent(Moved(s, v.box)) /\ ~Urgent(Wheeled(s, v.box))
    BY DEF Urgent, Moved, Wheeled, Frame
  <2>2. Moved(s, v.box) = Moved(s, t.box) /\ Wheeled(s, v.box) = Wheeled(s, t.box)
    BY <1>4 DEF Moved, Wheeled
  <2>3. QED BY <1>4, <1>12, <2>1, <2>2 DEF TurnOrder, HeldOrder, Empty, m
<1>14. HeldOrder(n, v.marred, v.channel, s, v.box)
  <2>1. \A i \in 1..Len(v.box.queue) : v.box.queue # <<>>
    OBVIOUS
  <2>2. \A i \in 1..Len(v.box.queue) :
          /\ AfterAll(n, v.marred, v.channel, UrgentFrame(s, v.box.queue[i])) /\ Urgent(v.box.queue[i])
          /\ \A j \in 1..Len(v.box.queue) : i < j => Before(v.box.queue[i], v.box.queue[j])
    BY <1>11, <2>1
  <2>3. /\ v.box.move = NoInput \/ v.box.wheel = NoInput
        /\ s = Keyboard \/ (~v.marred /\ v.box.queue # <<>>) => Empty(v.box)
    BY <1>4 DEF TurnOrder, HeldOrder, Empty
  <2>4. QED BY <1>13, <2>2, <2>3 DEF HeldOrder
<1>15. AtRest(v.marred, v.box)
  BY <1>2, <1>4 DEF AtRest, Flushed
<1>16. Adds(s, v)
  <2>1. \A f, g : SameInput(f, UrgentFrame(s, g)) => f.from = s
    BY DEF SameInput, UrgentFrame
  <2>2. \A j \in 1..c : \/ j \in 1..Len(channel) /\ t.channel[j] = channel[j]
                        \/ t.channel[j].from \in {s, "handshake"}
    BY DEF TurnOrder, Adds, c
  <2>3. ASSUME NEW j \in 1..Len(v.channel)
        PROVE  \/ j \in 1..Len(channel) /\ v.channel[j] = channel[j]
               \/ v.channel[j].from \in {s, "handshake"}
    BY <1>5, <2>1, <2>2
  <2>4. QED BY <2>3 DEF Adds
<1>17. QED
  BY <1>1, <1>4, <1>10, <1>14, <1>15, <1>16 DEF TurnOrder, ModeKept, m
-----------------------------------------------------------------------------
(* A new input is behind all others. *)
LEMMA BornLonger ==
  ASSUME NEW n \in Nat, NEW n2 \in Nat, n <= n2, NEW f, f.id \in Nat, Born(n, f)
  PROVE  Born(n2, f)
<1>1. f.id <= n2
  BY DEF Born
<1>2. QED BY <1>1 DEF Born

LEMMA NumbersOfInputs ==
  /\ \A f \in Frames : f.id \in Nat
  /\ \A it \in Items : it.id \in Nat
  /\ \A i \in Inputs : i.id \in Nat
BY DEF Frames, Items, Inputs

LEMMA PassedFrames ==
  ASSUME TypeOK
  PROVE  \A e \in Passed : e \in Frames /\ e.id \in Nat
<1>1. acted \in Seq(Frames) /\ cdp \in Seq(Commands)
  BY DEF TypeOK, Commands
<1>2. \A i \in 1..Len(acted) : acted[i] \in Frames
  BY <1>1
<1>3. \A i \in 1..Len(cdp) : cdp[i] \in Commands
  BY <1>1
<1>4. \A c \in Commands : c.input \in Frames
  BY DEF Commands
<1>5. QED BY <1>2, <1>3, <1>4, NumbersOfInputs DEF Passed

(* What was in order among the first inputs is in order among one more, and  *)
(* the new one comes last.                                                   *)
LEMMA OrderGrows ==
  ASSUME TypeOK, CommandOrder, NEW m, NEW ch \in Seq(Frames), ChannelOrder(made, m, ch)
  PROVE  /\ ChannelOrder(made + 1, m, ch)
         /\ \A h : h.id \in Nat /\ AfterAll(made, m, ch, h) => AfterAll(made + 1, m, ch, h)
         /\ \A h : h.id = made + 1 /\ Born(made + 1, h) => AfterAll(made + 1, m, ch, h)
<1>1. made \in Nat /\ made + 1 \in Nat /\ made <= made + 1
  BY DEF TypeOK
<1>2. \A i \in 1..Len(ch) : ch[i].id \in Nat /\ Born(made, ch[i])
  BY NumbersOfInputs DEF ChannelOrder
<1>3. \A e \in Passed : e.id \in Nat /\ Born(made, e)
  BY PassedFrames DEF CommandOrder
<1>4. \A h : h.id \in Nat /\ Born(made, h) => Born(made + 1, h)
  BY <1>1, BornLonger
<1>5. ChannelOrder(made + 1, m, ch)
  BY <1>2, <1>4 DEF ChannelOrder
<1>6. \A h : h.id \in Nat /\ AfterAll(made, m, ch, h) => AfterAll(made + 1, m, ch, h)
  BY <1>4 DEF AfterAll
<1>7. ASSUME NEW h, h.id = made + 1, Born(made + 1, h)
      PROVE  AfterAll(made + 1, m, ch, h)
  <2>1. \A e : e.id \in Nat /\ Born(made, e) => InOrder(m, e, h)
    BY <1>1, <1>7, NewInputsLast
  <2>2. QED BY <1>2, <1>3, <1>7, <2>1 DEF AfterAll
<1>8. QED BY <1>5, <1>6, <1>7

LEMMA HeldGrows ==
  ASSUME TypeOK, CommandOrder, NEW m, NEW ch \in Seq(Frames), ChannelOrder(made, m, ch),
         NEW s, NEW b \in Boxes, HeldOrder(made, m, ch, s, b)
  PROVE  HeldOrder(made + 1, m, ch, s, b)
<1>1. b.queue \in Seq(Items) /\ b.move \in Inputs /\ b.wheel \in Inputs
  BY DEF Boxes
<1>2. \A i \in 1..Len(b.queue) : UrgentFrame(s, b.queue[i]).id \in Nat
  <2>1. \A i \in 1..Len(b.queue) : b.queue[i] \in Items
    BY <1>1
  <2>2. QED BY <2>1, NumbersOfInputs DEF UrgentFrame
<1>3. Moved(s, b).id \in Nat /\ Wheeled(s, b).id \in Nat
  BY <1>1, NumbersOfInputs DEF Moved, Wheeled, Frame
<1>4. QED BY <1>2, <1>3, OrderGrows DEF HeldOrder

LEMMA SendUrgentOrder ==
  ASSUME TypeOK, CommandOrder, made < MaxInputs, NEW s \in Senders, NEW kind \in {"button", "key"},
         kind = "key" <=> s = Keyboard, NEW parts \in 1..2,
         NEW t \in Turns, TurnOrder(made, s, t), ~t.marred => Empty(t.box)
  PROVE  LET v == sendUrgent(s, kind, parts, t)
         IN TurnOrder(made + 1, s, v) /\ AtRest(v.marred, v.box) /\ (t.marred => v.marred)
<1> DEFINE item(n) == [id |-> made + 1, at |-> session, kind |-> kind, part |-> n,
                       frame |-> [session |-> 0, seq |-> 0]]
           added == [n \in 1..parts |-> item(n)]
           q == t.box.queue
           u == [t EXCEPT !.box.queue = @ \o added]
<1>1. /\ t.box \in Boxes /\ q \in Seq(Items) /\ Len(q) \in Nat /\ t.channel \in Seq(Frames)
      /\ made \in Nat /\ session \in 0..MaxSessions
  BY DEF Turns, Boxes, TypeOK
<1>2. added \in Seq(Items) /\ Len(added) = parts
  <2>1. kind \in Kinds
    BY DEF Kinds
  <2>2. \A n \in 1..parts : item(n) \in Items
    <3>1. made + 1 \in 1..MaxInputs
      BY <1>1
    <3>2. \A n \in 1..parts : n \in 1..2
      OBVIOUS
    <3>3. [session |-> 0, seq |-> 0] \in [session: 0..MaxSessions, seq: Nat]
      OBVIOUS
    <3>4. QED BY <1>1, <2>1, <3>1, <3>2, <3>3 DEF Items
  <2> HIDE DEF item
  <2>3. QED BY <2>2
<1>3. \A n \in 1..parts :
        /\ added[n].id = made + 1 /\ added[n].part = n /\ Urgent(added[n])
        /\ UrgentFrame(s, added[n]).id = made + 1 /\ Born(made + 1, UrgentFrame(s, added[n]))
  <2> SUFFICES ASSUME NEW n \in 1..parts
               PROVE  /\ added[n].id = made + 1 /\ added[n].part = n /\ Urgent(added[n])
                      /\ UrgentFrame(s, added[n]).id = made + 1
                      /\ Born(made + 1, UrgentFrame(s, added[n]))
    OBVIOUS
  <2>1. added[n] = item(n)
    OBVIOUS
  <2>2. UrgentFrame(s, item(n)) = [session |-> 0, seq |-> 0, from |-> s, kind |-> kind,
                                   id |-> made + 1, at |-> session, part |-> n]
    BY DEF UrgentFrame
  <2>3. Born(made + 1, UrgentFrame(s, item(n)))
    BY <1>1, <2>2 DEF Born, IsAuth
  <2>4. QED BY <2>1, <2>2, <2>3 DEF Urgent
<1> HIDE DEF added, item
<1>4. /\ q \o added \in Seq(Items) /\ Len(q \o added) = Len(q) + parts
      /\ \A i \in 1..Len(q \o added) :
           \/ i \in 1..Len(q) /\ (q \o added)[i] = q[i]
           \/ \E n \in 1..parts : i = Len(q) + n /\ (q \o added)[i] = added[n]
  <2> HIDE DEF q
  <2>1. q \o added \in Seq(Items) /\ Len(q \o added) = Len(q) + parts
    BY <1>1, <1>2
  <2>2. ASSUME NEW i \in 1..Len(q \o added)
        PROVE  \/ i \in 1..Len(q) /\ (q \o added)[i] = q[i]
               \/ \E n \in 1..parts : i = Len(q) + n /\ (q \o added)[i] = added[n]
    <3>1. CASE i <= Len(q)
      BY <1>1, <1>2, <3>1
    <3>2. CASE ~(i <= Len(q))
      <4>1. /\ i - Len(q) \in 1..parts /\ i = Len(q) + (i - Len(q))
            /\ (q \o added)[i] = added[i - Len(q)]
        BY <1>1, <1>2, <2>1, <2>2, <3>2
      <4>2. QED BY <4>1
    <3>3. QED BY <3>1, <3>2
  <2>3. QED BY <2>1, <2>2
<1>5. /\ u \in Turns /\ u.channel = t.channel /\ u.marred = t.marred
      /\ u.box.queue = q \o added /\ u.box.move = t.box.move /\ u.box.wheel = t.box.wheel
  <2>1. PICK k \in Seq(Items) : k = q \o added
    BY <1>4
  <2>2. /\ [t EXCEPT !.box.queue = k] \in Turns /\ [t EXCEPT !.box.queue = k].box.queue = k
        /\ [t EXCEPT !.box.queue = k].box.move = t.box.move
        /\ [t EXCEPT !.box.queue = k].box.wheel = t.box.wheel
    BY <1>1 DEF Turns, Boxes
  <2>3. u = [t EXCEPT !.box.queue = k]
    BY <2>1
  <2>4. QED BY <2>1, <2>2, <2>3 DEF Turns
<1> HIDE DEF u
<1>6. /\ ChannelOrder(made + 1, t.marred, t.channel) /\ HeldOrder(made + 1, t.marred, t.channel, s, t.box)
      /\ \A n \in 1..parts : AfterAll(made + 1, t.marred, t.channel, UrgentFrame(s, added[n]))
  BY <1>1, <1>3, OrderGrows, HeldGrows DEF TurnOrder
<1>7. \A i \in 1..Len(q) : q[i].id <= made
  BY DEF TurnOrder, HeldOrder, AfterAll, Born, UrgentFrame
<1>8. ASSUME NEW i \in 1..Len(u.box.queue)
      PROVE  /\ AfterAll(made + 1, t.marred, t.channel, UrgentFrame(s, u.box.queue[i]))
             /\ Urgent(u.box.queue[i])
             /\ \A j \in 1..Len(u.box.queue) : i < j => Before(u.box.queue[i], u.box.queue[j])
  <2>1. CASE i \in 1..Len(q) /\ u.box.queue[i] = q[i]
    <3>1. ASSUME NEW j \in 1..Len(u.box.queue), i < j
          PROVE  Before(u.box.queue[i], u.box.queue[j])
      <4>1. CASE j \in 1..Len(q) /\ u.box.queue[j] = q[j]
        BY <2>1, <3>1, <4>1 DEF TurnOrder, HeldOrder
      <4>2. ASSUME NEW n \in 1..parts, u.box.queue[j] = added[n]
            PROVE  Before(u.box.queue[i], u.box.queue[j])
        <5>1. q[i].id \in Nat /\ q[i].id <= made /\ added[n].id = made + 1
          BY <1>1, <1>3, <1>7, <2>1, NumbersOfInputs
        <5>2. QED BY <1>1, <2>1, <4>2, <5>1 DEF Before
      <4>3. QED BY <1>4, <1>5, <3>1, <4>1, <4>2
    <3>2. QED BY <1>6, <2>1, <3>1 DEF HeldOrder
  <2>2. ASSUME NEW n \in 1..parts, i = Len(q) + n, u.box.queue[i] = added[n]
        PROVE  /\ AfterAll(made + 1, t.marred, t.channel, UrgentFrame(s, u.box.queue[i]))
               /\ Urgent(u.box.queue[i])
               /\ \A j \in 1..Len(u.box.queue) : i < j => Before(u.box.queue[i], u.box.queue[j])
    <3>1. ASSUME NEW j \in 1..Len(u.box.queue), i < j
          PROVE  Before(u.box.queue[i], u.box.queue[j])
      <4>1. ~(j \in 1..Len(q))
        BY <1>1, <2>2, <3>1
      <4>2. PICK k \in 1..parts : j = Len(q) + k /\ u.box.queue[j] = added[k]
        BY <1>4, <1>5, <3>1, <4>1
      <4>3. n < k
        BY <1>1, <2>2, <3>1, <4>2
      <4>4. QED BY <1>3, <2>2, <4>2, <4>3 DEF Before
    <3>2. QED BY <1>3, <1>6, <2>2, <3>1
  <2>3. QED BY <1>4, <1>5, <1>8, <2>1, <2>2
<1>9. HeldOrder(made + 1, t.marred, t.channel, s, u.box)
  <2>1. /\ u.box.move = NoInput \/ u.box.wheel = NoInput
        /\ s = Keyboard \/ (~t.marred /\ u.box.queue # <<>>) => Empty(u.box)
    BY <1>5 DEF TurnOrder, HeldOrder, Empty
  <2>2. /\ u.box.move # NoInput => AfterAll(made + 1, t.marred, t.channel, Moved(s, u.box))
        /\ u.box.wheel # NoInput => AfterAll(made + 1, t.marred, t.channel, Wheeled(s, u.box))
    BY <1>5, <1>6 DEF HeldOrder, Moved, Wheeled
  <2>3. QED BY <1>8, <2>1, <2>2 DEF HeldOrder
<1>10. TurnOrder(made + 1, s, u)
  BY <1>5, <1>6, <1>9 DEF TurnOrder, Adds, ModeKept
<1>11. sendUrgent(s, kind, parts, t) = flushUrgent(s, u)
  BY DEF sendUrgent, added, item, u
<1>12. QED BY <1>5, <1>10, <1>11, FlushUrgentOrder
-----------------------------------------------------------------------------
(* A turn begins in order; that a timer has fired makes no difference.       *)
LEMMA TurnStartsInOrder ==
  ASSUME IInv, OrderInv, NEW s \in Senders, NEW t \in Turns,
         t.channel = channel, t.marred = marred,
         t.box.queue = box[s].queue, t.box.move = box[s].move, t.box.wheel = box[s].wheel
  PROVE  TurnOrder(made, s, t) /\ AtRest(t.marred, t.box)
BY DEF OrderInv, BoxesInOrder, TurnOrder, HeldOrder, AtRest, ModeKept, Adds, Moved, Wheeled, Empty

LEMMA TurnParts ==
  ASSUME IInv, NEW s \in Senders, NEW timer
  PROVE  \A t \in {Turn(s), Fires(s, timer)} :
           /\ t \in Turns /\ t.channel = channel /\ t.marred = marred
           /\ t.box.queue = box[s].queue /\ t.box.move = box[s].move /\ t.box.wheel = box[s].wheel
<1>1. /\ Turn(s) \in Turns /\ Turn(s).channel = channel /\ Turn(s).marred = marred
      /\ Turn(s).box = box[s]
  BY TurnIsInTurn DEF TurnOK, Turn
<1>2. PICK t \in Turns : t = Turn(s)
  BY <1>1
<1>3. /\ [t EXCEPT !.box.timers = @ \ {timer}].channel = t.channel
      /\ [t EXCEPT !.box.timers = @ \ {timer}].marred = t.marred
      /\ [t EXCEPT !.box.timers = @ \ {timer}].box.queue = t.box.queue
      /\ [t EXCEPT !.box.timers = @ \ {timer}].box.move = t.box.move
      /\ [t EXCEPT !.box.timers = @ \ {timer}].box.wheel = t.box.wheel
  BY DEF Turns, Boxes
<1>4. Fires(s, timer) = [t EXCEPT !.box.timers = @ \ {timer}]
  BY <1>2 DEF Fires
<1>5. Fires(s, timer) \in Turns
  BY FiresInTurn DEF TurnOK
<1>6. QED BY <1>1, <1>2, <1>3, <1>4, <1>5

(* What is past the senders is in order as long as no more is made.          *)
LEMMA CommandsStay ==
  ASSUME IInv, CommandOrder, marred \in BOOLEAN, marred' \in BOOLEAN, marred => marred',
         made' \in {made, made + 1}, UNCHANGED <<session, cdp, acted>>
  PROVE  CommandOrder'
<1>1. TypeOK /\ made \in Nat /\ made' \in Nat /\ made <= made' /\ Passed' = Passed
  BY DEF IInv, TypeOK, Passed
<1>2. \A e \in Passed : Born(made', e) /\ ~IsAuth(e)
  <2>1. \A e \in Passed : e.id \in Nat /\ Born(made, e) /\ ~IsAuth(e)
    BY <1>1, PassedFrames DEF CommandOrder
  <2>2. QED BY <1>1, <2>1, BornLonger
<1>3. \A e, f : InOrder(marred, e, f) => InOrder(marred', e, f)
  BY MarredComparesLess
<1>4. /\ \A i, j \in 1..Len(acted) : i < j => InOrder(marred', acted[i], acted[j])
      /\ \A i \in 1..Len(acted), j \in 1..Len(cdp) : InOrder(marred', acted[i], cdp[j].input)
      /\ \A i, j \in 1..Len(cdp) :
           \/ i < j /\ cdp[i].metrics = cdp[j].metrics
           \/ ~cdp[i].metrics /\ cdp[j].metrics
           => InOrder(marred', cdp[i].input, cdp[j].input)
  BY <1>3 DEF CommandOrder
<1>5. \A j \in 1..Len(cdp) : cdp[j].metrics => cdp[j].input.kind # "key"
  BY DEF CommandOrder
<1>6. /\ \A m, e, f : InOrder(m, e, f)' <=> InOrder(m, e, f)
      /\ \A n, e : Born(n, e)' <=> Born(n, e)
      /\ \A e : IsAuth(e)' <=> IsAuth(e)
  BY DEF InOrder, Compared, Before, Urgent, Born, IsAuth
<1>7. QED BY <1>1, <1>2, <1>4, <1>5, <1>6 DEF CommandOrder

(* A turn that ends in order keeps the invariant, for the other senders too: *)
(* none of theirs is among the frames that it has added.                     *)
LEMMA TurnKeepsOrder ==
  ASSUME IInv, OrderInv, NEW s \in Senders, NEW t \in Turns, After(s, t),
         made' \in {made, made + 1}, TurnOrder(made', s, t), AtRest(t.marred, t.box),
         UNCHANGED <<session, bridge, cdp, acted>>
  PROVE  OrderInv'
<1>1. channel' = t.channel /\ marred' = t.marred /\ box' = [box EXCEPT ![s] = t.box]
  BY DEF After
<1>2. /\ TypeOK /\ marred \in BOOLEAN /\ t.marred \in BOOLEAN /\ box \in [Senders -> Boxes]
      /\ channel \in Seq(Frames) /\ t.channel \in Seq(Frames)
  BY DEF IInv, TypeOK, Turns, Boxes
<1>3. marred => t.marred
  BY DEF TurnOrder
<1>4. CommandOrder /\ ChannelOrder(made, marred, channel) /\ BoxesInOrder
  BY DEF OrderInv
<1>5. CommandOrder'
  BY <1>1, <1>2, <1>3, <1>4, CommandsStay
<1>6. /\ Passed' = Passed
      /\ \A m, e, f : InOrder(m, e, f)' <=> InOrder(m, e, f)
      /\ \A n, e : Born(n, e)' <=> Born(n, e)
  BY DEF Passed, InOrder, Compared, Before, Urgent, Born, IsAuth
<1>7. ChannelOrder(made, marred, channel)'
  <2>1. ChannelOrder(made', marred', channel')
    BY <1>1 DEF TurnOrder
  <2>2. QED BY <1>6, <2>1 DEF ChannelOrder
<1>8. ASSUME NEW r \in Senders
      PROVE  HeldOrder(made', marred', channel', r, box'[r]) /\ AtRest(marred', box'[r])
             /\ ModeKept(r, box'[r])
  <2>1. CASE r = s
    <3>1. box'[r] = t.box
      BY <1>1, <1>2, <2>1
    <3>2. QED BY <1>1, <2>1, <3>1 DEF TurnOrder
  <2>2. CASE r # s
    <3>1. box'[r] = box[r] /\ box[r] \in Boxes
      BY <1>1, <1>2, <2>2
    <3>2. PICK b \in Boxes : b = box[r]
      BY <3>1
    <3>3. /\ HeldOrder(made, marred, channel, r, b) /\ AtRest(marred, b) /\ ModeKept(r, b)
          /\ HeldOrder(made + 1, marred, channel, r, b)
      <4>1. HeldOrder(made, marred, channel, r, b) /\ AtRest(marred, b) /\ ModeKept(r, b)
        BY <1>4, <3>2 DEF BoxesInOrder
      <4>2. QED BY <1>2, <1>4, <4>1, HeldGrows
    <3>4. HeldOrder(made', marred', channel, r, b)
      BY <1>1, <1>2, <1>3, <3>3, OrderSurvivesMarring
    <3>5. ASSUME NEW h, h.from = r, AfterAll(made', marred', channel, h)
          PROVE  AfterAll(made', marred', channel', h)
      <4>1. ASSUME NEW i \in 1..Len(t.channel)
            PROVE  InOrder(marred', t.channel[i], h)
        <5>1. CASE i \in 1..Len(channel) /\ t.channel[i] = channel[i]
          BY <3>5, <5>1 DEF AfterAll
        <5>2. CASE t.channel[i].from \in {s, "handshake"}
          BY <2>2, <3>5, <5>2 DEF InOrder, Compared
        <5>3. QED BY <5>1, <5>2 DEF TurnOrder, Adds
      <4>2. QED BY <1>1, <3>5, <4>1 DEF AfterAll
    <3>6. HeldOrder(made', marred', channel', r, b)
      <4>1. Moved(r, b).from = r /\ Wheeled(r, b).from = r
        BY DEF Moved, Wheeled, Frame
      <4>2. \A i \in 1..Len(b.queue) : UrgentFrame(r, b.queue[i]).from = r
        BY DEF UrgentFrame
      <4>3. QED BY <3>4, <3>5, <4>1, <4>2 DEF HeldOrder
    <3>7. AtRest(marred', b)
      BY <1>1, <1>3, <3>3 DEF AtRest
    <3>8. QED BY <3>1, <3>2, <3>3, <3>6, <3>7
  <2>3. QED BY <2>1, <2>2
<1>9. BoxesInOrder'
  <2>1. ASSUME NEW r \in Senders
        PROVE  HeldOrder(made, marred, channel, r, box[r])'
    <3>1. HeldOrder(made', marred', channel', r, box'[r])
      BY <1>8
    <3>2. ASSUME NEW i \in 1..Len(box'[r].queue)
          PROVE  /\ AfterAll(made, marred, channel, UrgentFrame(r, box[r].queue[i]))'
                 /\ Urgent(box'[r].queue[i])
                 /\ \A j \in 1..Len(box'[r].queue) :
                      i < j => Before(box'[r].queue[i], box'[r].queue[j])
      BY <1>6, <3>1 DEF HeldOrder, AfterAll
    <3>3. /\ box'[r].move # NoInput => AfterAll(made, marred, channel, Moved(r, box[r]))'
          /\ box'[r].wheel # NoInput => AfterAll(made, marred, channel, Wheeled(r, box[r]))'
      <4>1. Moved(r, box[r])' = Moved(r, box'[r]) /\ Wheeled(r, box[r])' = Wheeled(r, box'[r])
        BY DEF Moved, Wheeled, Frame
      <4>2. QED BY <1>6, <3>1, <4>1 DEF HeldOrder, AfterAll
    <3>4. /\ box'[r].move = NoInput \/ box'[r].wheel = NoInput
          /\ r = Keyboard \/ (~marred' /\ box'[r].queue # <<>>) => Empty(box'[r])
      BY <3>1 DEF HeldOrder
    <3>5. QED BY <3>2, <3>3, <3>4 DEF HeldOrder
  <2>2. \A r \in Senders : AtRest(marred, box[r])' /\ ModeKept(r, box[r])'
    BY <1>8 DEF AtRest, ModeKept, Encoded
  <2>3. QED BY <2>1, <2>2 DEF BoxesInOrder
<1>10. QED BY <1>5, <1>7, <1>9 DEF OrderInv
-----------------------------------------------------------------------------
(* What the phone's bridges and timers do keeps the order. *)
LEMMA SendMoveOrder ==
  ASSUME IInv, OrderInv, made < MaxInputs, NEW s \in Touch, s = bridge.id
  PROVE  /\ bridge.mode = "pointer" =>
              TurnOrder(made + 1, s, sendMove(s)) /\ AtRest(sendMove(s).marred, sendMove(s).box)
         /\ bridge.mode = "scroll" =>
              TurnOrder(made + 1, s, sendWheel(s)) /\ AtRest(sendWheel(s).marred, sendWheel(s).box)
<1>1. /\ s \in Senders /\ s # Keyboard /\ TypeOK /\ CommandOrder /\ session \in 0..MaxSessions
      /\ made \in Nat
  BY DEF Senders, IInv, TypeOK, OrderInv
<1>2. PICK t \in Turns : t = Turn(s)
  BY <1>1, TurnParts
<1>3. TurnOrder(made, s, t) /\ AtRest(t.marred, t.box) /\ t.channel \in Seq(Frames) /\ t.box \in Boxes
  <2>1. /\ t.channel = channel /\ t.marred = marred
        /\ t.box.queue = box[s].queue /\ t.box.move = box[s].move /\ t.box.wheel = box[s].wheel
    BY <1>1, <1>2, TurnParts
  <2>2. QED BY <1>1, <2>1, TurnStartsInOrder DEF Turns
<1>4. /\ ChannelOrder(made + 1, t.marred, t.channel)
      /\ HeldOrder(made + 1, t.marred, t.channel, s, t.box)
  BY <1>1, <1>3, OrderGrows, HeldGrows DEF TurnOrder
<1>5. \A f : /\ f.from = s /\ f.kind \in {"move", "wheel"} /\ f.id = made + 1 /\ f.at = session
             => AfterAll(made + 1, t.marred, t.channel, f)
  <2>1. \A f : /\ f.from = s /\ f.kind \in {"move", "wheel"} /\ f.id = made + 1 /\ f.at = session
               => Born(made + 1, f)
    BY <1>1 DEF Born, IsAuth
  <2>2. QED BY <1>1, <1>3, <2>1, OrderGrows DEF TurnOrder
<1>6. NewInput.id = made + 1 /\ NewInput.at = session /\ NewInput # NoInput
  BY <1>1 DEF NewInput, NoInput
<1>7. CASE bridge.mode = "pointer"
  <2>1. PICK v : v = sendMove(s)
    OBVIOUS
  <2>2. /\ v.channel = t.channel /\ v.marred = t.marred /\ v.box.queue = t.box.queue
        /\ v.box.move = NewInput /\ v.box.wheel = t.box.wheel
    BY <1>2, <2>1 DEF sendMove, Turns, Boxes
  <2>3. t.box.wheel = NoInput
    BY <1>3, <1>7 DEF TurnOrder, ModeKept
  <2>4. AfterAll(made + 1, t.marred, t.channel, Moved(s, v.box))
    BY <1>5, <1>6, <2>2 DEF Moved, Frame
  <2>5. t.marred \/ t.box.queue = <<>>
    BY <1>3 DEF AtRest
  <2>6. HeldOrder(made + 1, v.marred, v.channel, s, v.box)
    BY <1>1, <1>4, <2>2, <2>3, <2>4, <2>5 DEF HeldOrder
  <2>7. QED BY <1>3, <1>4, <1>7, <2>1, <2>2, <2>3, <2>6 DEF TurnOrder, Adds, ModeKept, AtRest
<1>8. CASE bridge.mode = "scroll"
  <2>1. PICK v : v = sendWheel(s)
    OBVIOUS
  <2>2. /\ v.channel = t.channel /\ v.marred = t.marred /\ v.box.queue = t.box.queue
        /\ v.box.wheel = NewInput /\ v.box.move = t.box.move
    BY <1>2, <2>1 DEF sendWheel, Turns, Boxes
  <2>3. t.box.move = NoInput
    BY <1>3, <1>8 DEF TurnOrder, ModeKept
  <2>4. AfterAll(made + 1, t.marred, t.channel, Wheeled(s, v.box))
    BY <1>5, <1>6, <2>2 DEF Wheeled, Frame
  <2>5. t.marred \/ t.box.queue = <<>>
    BY <1>3 DEF AtRest
  <2>6. HeldOrder(made + 1, v.marred, v.channel, s, v.box)
    BY <1>1, <1>4, <2>2, <2>3, <2>4, <2>5 DEF HeldOrder
  <2>7. QED BY <1>3, <1>4, <1>8, <2>1, <2>2, <2>3, <2>6 DEF TurnOrder, Adds, ModeKept, AtRest
<1>9. QED BY <1>7, <1>8

LEMMA HandshakeFrameOrder ==
  ASSUME IInv, OrderInv, sendControlFrame
  PROVE  OrderInv'
<1> DEFINE u == [Turn(Keyboard) EXCEPT !.seq = @ + 1]
           f == Frame("handshake", auth, seq + 1, [id |-> 0, at |-> session])
<1>1. /\ After(Keyboard, sendControl(u, f)) /\ auth \in {"challenge", "proof"}
      /\ made' = made /\ UNCHANGED <<session, bridge, cdp, acted>>
  <2>1. u = [Turn(Keyboard) EXCEPT !.seq = @ + 1]
    OBVIOUS
  <2> HIDE DEF u
  <2>2. QED BY <2>1 DEF sendControlFrame, deskVars, IInv, TypeOK
<1>2. Keyboard \in Senders /\ TypeOK /\ seq \in Nat /\ session \in 0..MaxSessions /\ made \in Nat
  BY DEF Senders, IInv, TypeOK
<1>3. PICK t \in Turns : /\ t = Turn(Keyboard) /\ t.channel = channel /\ t.marred = marred
                         /\ t.box.queue = box[Keyboard].queue /\ t.box.move = box[Keyboard].move
                         /\ t.box.wheel = box[Keyboard].wheel
  BY <1>2, TurnParts
<1>4. TurnOrder(made, Keyboard, t) /\ AtRest(t.marred, t.box)
  BY <1>2, <1>3, TurnStartsInOrder
<1>5. u \in Turns /\ u.channel = t.channel /\ u.marred = t.marred /\ u.box = t.box
  BY <1>3 DEF Turns
<1>6. f \in Frames
  <2>1. [id |-> 0, at |-> session] \in Inputs /\ seq + 1 \in Nat
    BY <1>2 DEF Inputs
  <2>2. QED BY <1>1, <1>2, <2>1, FrameType DEF Kinds
<1>7. f.from = "handshake" /\ IsAuth(f) /\ f.id <= made /\ f.at <= session /\ f.kind # "key"
  BY <1>1, <1>2 DEF Frame, IsAuth
<1> HIDE DEF f, u
<1>8. \A m, e : InOrder(m, e, f) /\ InOrder(m, f, e)
  BY <1>7 DEF InOrder, Compared
<1>9. AfterAll(made, t.marred, t.channel, f)
  BY <1>2, <1>7, <1>8 DEF AfterAll, Born
<1>10. HeldOrder(made, t.marred, Append(t.channel, f), Keyboard, t.box)
  <2>1. t.channel \in Seq(Frames) /\ HeldOrder(made, t.marred, t.channel, Keyboard, t.box)
    BY <1>4 DEF Turns, TurnOrder
  <2>2. QED BY <1>6, <1>8, <2>1, HeldAppends
<1>11. PICK v : v = sendControl(u, f)
  OBVIOUS
<1>12. TurnOrder(made, Keyboard, v) /\ v.box = t.box /\ (t.marred => v.marred)
  BY <1>4, <1>5, <1>6, <1>7, <1>9, <1>10, <1>11, SendControlOrder DEF TurnOrder
<1>13. AtRest(v.marred, v.box)
  BY <1>4, <1>12 DEF AtRest
<1>14. v \in Turns
  <2>1. u.channel \in Seq(Frames) /\ Append(u.channel, f) \in Seq(Frames)
    BY <1>5, <1>6 DEF Turns
  <2>2. QED BY <1>5, <1>11, <2>1 DEF sendControl, Turns
<1>15. QED BY <1>1, <1>2, <1>11, <1>12, <1>13, <1>14, TurnKeepsOrder

LEMMA SenderOrder ==
  ASSUME IInv, OrderInv,
         \/ Drag \/ Scroll \/ Tap \/ sendKey \/ sendText \/ sendControlFrame
         \/ \E s \in Senders : MoveTimer(s) \/ WheelTimer(s) \/ RetryTimer(s)
  PROVE  OrderInv'
<1>1. /\ TypeOK /\ CommandOrder /\ bridge.id \in Touch /\ bridge.id \in Senders /\ Keyboard \in Senders
      /\ bridge.id # Keyboard /\ made \in Nat /\ SameSession
  BY DEF IInv, TypeOK, Senders, OrderInv
<1>2. ASSUME NEW s \in Senders, NEW t \in Turns, SenderStep(s, t), made' \in {made, made + 1},
             TurnOrder(made', s, t), AtRest(t.marred, t.box)
      PROVE  OrderInv'
  BY <1>2, TurnKeepsOrder DEF SenderStep
<1>3. ASSUME NEW s \in Senders, NEW timer
      PROVE  \A t \in {Turn(s), Fires(s, timer)} :
               t \in Turns /\ TurnOrder(made, s, t) /\ AtRest(t.marred, t.box)
  <2> SUFFICES ASSUME NEW t \in {Turn(s), Fires(s, timer)}
               PROVE  t \in Turns /\ TurnOrder(made, s, t) /\ AtRest(t.marred, t.box)
    OBVIOUS
  <2>1. /\ t \in Turns /\ t.channel = channel /\ t.marred = marred /\ t.box.queue = box[s].queue
        /\ t.box.move = box[s].move /\ t.box.wheel = box[s].wheel
    BY TurnParts
  <2>2. QED BY <2>1, TurnStartsInOrder
<1>4. CASE Drag \/ Scroll
  <2>1. PICK t \in {sendMove(bridge.id), sendWheel(bridge.id)} :
          /\ SenderStep(bridge.id, t) /\ Make
          /\ TurnOrder(made + 1, bridge.id, t) /\ AtRest(t.marred, t.box)
    BY <1>1, <1>4, SendMoveOrder DEF Drag, Scroll, Touching, Make
  <2>2. t \in Turns
    BY <1>1, <2>1, SendMoveInTurn DEF Make, TurnOK
  <2>3. QED BY <1>1, <1>2, <2>1, <2>2 DEF Make
<1>5. ASSUME NEW s \in Senders, NEW kind \in {"button", "key"}, kind = "key" <=> s = Keyboard,
             NEW n \in 1..2, NEW t, TurnOK(t), InTurn(t), TurnOrder(made, s, t),
             ~t.marred => Empty(t.box), Make, SenderStep(s, sendUrgent(s, kind, n, t))
      PROVE  OrderInv'
  <2>1. t \in Turns /\ made < MaxInputs /\ made' = made + 1
    BY <1>5 DEF TurnOK, Make
  <2>2. PICK v : v = sendUrgent(s, kind, n, t)
    OBVIOUS
  <2>3. TurnOrder(made + 1, s, v) /\ AtRest(v.marred, v.box)
    BY <1>1, <1>5, <2>1, <2>2, SendUrgentOrder
  <2>4. v \in Turns
    BY <1>1, <1>5, <2>1, <2>2, SendUrgentInTurn DEF Kinds, TurnOK
  <2>5. QED BY <1>2, <1>5, <2>1, <2>2, <2>3, <2>4
<1>6. CASE Tap
  <2> DEFINE s == bridge.id
  <2>1. PICK t : t = flushMove(s, Turn(s))
    OBVIOUS
  <2>2. Touching("pointer") /\ Make /\ SenderStep(s, sendUrgent(s, "button", 2, t))
    BY <1>6, <2>1 DEF Tap
  <2>3. /\ TurnOrder(made, s, Turn(s)) /\ Turn(s) \in Turns
    BY <1>1, <1>3
  <2>4. /\ TurnOrder(made, s, t) /\ t.box.move = NoInput
    BY <1>1, <2>1, <2>3, FlushMoveOrder
  <2>5. t.box.wheel = NoInput
    BY <2>2, <2>4 DEF TurnOrder, ModeKept, Touching
  <2>6. TurnOK(t) /\ InTurn(t)
    BY <1>1, <2>1, TurnIsInTurn, FlushMoveInTurn
  <2>7. QED BY <1>1, <1>5, <2>2, <2>4, <2>5, <2>6 DEF Empty
<1>7. CASE sendKey \/ sendText
  <2>1. PICK t : t = Turn(Keyboard)
    OBVIOUS
  <2>2. PICK n \in 1..2 : Make /\ SenderStep(Keyboard, sendUrgent(Keyboard, "key", n, t))
    BY <1>7, <2>1 DEF sendKey, sendText
  <2>3. TurnOrder(made, Keyboard, t) /\ TurnOK(t) /\ InTurn(t)
    BY <1>1, <1>3, <2>1, TurnIsInTurn
  <2>4. Empty(t.box)
    BY <2>3 DEF TurnOrder, HeldOrder
  <2>5. QED BY <1>1, <1>5, <2>2, <2>3, <2>4
<1>8. ASSUME NEW s \in Senders, MoveTimer(s) \/ WheelTimer(s) \/ RetryTimer(s)
      PROVE  OrderInv'
  <2>1. CASE MoveTimer(s)
    <3>1. PICK t \in Turns : t = Fires(s, "move") /\ TurnOrder(made, s, t) /\ AtRest(t.marred, t.box)
      BY <1>3
    <3>2. PICK v : v = flushMove(s, t)
      OBVIOUS
    <3>3. /\ TurnOrder(made, s, v) /\ v.box.queue = t.box.queue /\ (t.marred => v.marred)
      BY <1>1, <3>1, <3>2, FlushMoveOrder
    <3>4. AtRest(v.marred, v.box)
      BY <3>1, <3>3 DEF AtRest
    <3>5. v \in Turns
      BY <1>1, <3>1, <3>2, FiresInTurn, FlushMoveInTurn DEF TurnOK
    <3>6. QED BY <1>2, <2>1, <3>1, <3>2, <3>3, <3>4, <3>5 DEF MoveTimer
  <2>2. CASE WheelTimer(s)
    <3>1. PICK t \in Turns : t = Fires(s, "wheel") /\ TurnOrder(made, s, t) /\ AtRest(t.marred, t.box)
      BY <1>3
    <3>2. PICK v : v = flushWheel(s, t)
      OBVIOUS
    <3>3. /\ TurnOrder(made, s, v) /\ v.box.queue = t.box.queue /\ (t.marred => v.marred)
      BY <1>1, <3>1, <3>2, FlushWheelOrder
    <3>4. AtRest(v.marred, v.box)
      BY <3>1, <3>3 DEF AtRest
    <3>5. v \in Turns
      BY <1>1, <3>1, <3>2, FiresInTurn, FlushWheelInTurn DEF TurnOK
    <3>6. QED BY <1>2, <2>2, <3>1, <3>2, <3>3, <3>4, <3>5 DEF WheelTimer
  <2>3. CASE RetryTimer(s)
    <3>1. PICK t \in Turns : t = Fires(s, "retry") /\ TurnOrder(made, s, t)
      BY <1>3
    <3>2. PICK v : v = flushUrgent(s, t)
      OBVIOUS
    <3>3. TurnOrder(made, s, v) /\ AtRest(v.marred, v.box)
      BY <1>1, <3>1, <3>2, FlushUrgentOrder
    <3>4. v \in Turns
      BY <1>1, <3>1, <3>2, FiresInTurn, FlushUrgentInTurn DEF TurnOK
    <3>5. QED BY <1>2, <2>3, <3>1, <3>2, <3>3, <3>4 DEF RetryTimer
  <2>4. QED BY <1>8, <2>1, <2>2, <2>3
<1>9. QED BY <1>4, <1>6, <1>7, <1>8, HandshakeFrameOrder
-----------------------------------------------------------------------------
(* What the session, its channel and the desktop do.  They make no input and *)
(* touch no box: all they do is to take frames from the channel.             *)
Taken ==
  /\ \A e \in Passed' : e \in Passed \/ \E i \in 1..Len(channel) : e = channel[i]
  /\ \A j \in 1..Len(channel') : \E i \in 1..Len(channel) : channel'[j] = channel[i]

LEMMA BoxesStay ==
  ASSUME BoxesInOrder, Taken, UNCHANGED <<session, bridge, box, made, marred>>
  PROVE  BoxesInOrder'
<1>1. ASSUME NEW h, AfterAll(made, marred, channel, h)
      PROVE  /\ Born(made, h)
             /\ \A e \in Passed' : InOrder(marred, e, h)
             /\ \A j \in 1..Len(channel') : InOrder(marred, channel'[j], h)
  BY <1>1 DEF AfterAll, Taken
<1>2. /\ \A m, e, f : InOrder(m, e, f)' <=> InOrder(m, e, f)
      /\ \A n, e : Born(n, e)' <=> Born(n, e)
  BY DEF InOrder, Compared, Before, Urgent, Born, IsAuth
<1>3. ASSUME NEW s \in Senders
      PROVE  (HeldOrder(made, marred, channel, s, box[s]) /\ AtRest(marred, box[s])
               /\ ModeKept(s, box[s]))'
  <2>1. HeldOrder(made, marred, channel, s, box[s]) /\ AtRest(marred, box[s]) /\ ModeKept(s, box[s])
    BY DEF BoxesInOrder
  <2>2. ASSUME NEW i \in 1..Len(box'[s].queue)
        PROVE  /\ AfterAll(made, marred, channel, UrgentFrame(s, box[s].queue[i]))'
               /\ Urgent(box'[s].queue[i])
               /\ \A j \in 1..Len(box'[s].queue) :
                    i < j => Before(box'[s].queue[i], box'[s].queue[j])
    <3>1. AfterAll(made, marred, channel, UrgentFrame(s, box[s].queue[i]))
      BY <2>1 DEF HeldOrder
    <3>2. UrgentFrame(s, box[s].queue[i])' = UrgentFrame(s, box[s].queue[i])
      BY DEF UrgentFrame
    <3>3. AfterAll(made, marred, channel, UrgentFrame(s, box[s].queue[i]))'
      BY <1>1, <1>2, <3>1, <3>2 DEF AfterAll
    <3>4. QED BY <2>1, <3>3 DEF HeldOrder
  <2>3. /\ box'[s].move # NoInput => AfterAll(made, marred, channel, Moved(s, box[s]))'
        /\ box'[s].wheel # NoInput => AfterAll(made, marred, channel, Wheeled(s, box[s]))'
    <3>1. Moved(s, box[s])' = Moved(s, box[s]) /\ Wheeled(s, box[s])' = Wheeled(s, box[s])
      BY DEF Moved, Wheeled, Frame
    <3>2. /\ box[s].move # NoInput => AfterAll(made, marred, channel, Moved(s, box[s]))
          /\ box[s].wheel # NoInput => AfterAll(made, marred, channel, Wheeled(s, box[s]))
      BY <2>1 DEF HeldOrder
    <3>3. QED BY <1>1, <1>2, <3>1, <3>2 DEF AfterAll
  <2>4. /\ box'[s].move = NoInput \/ box'[s].wheel = NoInput
        /\ s = Keyboard \/ (~marred' /\ box'[s].queue # <<>>) => Empty(box'[s])
    BY <2>1 DEF HeldOrder
  <2>5. HeldOrder(made, marred, channel, s, box[s])'
    BY <2>2, <2>3, <2>4 DEF HeldOrder
  <2>6. AtRest(marred, box[s])' /\ ModeKept(s, box[s])'
    BY <2>1 DEF AtRest, ModeKept, Encoded
  <2>7. QED BY <2>5, <2>6
<1>4. QED BY <1>3 DEF BoxesInOrder

(* Nothing passes, and the channel is as it was or empty. *)
LEMMA QuietOrder ==
  ASSUME IInv, OrderInv, channel' = channel \/ channel' = <<>>,
         UNCHANGED <<session, bridge, box, made, marred, cdp, acted>>
  PROVE  OrderInv'
<1>1. CommandOrder'
  BY CommandsStay DEF IInv, TypeOK, OrderInv
<1>2. /\ Passed' = Passed
      /\ \A m, e, f : InOrder(m, e, f)' <=> InOrder(m, e, f)
      /\ \A n, e : Born(n, e)' <=> Born(n, e)
  BY DEF Passed, InOrder, Compared, Before, Urgent, Born, IsAuth
<1>3. ChannelOrder(made, marred, channel)'
  <2>1. CASE channel' = channel
    BY <1>2, <2>1 DEF OrderInv, ChannelOrder
  <2>2. CASE channel' = <<>>
    BY <2>2 DEF ChannelOrder
  <2>3. QED BY <2>1, <2>2
<1>4. Taken
  <2>1. CASE channel' = channel
    BY <1>2, <2>1 DEF Taken
  <2>2. CASE channel' = <<>>
    BY <1>2, <2>2 DEF Taken
  <2>3. QED BY <2>1, <2>2
<1>5. BoxesInOrder'
  BY <1>4, BoxesStay DEF OrderInv
<1>6. QED BY <1>1, <1>3, <1>5 DEF OrderInv

(* A new bridge has a sender that holds nothing. *)
LEMMA RerenderOrder ==
  ASSUME IInv, OrderInv, NEW mode \in {"pointer", "scroll"}, Rerender(mode)
  PROVE  OrderInv'
<1>1. PICK s \in Touch : box[s] = NewBox /\ bridge'.id = s
  BY DEF Rerender
<1>2. UNCHANGED <<session, box, made, channel, marred, cdp, acted>>
  BY DEF Rerender, deskVars
<1>3. /\ Passed' = Passed
      /\ \A m, e, f : InOrder(m, e, f)' <=> InOrder(m, e, f)
      /\ \A n, e : Born(n, e)' <=> Born(n, e)
  BY <1>2 DEF Passed, InOrder, Compared, Before, Urgent, Born, IsAuth
<1>4. CommandOrder'
  BY <1>2, CommandsStay DEF IInv, TypeOK, OrderInv
<1>5. ChannelOrder(made, marred, channel)'
  BY <1>2, <1>3 DEF OrderInv, ChannelOrder
<1>6. ASSUME NEW r \in Senders
      PROVE  (HeldOrder(made, marred, channel, r, box[r]) /\ AtRest(marred, box[r])
               /\ ModeKept(r, box[r]))'
  <2>1. HeldOrder(made, marred, channel, r, box[r]) /\ AtRest(marred, box[r])
    BY DEF OrderInv, BoxesInOrder
  <2>2. HeldOrder(made, marred, channel, r, box[r])'
    BY <1>2, <1>3, <2>1 DEF HeldOrder, AfterAll, Moved, Wheeled, Frame, UrgentFrame, Urgent, Before, Empty
  <2>3. AtRest(marred, box[r])'
    BY <1>2, <2>1 DEF AtRest, Encoded
  <2>4. ModeKept(r, box[r])'
    BY <1>1, <1>2 DEF ModeKept, NewBox
  <2>5. QED BY <2>2, <2>3, <2>4
<1>7. QED BY <1>4, <1>5, <1>6 DEF OrderInv, BoxesInOrder

(* A new session: nothing is made in it yet, the channel is empty, and the   *)
(* session is not marred only if nothing waits.                              *)
LEMMA AcceptedOrder ==
  ASSUME IInv, OrderInv, SessionAccepted
  PROVE  OrderInv'
<1>1. /\ session' = session + 1 /\ marred' = Leftovers /\ marred' \in BOOLEAN
      /\ channel = <<>> /\ channel' = <<>> /\ session \in Nat
      /\ UNCHANGED <<bridge, box, made, cdp, acted>>
  BY DEF SessionAccepted, IInv, ClosedIsEmpty, TypeOK, Leftovers
<1>2. Passed' = Passed
  BY <1>1 DEF Passed
<1>3. \A n, f : f.at \in Nat /\ Born(n, f) => Born(n, f)' /\ f.at # session'
  <2> SUFFICES ASSUME NEW n, NEW f, f.at \in Nat, Born(n, f)
               PROVE  Born(n, f)' /\ f.at # session'
    OBVIOUS
  <2>1. f.at <= session' /\ f.at # session'
    BY <1>1 DEF Born
  <2>2. QED BY <2>1 DEF Born, IsAuth
<1>4. \A m, m2, e, f : InOrder(m, e, f) /\ f.at # session' => InOrder(m2, e, f)'
  BY DEF InOrder, Compared, Before, Urgent
<1>5. \A e \in Passed : e.at \in Nat /\ Born(made, e) /\ ~IsAuth(e)
  <2>1. \A f \in Frames : f.at \in Nat
    BY DEF Frames
  <2>2. QED BY <2>1, PassedFrames DEF IInv, OrderInv, CommandOrder
<1>6. CommandOrder'
  <2>1. \A i \in 1..Len(acted) : acted[i] \in Passed
    BY DEF Passed
  <2>2. \A i \in 1..Len(cdp) : cdp[i].input \in Passed
    BY DEF Passed
  <2>3. \A e \in Passed : Born(made, e)' /\ ~IsAuth(e)' /\ e.at # session'
    BY <1>1, <1>3, <1>5 DEF IsAuth
  <2>4. CommandOrder
    BY DEF OrderInv
  <2>5. \A i, j \in 1..Len(acted) : i < j => InOrder(marred, acted[i], acted[j])'
    BY <1>1, <1>4, <2>1, <2>3, <2>4 DEF CommandOrder
  <2>6. \A i \in 1..Len(acted), j \in 1..Len(cdp) : InOrder(marred, acted[i], cdp[j].input)'
    BY <1>1, <1>4, <2>1, <2>2, <2>3, <2>4 DEF CommandOrder
  <2>7. \A i, j \in 1..Len(cdp) :
          \/ i < j /\ cdp[i].metrics = cdp[j].metrics
          \/ ~cdp[i].metrics /\ cdp[j].metrics
          => InOrder(marred, cdp[i].input, cdp[j].input)'
    BY <1>1, <1>4, <2>2, <2>3, <2>4 DEF CommandOrder
  <2>8. \A j \in 1..Len(cdp) : cdp[j].metrics => cdp[j].input.kind # "key"
    BY <2>4 DEF CommandOrder
  <2>9. QED BY <1>1, <1>2, <2>3, <2>5, <2>6, <2>7, <2>8 DEF CommandOrder
<1>7. ChannelOrder(made, marred, channel)'
  BY <1>1 DEF ChannelOrder
<1>8. ASSUME NEW s \in Senders
      PROVE  (HeldOrder(made, marred, channel, s, box[s]) /\ AtRest(marred, box[s])
               /\ ModeKept(s, box[s]))'
  <2>1. HeldOrder(made, marred, channel, s, box[s]) /\ AtRest(marred, box[s]) /\ ModeKept(s, box[s])
    BY DEF OrderInv, BoxesInOrder
  <2>2. /\ box[s].queue \in Seq(Items) /\ box[s].move \in Inputs /\ box[s].wheel \in Inputs
    BY DEF IInv, TypeOK
  <2>3. \A h : h.at \in Nat /\ AfterAll(made, marred, channel, h) =>
               Born(made, h)' /\ \A e \in Passed' : InOrder(marred, e, h)'
    <3> SUFFICES ASSUME NEW h, h.at \in Nat, AfterAll(made, marred, channel, h)
                 PROVE  Born(made, h)' /\ \A e \in Passed' : InOrder(marred, e, h)'
      OBVIOUS
    <3>1. Born(made, h)' /\ h.at # session'
      BY <1>1, <1>3 DEF AfterAll
    <3>2. QED BY <1>2, <1>4, <3>1 DEF AfterAll
  <2>4. \A it \in Items : it.at \in Nat
    BY DEF Items
  <2>5. \A i \in Inputs : i.at \in Nat
    BY DEF Inputs
  <2>6. \A i \in 1..Len(box[s].queue) : UrgentFrame(s, box[s].queue[i]).at \in Nat
    BY <2>2, <2>4 DEF UrgentFrame
  <2>7. Moved(s, box[s]).at \in Nat /\ Wheeled(s, box[s]).at \in Nat
    BY <2>2, <2>5 DEF Moved, Wheeled, Frame
  <2>8. box[s].queue # <<>> => marred' /\ Encoded(box[s].queue[1])
    <3>1. box[s].queue # <<>> => 1 \in 1..Len(box[s].queue)
      BY <2>2
    <3>2. box[s].queue # <<>> => Encoded(box[s].queue[1])
      BY <2>1 DEF AtRest
    <3>3. QED BY <1>1, <3>1, <3>2 DEF Leftovers
  <2>9. HeldOrder(made, marred, channel, s, box[s])'
    <3>1. ASSUME NEW i \in 1..Len(box'[s].queue)
          PROVE  /\ AfterAll(made, marred, channel, UrgentFrame(s, box[s].queue[i]))'
                 /\ Urgent(box'[s].queue[i])
                 /\ \A j \in 1..Len(box'[s].queue) :
                      i < j => Before(box'[s].queue[i], box'[s].queue[j])
      <4>1. AfterAll(made, marred, channel, UrgentFrame(s, box[s].queue[i]))
        BY <1>1, <2>1 DEF HeldOrder
      <4>2. UrgentFrame(s, box[s].queue[i])' = UrgentFrame(s, box[s].queue[i])
        BY <1>1 DEF UrgentFrame
      <4>3. AfterAll(made, marred, channel, UrgentFrame(s, box[s].queue[i]))'
        BY <1>1, <2>3, <2>6, <4>1, <4>2 DEF AfterAll
      <4>4. QED BY <1>1, <2>1, <4>3 DEF HeldOrder
    <3>2. /\ box'[s].move # NoInput => AfterAll(made, marred, channel, Moved(s, box[s]))'
          /\ box'[s].wheel # NoInput => AfterAll(made, marred, channel, Wheeled(s, box[s]))'
      <4>1. /\ SameInput(Moved(s, box[s])', Moved(s, box[s]))
            /\ SameInput(Wheeled(s, box[s])', Wheeled(s, box[s]))
        BY <1>1 DEF Moved, Wheeled, Frame, SameInput
      <4>2. /\ box[s].move # NoInput => AfterAll(made, marred, channel, Moved(s, box[s]))
            /\ box[s].wheel # NoInput => AfterAll(made, marred, channel, Wheeled(s, box[s]))
        BY <2>1 DEF HeldOrder
      <4>3. ASSUME NEW h, h.at \in Nat, AfterAll(made, marred, channel, h), NEW g, SameInput(g, h)
            PROVE  Born(made, g)' /\ \A e \in Passed' : InOrder(marred, e, g)'
        <5>1. /\ Born(made, h)' => Born(made, g)'
              /\ \A e : InOrder(marred, e, h)' => InOrder(marred, e, g)'
          BY <4>3 DEF SameInput, Born, IsAuth, InOrder, Compared, Urgent, Before
        <5>2. QED BY <2>3, <4>3, <5>1
      <4>4. QED BY <1>1, <2>7, <4>1, <4>2, <4>3 DEF AfterAll
    <3>3. /\ box'[s].move = NoInput \/ box'[s].wheel = NoInput
          /\ s = Keyboard \/ (~marred' /\ box'[s].queue # <<>>) => Empty(box'[s])
      BY <1>1, <2>1, <2>8 DEF HeldOrder
    <3>4. QED BY <3>1, <3>2, <3>3 DEF HeldOrder
  <2>10. AtRest(marred, box[s])' /\ ModeKept(s, box[s])'
    BY <1>1, <2>1, <2>8 DEF AtRest, ModeKept, Encoded
  <2>11. QED BY <2>9, <2>10
<1>9. QED BY <1>6, <1>7, <1>8 DEF OrderInv, BoxesInOrder
-----------------------------------------------------------------------------
(* The desktop. *)
LEMMA TailShape ==
  ASSUME NEW S, NEW q \in Seq(S), q # <<>>
  PROVE  /\ Head(q) = q[1] /\ Head(q) \in S /\ 1 \in 1..Len(q)
         /\ Tail(q) \in Seq(S) /\ Len(q) \in Nat /\ Len(Tail(q)) = Len(q) - 1
         /\ \A i \in 1..Len(Tail(q)) : Tail(q)[i] = q[i + 1] /\ i + 1 \in 1..Len(q)
OBVIOUS

LEMMA PassedNow ==
  /\ \A i \in 1..Len(acted) : acted[i] \in Passed
  /\ \A i \in 1..Len(cdp) : cdp[i].input \in Passed
BY DEF Passed

(* The next frame goes to the queue of commands, or nowhere. *)
LEMMA FrameOrder ==
  ASSUME IInv, OrderInv, handleFrame
  PROVE  OrderInv'
<1> DEFINE f == Head(channel)
           c == [metrics |-> f.kind # "key", input |-> f]
<1>1. /\ channel \in Seq(Frames) /\ cdp \in Seq(Commands) /\ acted \in Seq(Frames)
      /\ CommandOrder /\ ChannelOrder(made, marred, channel) /\ BoxesInOrder
      /\ marred \in BOOLEAN /\ TypeOK
  BY DEF IInv, TypeOK, Commands, OrderInv
<1>2. /\ channel # <<>> /\ channel' = Tail(channel)
      /\ marred' \in {marred, TRUE}
      /\ cdp' = cdp \/ (cdp' = Append(cdp, c) /\ ~IsAuth(f) /\ marred' = marred)
      /\ UNCHANGED <<session, bridge, box, made, acted>>
  BY DEF handleFrame, phoneVars
<1>3. /\ f = channel[1] /\ f \in Frames /\ 1 \in 1..Len(channel)
      /\ Len(channel') = Len(channel) - 1
      /\ \A i \in 1..Len(channel') : channel'[i] = channel[i + 1] /\ i + 1 \in 1..Len(channel)
  BY <1>1, <1>2, TailShape
<1>4. PICK g \in Frames : g = f
  BY <1>3
<1>5. /\ c = [metrics |-> g.kind # "key", input |-> g] /\ c \in Commands
      /\ c.input = g /\ (c.metrics <=> g.kind # "key")
  BY <1>4 DEF Commands
<1>6. Born(made, g) /\ \A e \in Passed : InOrder(marred, e, g)
  BY <1>1, <1>3, <1>4 DEF ChannelOrder
<1> HIDE DEF f, c
<1>7. \A e \in Passed' : e \in Passed \/ e = g
  <2>1. CASE cdp' = cdp
    BY <1>2, <2>1 DEF Passed
  <2>2. CASE cdp' = Append(cdp, c)
    <3>1. \A i \in 1..Len(cdp') : (i \in 1..Len(cdp) /\ cdp'[i] = cdp[i]) \/ cdp'[i] = c
      BY <1>1, <1>5, <2>2, AppendShape
    <3>2. QED BY <1>2, <1>5, <3>1 DEF Passed
  <2>3. QED BY <1>2, <2>1, <2>2
<1>8. /\ \A m, e, h : InOrder(m, e, h)' <=> InOrder(m, e, h)
      /\ \A n, e : Born(n, e)' <=> Born(n, e)
  <2>1. session' = session
    BY <1>2
  <2>2. QED BY <2>1 DEF InOrder, Compared, Before, Urgent, Born, IsAuth
<1>9. \A e, h : InOrder(marred, e, h) => InOrder(marred', e, h)
  BY <1>1, <1>2, MarredComparesLess
<1>10. ChannelOrder(made, marred, channel)'
  <2>1. ASSUME NEW j \in 1..Len(channel')
        PROVE  /\ Born(made', channel'[j])
               /\ \A e \in Passed' : InOrder(marred', e, channel'[j])
               /\ \A i \in 1..Len(channel') : i < j => InOrder(marred', channel'[i], channel'[j])
    <3>1. channel'[j] = channel[j + 1] /\ j + 1 \in 1..Len(channel) /\ 1 < j + 1
      BY <1>1, <1>3
    <3>2. InOrder(marred', g, channel'[j])
      BY <1>1, <1>3, <1>4, <1>9, <3>1 DEF ChannelOrder
    <3>3. ASSUME NEW i \in 1..Len(channel'), i < j
          PROVE  InOrder(marred', channel'[i], channel'[j])
      <4>1. channel'[i] = channel[i + 1] /\ i + 1 \in 1..Len(channel) /\ i + 1 < j + 1
        BY <1>1, <1>3, <3>3
      <4>2. QED BY <1>1, <1>9, <3>1, <4>1 DEF ChannelOrder
    <3>4. QED BY <1>1, <1>2, <1>7, <1>9, <3>1, <3>2, <3>3 DEF ChannelOrder
  <2>2. QED BY <1>8, <2>1 DEF ChannelOrder
<1>11. CommandOrder'
  <2>1. CASE cdp' = cdp
    <3>1. UNCHANGED <<session, cdp, acted>> /\ made' = made
      BY <1>2, <2>1
    <3>2. marred' \in BOOLEAN /\ (marred => marred') /\ made' \in {made, made + 1}
      <4>1. marred' = marred \/ marred' = TRUE
        BY <1>2
      <4>2. marred' \in BOOLEAN
        BY <1>1, <4>1
      <4>3. marred => marred'
        BY <4>1
      <4>4. QED BY <3>1, <4>2, <4>3
    <3>3. QED BY <1>1, <3>1, <3>2, CommandsStay
  <2>2. CASE cdp' = Append(cdp, c) /\ ~IsAuth(f) /\ marred' = marred
    <3>1. /\ Len(cdp') = Len(cdp) + 1 /\ Len(cdp) \in Nat /\ cdp'[Len(cdp) + 1] = c
          /\ \A i \in 1..Len(cdp) : cdp'[i] = cdp[i]
          /\ \A i \in 1..Len(cdp') : i \in 1..Len(cdp) \/ i = Len(cdp) + 1
      BY <1>1, <1>5, <2>2, AppendShape
    <3>2. \A e \in Passed' : Born(made, e) /\ ~IsAuth(e)
      BY <1>1, <1>4, <1>6, <1>7, <2>2 DEF CommandOrder
    <3>3. \A j \in 1..Len(cdp') : cdp'[j].metrics => cdp'[j].input.kind # "key"
      BY <1>1, <1>5, <3>1 DEF CommandOrder
    <3>4. \A i \in 1..Len(acted), j \in 1..Len(cdp') : InOrder(marred, acted[i], cdp'[j].input)
      BY <1>1, <1>5, <1>6, <3>1, PassedNow DEF CommandOrder
    <3>5. ASSUME NEW i \in 1..Len(cdp'), NEW j \in 1..Len(cdp'),
                 \/ i < j /\ cdp'[i].metrics = cdp'[j].metrics
                 \/ ~cdp'[i].metrics /\ cdp'[j].metrics
          PROVE  InOrder(marred, cdp'[i].input, cdp'[j].input)
      <4>1. CASE i \in 1..Len(cdp) /\ j \in 1..Len(cdp)
        BY <1>1, <3>1, <3>5, <4>1 DEF CommandOrder
      <4>2. CASE i \in 1..Len(cdp) /\ j = Len(cdp) + 1
        BY <1>5, <1>6, <3>1, <4>2, PassedNow
      <4>3. CASE i = Len(cdp) + 1 /\ j \in 1..Len(cdp)
        <5>1. ~c.metrics /\ cdp[j].metrics
          BY <3>1, <3>5, <4>3
        <5>2. g.kind = "key" /\ cdp[j].input.kind # "key"
          BY <1>1, <1>5, <4>3, <5>1 DEF CommandOrder
        <5>3. g.from = Keyboard /\ cdp[j].input.from # Keyboard
          BY <1>1, <1>6, <4>3, <5>2, PassedNow DEF CommandOrder, Born
        <5>4. QED BY <1>5, <3>1, <4>3, <5>3 DEF InOrder, Compared
      <4>4. QED BY <3>1, <3>5, <4>1, <4>2, <4>3
    <3>6. \A i, j \in 1..Len(acted) : i < j => InOrder(marred, acted[i], acted[j])
      BY <1>1 DEF CommandOrder
    <3>7. \A i, j \in 1..Len(cdp') :
            \/ i < j /\ cdp'[i].metrics = cdp'[j].metrics
            \/ ~cdp'[i].metrics /\ cdp'[j].metrics
            => InOrder(marred, cdp'[i].input, cdp'[j].input)
      BY <3>5
    <3>8. \A e : IsAuth(e)' <=> IsAuth(e)
      BY DEF IsAuth
    <3>9. marred' = marred /\ made' = made /\ acted' = acted
      BY <1>2, <2>2
    <3>10. QED BY <1>8, <3>2, <3>3, <3>4, <3>6, <3>7, <3>8, <3>9 DEF CommandOrder
  <2>3. QED BY <1>2, <2>1, <2>2
<1>12. BoxesInOrder'
  <2>1. Taken
    BY <1>3, <1>4, <1>7 DEF Taken
  <2>2. CASE marred' = marred
    BY <1>1, <1>2, <2>1, <2>2, BoxesStay
  <2>3. CASE marred' # marred
    <3>1. ~marred /\ marred' = TRUE
      BY <1>1, <1>2, <2>3
    <3>2. ASSUME NEW s \in Senders
          PROVE  (HeldOrder(made, marred, channel, s, box[s]) /\ AtRest(marred, box[s])
                   /\ ModeKept(s, box[s]))'
      <4>1. HeldOrder(made, marred, channel, s, box[s]) /\ AtRest(marred, box[s]) /\ ModeKept(s, box[s])
        BY <1>1 DEF BoxesInOrder
      <4>2. box[s].queue = <<>> /\ box'[s] = box[s]
        BY <1>2, <3>1, <4>1 DEF AtRest
      <4>3. \A h : AfterAll(made, marred, channel, h) =>
              /\ Born(made', h)
              /\ \A e \in Passed' : InOrder(marred', e, h)
              /\ \A j \in 1..Len(channel') : InOrder(marred', channel'[j], h)
        BY <1>2, <1>9, <2>1 DEF AfterAll, Taken
      <4>4. Moved(s, box[s])' = Moved(s, box[s]) /\ Wheeled(s, box[s])' = Wheeled(s, box[s])
        BY <1>2, <4>2 DEF Moved, Wheeled, Frame
      <4>5. /\ box'[s].move # NoInput => AfterAll(made, marred, channel, Moved(s, box[s]))'
            /\ box'[s].wheel # NoInput => AfterAll(made, marred, channel, Wheeled(s, box[s]))'
        <5>1. /\ box[s].move # NoInput => AfterAll(made, marred, channel, Moved(s, box[s]))
              /\ box[s].wheel # NoInput => AfterAll(made, marred, channel, Wheeled(s, box[s]))
          BY <4>1 DEF HeldOrder
        <5>2. QED BY <1>8, <4>2, <4>3, <4>4, <5>1 DEF AfterAll
      <4>6. 1..Len(box'[s].queue) = {}
        BY <4>2
      <4>7. /\ box'[s].move = NoInput \/ box'[s].wheel = NoInput
            /\ s = Keyboard \/ (~marred' /\ box'[s].queue # <<>>) => Empty(box'[s])
        BY <4>1, <4>2 DEF HeldOrder
      <4>8. HeldOrder(made, marred, channel, s, box[s])'
        BY <4>5, <4>6, <4>7 DEF HeldOrder
      <4>9. AtRest(marred, box[s])' /\ ModeKept(s, box[s])'
        BY <1>2, <4>1, <4>2 DEF AtRest, ModeKept
      <4>10. QED BY <4>8, <4>9
    <3>3. QED BY <3>2 DEF BoxesInOrder
  <2>4. QED BY <2>2, <2>3
<1>13. QED BY <1>10, <1>11, <1>12 DEF OrderInv
-----------------------------------------------------------------------------
LEMMA PassedNext ==
  ASSUME NEW P, \A i \in 1..Len(acted') : acted'[i] \in P, \A j \in 1..Len(cdp') : cdp'[j].input \in P
  PROVE  \A e \in Passed' : e \in P
BY DEF Passed

LEMMA Booleans ==
  ASSUME NEW c \in Commands, NEW d \in Commands, c.metrics <=> d.metrics
  PROVE  c.metrics = d.metrics
<1>1. c.metrics \in BOOLEAN /\ d.metrics \in BOOLEAN
  BY DEF Commands
<1>2. QED BY <1>1

(* The first command leaves the queue, for the tab or, its viewport asked    *)
(* for, for the end of the queue, or it fails.                               *)
LEMMA CommandLeaves ==
  ASSUME IInv, OrderInv, cdp # <<>>, UNCHANGED <<session, bridge, box, made, channel, marred>>,
         NEW c \in Commands, c = Head(cdp),
         \/ acted' = acted /\ cdp' = Tail(cdp)
         \/ ~c.metrics /\ acted' = Append(acted, c.input) /\ cdp' = Tail(cdp)
         \/ c.metrics /\ acted' = acted /\ cdp' = Append(Tail(cdp), [c EXCEPT !.metrics = FALSE])
  PROVE  OrderInv'
<1> DEFINE rest == Tail(cdp)
           d == [c EXCEPT !.metrics = FALSE]
<1>1. /\ cdp \in Seq(Commands) /\ acted \in Seq(Frames) /\ CommandOrder
      /\ ChannelOrder(made, marred, channel) /\ BoxesInOrder
  BY DEF IInv, TypeOK, Commands, OrderInv
<1>2. /\ c = cdp[1] /\ 1 \in 1..Len(cdp)
      /\ rest \in Seq(Commands) /\ Len(cdp) \in Nat /\ Len(rest) = Len(cdp) - 1
      /\ \A i \in 1..Len(rest) : rest[i] = cdp[i + 1] /\ i + 1 \in 1..Len(cdp)
  BY <1>1, TailShape
<1> HIDE DEF rest
<1>3. d \in Commands /\ d.input = c.input /\ d.metrics = FALSE
  BY DEF Commands
<1> HIDE DEF d
<1>4. c.input \in Frames
  BY DEF Commands
<1>5. /\ \A m, e, h : InOrder(m, e, h)' <=> InOrder(m, e, h)
      /\ \A n, e : Born(n, e)' <=> Born(n, e)
      /\ \A e : IsAuth(e)' <=> IsAuth(e)
  BY DEF InOrder, Compared, Before, Urgent, Born, IsAuth
(* What is left of the queue is in the order it was in. *)
<1>6. /\ \A j \in 1..Len(rest) : rest[j].input \in Passed
      /\ \A j \in 1..Len(rest) : rest[j].metrics => rest[j].input.kind # "key"
      /\ \A i \in 1..Len(acted), j \in 1..Len(rest) : InOrder(marred, acted[i], rest[j].input)
      /\ \A i, j \in 1..Len(rest) :
           \/ i < j /\ rest[i].metrics = rest[j].metrics
           \/ ~rest[i].metrics /\ rest[j].metrics
           => InOrder(marred, rest[i].input, rest[j].input)
  <2>1. \A i, j \in 1..Len(rest) : i < j => i + 1 < j + 1
    BY <1>2
  <2>2. \A j \in 1..Len(rest) : rest[j].input \in Passed
    BY <1>2, PassedNow
  <2>3. /\ \A j \in 1..Len(rest) : rest[j].metrics => rest[j].input.kind # "key"
        /\ \A i \in 1..Len(acted), j \in 1..Len(rest) : InOrder(marred, acted[i], rest[j].input)
    BY <1>1, <1>2 DEF CommandOrder
  <2>4. ASSUME NEW i \in 1..Len(rest), NEW j \in 1..Len(rest),
               \/ i < j /\ rest[i].metrics = rest[j].metrics
               \/ ~rest[i].metrics /\ rest[j].metrics
        PROVE  InOrder(marred, rest[i].input, rest[j].input)
    <3>1. /\ i + 1 \in 1..Len(cdp) /\ j + 1 \in 1..Len(cdp)
          /\ rest[i] = cdp[i + 1] /\ rest[j] = cdp[j + 1]
      BY <1>2
    <3>2. \/ i + 1 < j + 1 /\ cdp[i + 1].metrics = cdp[j + 1].metrics
          \/ ~cdp[i + 1].metrics /\ cdp[j + 1].metrics
      BY <2>1, <2>4, <3>1
    <3>3. InOrder(marred, cdp[i + 1].input, cdp[j + 1].input)
      BY <1>1, <3>1, <3>2 DEF CommandOrder
    <3>4. QED BY <3>1, <3>3
  <2>5. QED BY <2>2, <2>3, <2>4
(* The first command against the rest of its kind. *)
<1>7. \A j \in 1..Len(rest) :
        rest[j].metrics = c.metrics \/ ~c.metrics => InOrder(marred, c.input, rest[j].input)
  <2>1. \A j \in 1..Len(rest) : 1 < j + 1
    BY <1>2
  <2>2. \A j \in 1..Len(cdp) :
          \/ 1 < j /\ cdp[1].metrics = cdp[j].metrics
          \/ ~cdp[1].metrics /\ cdp[j].metrics
          => InOrder(marred, cdp[1].input, cdp[j].input)
    BY <1>1, <1>2 DEF CommandOrder
  <2>3. \A j \in 1..Len(rest) : rest[j].metrics = c.metrics => InOrder(marred, c.input, rest[j].input)
    BY <1>2, <2>1, <2>2
  <2>4. \A j \in 1..Len(rest) :
          ~c.metrics /\ rest[j].metrics => InOrder(marred, c.input, rest[j].input)
    BY <1>2, <2>2
  <2>5. \A j \in 1..Len(rest) : ~c.metrics /\ ~rest[j].metrics => rest[j].metrics = c.metrics
    BY <1>2, Booleans
  <2>6. QED BY <2>3, <2>4, <2>5
<1>8. /\ c.input \in Passed /\ \A i \in 1..Len(acted) : InOrder(marred, acted[i], c.input)
      /\ (c.metrics => c.input.kind # "key")
  BY <1>1, <1>2, PassedNow DEF CommandOrder
<1>9. CASE acted' = acted /\ cdp' = rest
  <2>1. \A e \in Passed' : e \in Passed
    BY <1>6, <1>9, PassedNow DEF Passed
  <2>2. \A e \in Passed' : Born(made, e) /\ ~IsAuth(e)
    BY <1>1, <2>1 DEF CommandOrder
  <2>3. \A i, j \in 1..Len(acted) : i < j => InOrder(marred, acted[i], acted[j])
    BY <1>1 DEF CommandOrder
  <2>4. CommandOrder'
    BY <1>5, <1>6, <1>9, <2>2, <2>3 DEF CommandOrder
  <2>5. Taken
    BY <2>1 DEF Taken
  <2>6. BoxesInOrder'
    BY <1>1, <2>5, BoxesStay
  <2>7. ChannelOrder(made, marred, channel)'
    BY <1>1, <1>5, <2>1 DEF ChannelOrder
  <2>8. QED BY <2>4, <2>6, <2>7 DEF OrderInv
<1>10. CASE ~c.metrics /\ acted' = Append(acted, c.input) /\ cdp' = rest
  <2>1. /\ Len(acted') = Len(acted) + 1 /\ Len(acted) \in Nat /\ acted'[Len(acted) + 1] = c.input
        /\ \A i \in 1..Len(acted) : acted'[i] = acted[i]
        /\ \A i \in 1..Len(acted') : i \in 1..Len(acted) \/ i = Len(acted) + 1
    BY <1>1, <1>4, <1>10, AppendShape
  <2>2. \A e \in Passed' : e \in Passed
    <3>1. \A i \in 1..Len(acted') : acted'[i] \in Passed
      BY <1>8, <2>1, PassedNow
    <3>2. \A j \in 1..Len(cdp') : cdp'[j].input \in Passed
      BY <1>6, <1>10
    <3>3. QED BY <3>1, <3>2, PassedNext
  <2>3. \A e \in Passed' : Born(made, e) /\ ~IsAuth(e)
    BY <1>1, <2>2 DEF CommandOrder
  <2>4. ASSUME NEW i \in 1..Len(acted'), NEW j \in 1..Len(acted'), i < j
        PROVE  InOrder(marred, acted'[i], acted'[j])
    <3>1. i \in 1..Len(acted)
      BY <2>1, <2>4
    <3>2. CASE j \in 1..Len(acted)
      BY <1>1, <2>1, <2>4, <3>1, <3>2 DEF CommandOrder
    <3>3. CASE j = Len(acted) + 1
      BY <1>8, <2>1, <3>1, <3>3
    <3>4. QED BY <2>1, <3>2, <3>3
  <2>5. \A i \in 1..Len(acted'), j \in 1..Len(rest) : InOrder(marred, acted'[i], rest[j].input)
    BY <1>6, <1>7, <1>10, <2>1
  <2>6. CommandOrder'
    BY <1>5, <1>6, <1>10, <2>3, <2>4, <2>5 DEF CommandOrder
  <2>7. Taken
    BY <2>2 DEF Taken
  <2>8. BoxesInOrder'
    BY <1>1, <2>7, BoxesStay
  <2>9. ChannelOrder(made, marred, channel)'
    BY <1>1, <1>5, <2>2 DEF ChannelOrder
  <2>10. QED BY <2>6, <2>8, <2>9 DEF OrderInv
<1>11. CASE c.metrics /\ acted' = acted /\ cdp' = Append(rest, d)
  <2>1. /\ Len(cdp') = Len(rest) + 1 /\ Len(rest) \in Nat /\ cdp'[Len(rest) + 1] = d
        /\ \A i \in 1..Len(rest) : cdp'[i] = rest[i]
        /\ \A i \in 1..Len(cdp') : i \in 1..Len(rest) \/ i = Len(rest) + 1
    BY <1>2, <1>11, AppendShape
  <2>2. \A e \in Passed' : e \in Passed
    <3>1. \A i \in 1..Len(acted') : acted'[i] \in Passed
      BY <1>11, PassedNow
    <3>2. \A j \in 1..Len(cdp') : cdp'[j].input \in Passed
      BY <1>3, <1>6, <1>8, <2>1
    <3>3. QED BY <3>1, <3>2, PassedNext
  <2>3. \A e \in Passed' : Born(made, e) /\ ~IsAuth(e)
    BY <1>1, <2>2 DEF CommandOrder
  <2>4. \A j \in 1..Len(cdp') : cdp'[j].metrics => cdp'[j].input.kind # "key"
    BY <1>3, <1>6, <2>1
  <2>5. \A i \in 1..Len(acted), j \in 1..Len(cdp') : InOrder(marred, acted[i], cdp'[j].input)
    BY <1>3, <1>6, <1>8, <2>1
  <2>6. ASSUME NEW i \in 1..Len(cdp'), NEW j \in 1..Len(cdp'),
               \/ i < j /\ cdp'[i].metrics = cdp'[j].metrics
               \/ ~cdp'[i].metrics /\ cdp'[j].metrics
        PROVE  InOrder(marred, cdp'[i].input, cdp'[j].input)
    <3>1. CASE i \in 1..Len(rest) /\ j \in 1..Len(rest)
      BY <1>6, <2>1, <2>6, <3>1
    <3>2. CASE i \in 1..Len(rest) /\ j = Len(rest) + 1
      <4>1. ~rest[i].metrics /\ rest[i] = cdp[i + 1] /\ i + 1 \in 1..Len(cdp)
        BY <1>2, <1>3, <2>1, <2>6, <3>2
      <4>2. InOrder(marred, cdp[i + 1].input, cdp[1].input)
        BY <1>1, <1>2, <1>11, <4>1 DEF CommandOrder
      <4>3. QED BY <1>2, <1>3, <2>1, <3>2, <4>1, <4>2
    <3>3. CASE i = Len(rest) + 1 /\ j \in 1..Len(rest)
      <4>1. rest[j].metrics
        BY <1>3, <2>1, <2>6, <3>3
      <4>2. rest[j].metrics = c.metrics
        <5>1. rest[j] \in Commands
          BY <1>2, <3>3
        <5>2. QED BY <1>11, <4>1, <5>1, Booleans
      <4>3. QED BY <1>3, <1>7, <2>1, <3>3, <4>2
    <3>4. CASE i = Len(rest) + 1 /\ j = Len(rest) + 1
      BY <1>3, <2>1, <2>6, <3>4
    <3>5. QED BY <2>1, <3>1, <3>2, <3>3, <3>4
  <2>7. \A i, j \in 1..Len(acted) : i < j => InOrder(marred, acted[i], acted[j])
    BY <1>1 DEF CommandOrder
  <2>8. \A i, j \in 1..Len(cdp') :
          \/ i < j /\ cdp'[i].metrics = cdp'[j].metrics
          \/ ~cdp'[i].metrics /\ cdp'[j].metrics
          => InOrder(marred, cdp'[i].input, cdp'[j].input)
    BY <2>6
  <2>9. CommandOrder'
    BY <1>5, <1>11, <2>3, <2>4, <2>5, <2>7, <2>8 DEF CommandOrder
  <2>10. Taken
    BY <2>2 DEF Taken
  <2>11. BoxesInOrder'
    BY <1>1, <2>10, BoxesStay
  <2>12. ChannelOrder(made, marred, channel)'
    BY <1>1, <1>5, <2>2 DEF ChannelOrder
  <2>13. QED BY <2>9, <2>11, <2>12 DEF OrderInv
<1>12. QED BY <1>9, <1>10, <1>11 DEF rest, d

LEMMA DesktopOrder ==
  ASSUME IInv, OrderInv, Desktop
  PROVE  OrderInv'
<1>1. CASE begin \/ onPeerVerified \/ SessionEnds \/ teardownSession
  <2>1. /\ channel' = channel \/ channel' = <<>>
        /\ UNCHANGED <<session, bridge, box, made, marred, cdp, acted>>
    BY <1>1 DEF begin, onPeerVerified, SessionEnds, teardownSession, phoneVars, Drop
  <2>2. QED BY <2>1, QuietOrder
<1>2. CASE CommandDone \/ CommandFails
  <2>1. cdp # <<>> /\ UNCHANGED <<session, bridge, box, made, channel, marred>>
    BY <1>2 DEF CommandDone, CommandFails, phoneVars
  <2>2. PICK c \in Commands : c = Head(cdp)
    BY <2>1, TailShape DEF IInv, TypeOK, Commands
  <2>3. \/ acted' = acted /\ cdp' = Tail(cdp)
        \/ ~c.metrics /\ acted' = Append(acted, c.input) /\ cdp' = Tail(cdp)
        \/ c.metrics /\ acted' = acted /\ cdp' = Append(Tail(cdp), [c EXCEPT !.metrics = FALSE])
    BY <1>2, <2>2 DEF CommandDone, CommandFails
  <2>4. QED BY <2>1, <2>2, <2>3, CommandLeaves
<1>3. QED BY <1>1, <1>2, FrameOrder DEF Desktop
-----------------------------------------------------------------------------
LEMMA OrderedStep ==
  ASSUME IInv, OrderInv, [Next]_vars
  PROVE  OrderInv'
<1>1. CASE Drag \/ Scroll \/ Tap \/ sendKey \/ sendText \/ sendControlFrame
             \/ \E s \in Senders : MoveTimer(s) \/ WheelTimer(s) \/ RetryTimer(s)
  BY <1>1, SenderOrder
<1>2. CASE \E mode \in {"pointer", "scroll"} : Rerender(mode)
  BY <1>2, RerenderOrder
<1>3. CASE SessionAccepted
  BY <1>3, AcceptedOrder
<1>4. CASE ChannelOpens \/ ChannelLost \/ Disconnect \/ UNCHANGED vars
  <2>1. /\ channel' = channel \/ channel' = <<>>
        /\ UNCHANGED <<session, bridge, box, made, marred, cdp, acted>>
    BY <1>4 DEF ChannelOpens, ChannelLost, Disconnect, Drop, deskVars, vars
  <2>2. QED BY <2>1, QuietOrder
<1>5. QED BY <1>1, <1>2, <1>3, <1>4, DesktopOrder DEF Next, Phone

LEMMA InitIsOrdered == Init => OrderInv
<1> SUFFICES ASSUME Init PROVE OrderInv
  OBVIOUS
<1>1. /\ acted = <<>> /\ cdp = <<>> /\ channel = <<>> /\ Passed = {}
  BY DEF Init, Passed
<1>2. CommandOrder /\ ChannelOrder(made, marred, channel)
  BY <1>1 DEF CommandOrder, ChannelOrder
<1>3. \A s \in Senders : box[s].queue = <<>> /\ box[s].move = NoInput /\ box[s].wheel = NoInput
  BY DEF Init, NewBox
<1>4. BoxesInOrder
  BY <1>3 DEF BoxesInOrder, HeldOrder, AtRest, ModeKept, Empty
<1>5. QED BY <1>2, <1>4 DEF OrderInv

LEMMA InductiveInOrder == Spec => []OrderInv
<1>1. IInv /\ OrderInv /\ [Next]_vars => OrderInv'
  BY OrderedStep
<1>2. QED BY <1>1, InitIsOrdered, InductiveInTurn, PTL DEF Spec

LEMMA ActedFrames ==
  ASSUME IInv, OrderInv, NEW i \in 1..Len(acted)
  PROVE  acted[i].from \in Senders
<1>1. acted[i] \in Passed
  BY PassedNow
<1>2. QED BY <1>1 DEF OrderInv, CommandOrder, Born

(* Keys and buttons reach the tab in the order in which the user made them,  *)
(* each at most once, whatever the channel refuses and however often the     *)
(* session is made again (sendUrgent, flushUrgent, CdpInputAdapter.send).    *)
THEOREM UrgentAlwaysOrdered == Spec => []UrgentOrder
<1>1. IInv /\ OrderInv => UrgentOrder
  <2> SUFFICES ASSUME IInv, OrderInv, NEW i \in 1..Len(acted), NEW j \in 1..Len(acted), i < j,
                      Urgent(acted[i]), Urgent(acted[j]), acted[i].from = acted[j].from
               PROVE  Before(acted[i], acted[j])
    BY DEF UrgentOrder
  <2>1. InOrder(marred, acted[i], acted[j])
    BY DEF OrderInv, CommandOrder
  <2>2. QED BY <2>1, ActedFrames DEF InOrder, Compared
<1>2. QED BY <1>1, InductiveInTurn, InductiveInOrder, PTL

(* In a session in which no numbered frame is refused or lost, moves and     *)
(* wheels keep the user's order too, and a click lands after the move made   *)
(* before it (flushMove, flushWheel, handleFrame).                           *)
THEOREM EveryAlwaysOrdered == Spec => []EveryOrder
<1>1. IInv /\ OrderInv => EveryOrder
  <2> SUFFICES ASSUME IInv, OrderInv, ~marred,
                      NEW i \in 1..Len(acted), NEW j \in 1..Len(acted), i < j,
                      acted[i].from = acted[j].from, acted[i].at = session, acted[j].at = session
               PROVE  Before(acted[i], acted[j])
    BY DEF EveryOrder
  <2>1. InOrder(marred, acted[i], acted[j])
    BY DEF OrderInv, CommandOrder
  <2>2. QED BY <2>1, ActedFrames DEF InOrder, Compared
<1>2. QED BY <1>1, InductiveInTurn, InductiveInOrder, PTL
=============================================================================
