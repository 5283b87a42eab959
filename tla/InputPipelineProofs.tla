------------------------ MODULE InputPipelineProofs ------------------------
(* Theorems about InputPipeline, for any number of touch bridges, sessions   *)
(* and inputs and for a channel of any capacity.                             *)
EXTENDS InputPipeline, TLAPS

USE SendersAssumption, BoundsAssumption
-----------------------------------------------------------------------------
Boxes == [move: Inputs, wheel: Inputs, queue: Seq(Items),
          timers: SUBSET {"move", "wheel", "retry"}]
Turns == [seq: Nat, channel: Seq(Frames), marred: BOOLEAN, box: Boxes]

Desks == [active: 0..MaxSessions, armed: BOOLEAN, last: Nat, attached: BOOLEAN,
          phase: {"waiting", "proved", "active"}, tearing: BOOLEAN]
Commands == [metrics: BOOLEAN, input: Frames]

(* A turn of the right type, its channel within the buffer. *)
TurnOK(t) == t \in Turns /\ Len(t.channel) <= MaxBuffered + 1

(* What a turn keeps while nothing is refused: no item waits with a number,  *)
(* and the channel holds exactly the numbers that the guard expects next.    *)
Fresh(t) == \A i \in 1..Len(t.box.queue) : ~Encoded(t.box.queue[i])
Contiguous(t) ==
  chan # "closed" =>
    /\ \A i \in 1..Len(t.channel) :
         t.channel[i].session = desk.active /\ t.channel[i].seq = desk.last + i
    /\ t.seq = desk.last + Len(t.channel)
InTurn(t) ==
  /\ ~t.marred => ~marred /\ Fresh(t) /\ Contiguous(t)
  /\ chan = "closed" => t.channel = <<>>

-----------------------------------------------------------------------------
(* The strengthening of NumbersInTurn: the two ends agree on the session     *)
(* while there is a channel, a closed channel is empty, an unarmed guard is  *)
(* at zero, and in a session in which nothing was refused no sender holds    *)
(* an item with a number and the channel is contiguous.                      *)
SameSession == chan # "closed" => desk.active = session
ClosedIsEmpty == chan = "closed" => channel = <<>>
UnarmedAtZero == ~desk.armed => desk.last = 0
NothingWaits == \A s \in Senders : \A i \in 1..Len(box[s].queue) : ~Encoded(box[s].queue[i])
AllInTurn ==
  chan # "closed" =>
    /\ \A i \in 1..Len(channel) :
         channel[i].session = desk.active /\ channel[i].seq = desk.last + i
    /\ seq = desk.last + Len(channel)

IInv ==
  /\ TypeOK
  /\ SameSession
  /\ ClosedIsEmpty
  /\ UnarmedAtZero
  /\ ~marred => NothingWaits /\ AllInTurn
-----------------------------------------------------------------------------
LEMMA SmallerOfTwo ==
  ASSUME NEW a \in Nat, NEW b \in Nat
  PROVE  Min({a, b}) = IF a <= b THEN a ELSE b
<1> DEFINE P(x) == x \in {a, b} /\ \A y \in {a, b} : x <= y
<1>1. \A x : P(x) => x = IF a <= b THEN a ELSE b
  OBVIOUS
<1>2. P(IF a <= b THEN a ELSE b)
  OBVIOUS
<1>3. QED BY <1>1, <1>2 DEF Min

LEMMA SequenceTypes ==
  ASSUME NEW S, NEW q \in Seq(S)
  PROVE  /\ \A e \in S : Append(q, e) \in Seq(S)
         /\ q # <<>> => Head(q) \in S /\ Tail(q) \in Seq(S)
OBVIOUS

LEMMA RoomIsNat ==
  ASSUME NEW t \in Turns
  PROVE  Room(t) \in Nat /\ (Room(t) > 0 => chan = "open" /\ Len(t.channel) + Room(t) = MaxBuffered + 1)
BY DEF Room, Turns

LEMMA FrameType ==
  ASSUME TypeOK, NEW s \in Senders \cup {"handshake"}, NEW kind \in Kinds, NEW n \in Nat, NEW i \in Inputs
  PROVE  Frame(s, kind, n, i) \in Frames
BY DEF Frame, Frames, Inputs, TypeOK

LEMMA NoInputType == NoInput \in Inputs
BY DEF NoInput, Inputs

(* sendControl appends the frame or refuses it. *)
LEMMA SendControlType ==
  ASSUME NEW t, TurnOK(t), NEW f \in Frames
  PROVE  TurnOK(sendControl(t, f))
<1>1. t \in Turns
  BY DEF TurnOK
<1>2. CASE Room(t) > 0
  <2>1. Len(t.channel) + 1 <= MaxBuffered + 1
    BY <1>1, <1>2, RoomIsNat DEF Turns
  <2>2. Append(t.channel, f) \in Seq(Frames) /\ Len(Append(t.channel, f)) = Len(t.channel) + 1
    BY <1>1 DEF Turns
  <2>3. sendControl(t, f) = [t EXCEPT !.channel = Append(t.channel, f)]
    BY <1>2 DEF sendControl
  <2>4. QED BY <1>1, <2>1, <2>2, <2>3 DEF TurnOK, Turns
<1>3. CASE ~(Room(t) > 0)
  BY <1>1, <1>3 DEF TurnOK, Turns, sendControl
<1>4. QED BY <1>2, <1>3

(* A frame that takes the next number goes in its turn, or the turn is marred. *)
LEMMA SendControlInTurn ==
  ASSUME TypeOK, SameSession, NEW t, TurnOK(t), InTurn(t), NEW f \in Frames,
         f.session = session, f.seq = t.seq + 1,
         NEW u, u \in Turns, u.seq = t.seq + 1, u.channel = t.channel, u.marred = t.marred,
         u.box.queue = t.box.queue
  PROVE  InTurn(sendControl(u, f))
<1> DEFINE v == sendControl(u, f)
<1>1. t \in Turns /\ desk.last \in Nat
  BY DEF TurnOK, TypeOK
<1>2. CASE Room(u) > 0
  <2>1. chan = "open"
    BY <1>2, RoomIsNat
  <2>2. v = [u EXCEPT !.channel = Append(t.channel, f)]
    BY <1>2 DEF sendControl
  <2>3. /\ v.seq = t.seq + 1 /\ v.marred = t.marred /\ v.box.queue = t.box.queue
        /\ v.channel = Append(t.channel, f)
    BY <2>2 DEF Turns
  <2>4. /\ Len(v.channel) = Len(t.channel) + 1 /\ v.channel[Len(t.channel) + 1] = f
        /\ \A i \in 1..Len(t.channel) : v.channel[i] = t.channel[i]
    BY <1>1, <2>3 DEF Turns
  <2>5. ASSUME ~v.marred
        PROVE  ~marred /\ Fresh(v) /\ Contiguous(v)
    <3>1. ~marred /\ Fresh(t) /\ Contiguous(t)
      BY <2>3, <2>5 DEF InTurn
    <3>2. Fresh(v)
      BY <2>3, <3>1 DEF Fresh
    <3>3. desk.active = session
      BY <2>1 DEF SameSession
    <3>4. t.seq = desk.last + Len(t.channel) /\ t.seq \in Nat /\ Len(t.channel) \in Nat
      BY <1>1, <2>1, <3>1 DEF Contiguous, Turns
    <3>5. \A i \in 1..Len(v.channel) :
            v.channel[i].session = desk.active /\ v.channel[i].seq = desk.last + i
      <4> SUFFICES ASSUME NEW i \in 1..Len(v.channel)
                   PROVE  v.channel[i].session = desk.active /\ v.channel[i].seq = desk.last + i
        OBVIOUS
      <4> HIDE DEF v
      <4>1. CASE i = Len(t.channel) + 1
        <5>1. v.channel[i] = f
          BY <2>4, <4>1
        <5>2. f.seq = desk.last + i
          BY <1>1, <3>4, <4>1
        <5>3. QED BY <3>3, <5>1, <5>2
      <4>2. CASE i \in 1..Len(t.channel)
        BY <2>1, <2>4, <3>1, <4>2 DEF Contiguous
      <4>3. i = Len(t.channel) + 1 \/ i \in 1..Len(t.channel)
        BY <2>4, <3>4
      <4>4. QED BY <4>1, <4>2, <4>3
    <3>6. v.seq = desk.last + Len(v.channel)
      BY <1>1, <2>3, <2>4, <3>4
    <3>7. QED BY <3>1, <3>2, <3>5, <3>6 DEF Contiguous
  <2>6. QED BY <2>1, <2>5 DEF InTurn
<1>3. CASE ~(Room(u) > 0)
  <2>1. v = [u EXCEPT !.marred = TRUE]
    BY <1>3 DEF sendControl
  <2>2. v.marred /\ v.channel = t.channel
    BY <2>1 DEF Turns
  <2>3. QED BY <2>2 DEF InTurn
<1>4. QED BY <1>2, <1>3

(* flushMove and flushWheel keep what a turn must keep. *)
LEMMA FlushMoveInTurn ==
  ASSUME TypeOK, SameSession, NEW s \in Senders, NEW t, TurnOK(t), InTurn(t)
  PROVE  TurnOK(flushMove(s, t)) /\ InTurn(flushMove(s, t))
<1> DEFINE u == [t EXCEPT !.box.move = NoInput]
           w == [t EXCEPT !.seq = @ + 1, !.box.move = NoInput]
           f == Frame(s, "move", t.seq + 1, t.box.move)
<1>1. t \in Turns
  BY DEF TurnOK
<1>2. CASE t.box.move = NoInput \/ ~live
  <2>1. flushMove(s, t) = u
    BY <1>2 DEF flushMove
  <2>2. u \in Turns /\ u.seq = t.seq /\ u.channel = t.channel /\ u.marred = t.marred
        /\ u.box.queue = t.box.queue
    BY <1>1, NoInputType DEF Turns, Boxes
  <2>3. QED BY <2>1, <2>2 DEF TurnOK, InTurn, Fresh, Contiguous
<1>3. CASE ~(t.box.move = NoInput \/ ~live)
  <2>1. flushMove(s, t) = sendControl(w, f)
    BY <1>3 DEF flushMove
  <2>2. /\ w \in Turns /\ w.seq = t.seq + 1 /\ w.channel = t.channel /\ w.marred = t.marred
        /\ w.box.queue = t.box.queue
    <3>1. t.seq + 1 \in Nat /\ t.box \in Boxes
      BY <1>1 DEF Turns
    <3>2. /\ [t.box EXCEPT !.move = NoInput] \in Boxes
          /\ [t.box EXCEPT !.move = NoInput].queue = t.box.queue
      BY <3>1, NoInputType DEF Boxes
    <3>3. w = [[t EXCEPT !.seq = t.seq + 1] EXCEPT !.box = [t.box EXCEPT !.move = NoInput]]
      BY <1>1 DEF Turns
    <3>4. QED BY <1>1, <3>1, <3>2, <3>3 DEF Turns
  <2>3. f \in Frames
    BY <1>1, FrameType DEF Turns, Boxes, Kinds
  <2>4. f.session = session /\ f.seq = t.seq + 1
    BY DEF Frame
  <2>5. TurnOK(w)
    BY <2>2 DEF TurnOK
  <2> HIDE DEF w, f
  <2>6. TurnOK(sendControl(w, f))
    BY <2>3, <2>5, SendControlType
  <2>7. InTurn(sendControl(w, f))
    BY <2>2, <2>3, <2>4, SendControlInTurn
  <2>8. QED BY <2>1, <2>6, <2>7
<1>4. QED BY <1>2, <1>3

LEMMA FlushWheelInTurn ==
  ASSUME TypeOK, SameSession, NEW s \in Senders, NEW t, TurnOK(t), InTurn(t)
  PROVE  TurnOK(flushWheel(s, t)) /\ InTurn(flushWheel(s, t))
<1> DEFINE u == [t EXCEPT !.box.wheel = NoInput]
           left == IF Room(t) > 0 THEN NoInput ELSE t.box.wheel
           w == [t EXCEPT !.seq = @ + 1, !.box.wheel = left]
           f == Frame(s, "wheel", t.seq + 1, t.box.wheel)
<1>1. t \in Turns
  BY DEF TurnOK
<1>2. CASE t.box.wheel = NoInput \/ ~live
  <2>1. flushWheel(s, t) = u
    BY <1>2 DEF flushWheel
  <2>2. u \in Turns /\ u.seq = t.seq /\ u.channel = t.channel /\ u.marred = t.marred
        /\ u.box.queue = t.box.queue
    BY <1>1, NoInputType DEF Turns, Boxes
  <2>3. QED BY <2>1, <2>2 DEF TurnOK, InTurn, Fresh, Contiguous
<1>3. CASE ~(t.box.wheel = NoInput \/ ~live)
  <2>1. flushWheel(s, t) = sendControl(w, f)
    BY <1>1, <1>3 DEF flushWheel, Turns, Boxes
  <2>2. left \in Inputs
    BY <1>1, NoInputType DEF Turns, Boxes
  <2>3. /\ w \in Turns /\ w.seq = t.seq + 1 /\ w.channel = t.channel /\ w.marred = t.marred
        /\ w.box.queue = t.box.queue
    <3> HIDE DEF left
    <3>1. t.seq + 1 \in Nat /\ t.box \in Boxes
      BY <1>1 DEF Turns
    <3>2. /\ [t.box EXCEPT !.wheel = left] \in Boxes
          /\ [t.box EXCEPT !.wheel = left].queue = t.box.queue
      BY <2>2, <3>1 DEF Boxes
    <3>3. w = [[t EXCEPT !.seq = t.seq + 1] EXCEPT !.box = [t.box EXCEPT !.wheel = left]]
      BY <1>1 DEF Turns
    <3>4. QED BY <1>1, <3>1, <3>2, <3>3 DEF Turns
  <2>4. f \in Frames
    BY <1>1, FrameType DEF Turns, Boxes, Kinds
  <2>5. f.session = session /\ f.seq = t.seq + 1
    BY DEF Frame
  <2>6. TurnOK(w)
    BY <2>3 DEF TurnOK
  <2> HIDE DEF w, f
  <2>7. TurnOK(sendControl(w, f))
    BY <2>4, <2>6, SendControlType
  <2>8. InTurn(sendControl(w, f))
    BY <2>3, <2>4, <2>5, SendControlInTurn
  <2>9. QED BY <2>1, <2>7, <2>8
<1>4. QED BY <1>2, <1>3

LEMMA BoxUpdate ==
  ASSUME NEW b \in Boxes, NEW k \in Seq(Items), NEW ti \in SUBSET {"move", "wheel", "retry"}
  PROVE  /\ [b EXCEPT !.queue = k, !.timers = ti] \in Boxes
         /\ [b EXCEPT !.queue = k, !.timers = ti].queue = k
BY DEF Boxes

(* flushUrgent: what leaves takes the next numbers, one after the other, and *)
(* what stays mars the turn.                                                 *)
LEMMA FlushUrgentInTurn ==
  ASSUME TypeOK, SameSession, NEW s \in Senders, NEW t, TurnOK(t), InTurn(t)
  PROVE  TurnOK(flushUrgent(s, t)) /\ InTurn(flushUrgent(s, t))
<1> DEFINE q == t.box.queue
           kept == IF q # <<>> /\ Encoded(q[1]) THEN 1 ELSE 0
           sent == Min({Room(t), Len(q)})
           tried == Min({sent + 1, Len(q)})
           Coded(i) == IF i <= kept THEN q[i] ELSE Encode(q[i], t.seq + i - kept)
           rest == IF live
                   THEN [i \in 1..(Len(q) - sent) |->
                           IF i = 1 THEN Coded(sent + 1) ELSE q[sent + i]]
                   ELSE IF kept = 1 THEN q ELSE <<>>
           timers2 == IF rest # <<>> THEN t.box.timers \cup {"retry"} ELSE t.box.timers
           new == [i \in 1..sent |-> UrgentFrame(s, Coded(i))]
           v == [t EXCEPT !.seq = IF live THEN @ + tried - kept ELSE @,
                          !.channel = IF live THEN @ \o new ELSE @,
                          !.marred = @ \/ rest # <<>>,
                          !.box = [t.box EXCEPT !.queue = rest, !.timers = timers2]]
<1>1. flushUrgent(s, t) = v
  BY DEF flushUrgent
<1>2. t \in Turns /\ t.seq \in Nat /\ t.channel \in Seq(Frames) /\ t.marred \in BOOLEAN
      /\ t.box \in Boxes /\ Len(t.channel) <= MaxBuffered + 1
  BY DEF TurnOK, Turns
<1>3. q \in Seq(Items) /\ Len(q) \in Nat /\ (q = <<>> <=> Len(q) = 0)
      /\ \A i \in 1..Len(q) : q[i] \in Items
  BY <1>2 DEF Boxes
<1>4. Room(t) \in Nat
      /\ (Room(t) > 0 => chan = "open" /\ Len(t.channel) + Room(t) = MaxBuffered + 1)
  BY <1>2, RoomIsNat
<1>5. sent \in Nat /\ sent <= Room(t) /\ sent <= Len(q) /\ (sent = Room(t) \/ sent = Len(q))
  <2>1. sent = IF Room(t) <= Len(q) THEN Room(t) ELSE Len(q)
    BY <1>3, <1>4, SmallerOfTwo
  <2> HIDE DEF sent, q
  <2>2. QED BY <1>3, <1>4, <2>1
<1> HIDE DEF sent
<1>6. tried \in Nat /\ tried <= Len(q) /\ tried = IF sent + 1 <= Len(q) THEN sent + 1 ELSE Len(q)
  BY <1>3, <1>5, SmallerOfTwo
<1> HIDE DEF tried
<1>7. kept \in {0, 1} /\ kept <= tried /\ (kept = 1 => Len(q) > 0 /\ Encoded(q[1]))
  BY <1>3, <1>5, <1>6
<1> HIDE DEF kept
<1>8. \A i \in 1..tried : Coded(i) \in Items
  <2> SUFFICES ASSUME NEW i \in 1..tried
               PROVE  Coded(i) \in Items
    OBVIOUS
  <2>1. i \in 1..Len(q) /\ q[i] \in Items
    BY <1>3, <1>6
  <2> HIDE DEF q
  <2>2. CASE i <= kept
    BY <2>1, <2>2
  <2>3. CASE ~(i <= kept)
    <3>1. t.seq + i - kept \in Nat
      BY <1>2, <1>7, <2>1, <2>3
    <3>2. session \in 0..MaxSessions
      BY DEF TypeOK
    <3>3. Encode(q[i], t.seq + i - kept) \in Items
      BY <2>1, <3>1, <3>2 DEF Encode, Items
    <3>4. QED BY <2>3, <3>3
  <2>4. QED BY <2>2, <2>3
<1>9. \A i \in 1..tried : UrgentFrame(s, Coded(i)) \in Frames
  <2> HIDE DEF Coded
  <2>1. \A it \in Items : UrgentFrame(s, it) \in Frames
    BY DEF UrgentFrame, Items, Frames
  <2>2. QED BY <1>8, <2>1
<1>10. new \in Seq(Frames) /\ Len(new) = sent
  <2> HIDE DEF Coded, q
  <2>1. \A i \in 1..sent : UrgentFrame(s, Coded(i)) \in Frames
    BY <1>3, <1>5, <1>6, <1>9
  <2>2. QED BY <1>5, <2>1
<1>11. rest \in Seq(Items)
  <2> HIDE DEF Coded, q
  <2>1. CASE live
    <3> DEFINE Rest(i) == IF i = 1 THEN Coded(sent + 1) ELSE q[sent + i]
    <3>1. Len(q) - sent \in Nat
      BY <1>3, <1>5
    <3>2. \A i \in 1..(Len(q) - sent) : Rest(i) \in Items
      <4> SUFFICES ASSUME NEW i \in 1..(Len(q) - sent)
                   PROVE  Rest(i) \in Items
        OBVIOUS
      <4>1. sent + i \in 1..Len(q) /\ sent + 1 \in 1..tried
        BY <1>3, <1>5, <1>6, <3>1
      <4>2. QED BY <1>3, <1>8, <4>1
    <3> HIDE DEF Rest
    <3>3. [i \in 1..(Len(q) - sent) |-> Rest(i)] \in Seq(Items)
      BY <3>1, <3>2
    <3>4. QED BY <2>1, <3>3 DEF Rest
  <2>2. CASE ~live
    BY <1>3, <2>2
  <2>3. QED BY <2>1, <2>2
<1> DEFINE seq2 == IF live THEN t.seq + tried - kept ELSE t.seq
           channel2 == IF live THEN t.channel \o new ELSE t.channel
<1> HIDE DEF rest, new
<1>12. seq2 \in Nat
  <2> HIDE DEF q
  <2> QED BY <1>2, <1>6, <1>7
<1>13. channel2 \in Seq(Frames) /\ Len(channel2) = IF live THEN Len(t.channel) + sent ELSE Len(t.channel)
  BY <1>2, <1>10
<1>14. Len(channel2) <= MaxBuffered + 1
  <2>1. Len(t.channel) \in Nat
    BY <1>2
  <2> HIDE DEF channel2, q
  <2> QED BY <1>2, <1>4, <1>5, <1>13, <2>1
<1>15. v \in Turns /\ v.seq = seq2 /\ v.channel = channel2 /\ v.marred = (t.marred \/ rest # <<>>)
       /\ v.box.queue = rest
  <2> DEFINE box2 == [t.box EXCEPT !.queue = rest, !.timers = timers2]
  <2>1. timers2 \in SUBSET {"move", "wheel", "retry"}
    BY <1>2 DEF Boxes
  <2>2. (t.marred \/ rest # <<>>) \in BOOLEAN
    OBVIOUS
  <2> HIDE DEF timers2
  <2>3. box2 \in Boxes /\ box2.queue = rest
    <3>1. PICK b \in Boxes : b = t.box
      BY <1>2
    <3>2. PICK ti \in SUBSET {"move", "wheel", "retry"} : ti = timers2
      BY <2>1
    <3>3. PICK k \in Seq(Items) : k = rest
      BY <1>11
    <3>4. [b EXCEPT !.queue = k, !.timers = ti] \in Boxes /\ [b EXCEPT !.queue = k, !.timers = ti].queue = k
      BY BoxUpdate
    <3>5. QED BY <3>1, <3>2, <3>3, <3>4
  <2>4. v = [t EXCEPT !.seq = seq2, !.channel = channel2, !.marred = t.marred \/ rest # <<>>,
                      !.box = box2]
    OBVIOUS
  <2> HIDE DEF box2, v, seq2, channel2
  <2>5. QED BY <1>2, <1>12, <1>13, <2>2, <2>3, <2>4 DEF Turns
<1> HIDE DEF v
<1>16. TurnOK(v)
  BY <1>15, <1>14 DEF TurnOK
<1>17. ASSUME ~v.marred
       PROVE  ~marred /\ Fresh(v) /\ Contiguous(v)
  <2>1. ~t.marred /\ rest = <<>> /\ v.box.queue = <<>> /\ v.seq = seq2 /\ v.channel = channel2
    BY <1>15, <1>17
  <2>2. ~marred /\ Fresh(t) /\ Contiguous(t)
    BY <2>1 DEF InTurn
  <2>3. Fresh(v)
    BY <2>1 DEF Fresh
  <2>4. kept = 0
    <3>1. 1 \in 1..Len(t.box.queue) => ~Encoded(t.box.queue[1])
      BY <2>2 DEF Fresh
    <3>2. QED BY <1>3, <1>7, <3>1
  <2>5. CASE live
    <3>1. sent = Len(q)
      <4>1. Len(rest) = Len(q) - sent
        BY <1>3, <1>5, <2>5 DEF rest
      <4>2. QED BY <1>3, <1>5, <2>1, <4>1
    <3>2. tried = sent
      BY <1>3, <1>6, <3>1
    <3>3. seq2 = t.seq + sent
      BY <1>2, <1>5, <2>4, <2>5, <3>2
    <3>4. \A i \in 1..sent : new[i].session = session /\ new[i].seq = t.seq + i
      <4> HIDE DEF q
      <4> SUFFICES ASSUME NEW i \in 1..sent
                   PROVE  new[i].session = session /\ new[i].seq = t.seq + i
        OBVIOUS
      <4>1. new[i] = UrgentFrame(s, Encode(q[i], t.seq + i - 0))
        BY <1>5, <2>4 DEF new
      <4>2. q[i] \in Items
        BY <1>3, <3>1
      <4>3. t.seq + i - 0 = t.seq + i
        BY <1>2, <1>5
      <4>4. QED BY <4>1, <4>2, <4>3 DEF UrgentFrame, Encode, Items
    <3>5. Contiguous(v)
      <4> SUFFICES ASSUME chan # "closed"
                   PROVE  /\ \A i \in 1..Len(v.channel) : v.channel[i].session = desk.active
                                                          /\ v.channel[i].seq = desk.last + i
                          /\ v.seq = desk.last + Len(v.channel)
        BY DEF Contiguous
      <4>1. desk.active = session /\ desk.last \in Nat
        BY DEF SameSession, TypeOK
      <4>2. /\ \A i \in 1..Len(t.channel) :
                 t.channel[i].session = desk.active /\ t.channel[i].seq = desk.last + i
            /\ t.seq = desk.last + Len(t.channel)
        BY <2>2 DEF Contiguous
      <4>3. v.channel = t.channel \o new
        BY <2>1, <2>5
      <4>4. Len(t.channel) \in Nat /\ Len(v.channel) = Len(t.channel) + sent
        BY <1>2, <1>13, <2>1, <2>5
      <4>5. ASSUME NEW i \in 1..Len(v.channel)
            PROVE  v.channel[i].session = desk.active /\ v.channel[i].seq = desk.last + i
        <5>1. CASE i \in 1..Len(t.channel)
          <6>1. v.channel[i] = t.channel[i]
            BY <1>2, <1>10, <4>3, <5>1
          <6>2. QED BY <4>2, <5>1, <6>1
        <5>2. CASE i \notin 1..Len(t.channel)
          <6> DEFINE j == i - Len(t.channel)
          <6>1. j \in 1..sent /\ i = Len(t.channel) + j
            BY <1>5, <4>4, <4>5, <5>2
          <6>2. v.channel[i] = new[j]
            BY <1>2, <1>10, <4>3, <6>1
          <6> HIDE DEF j
          <6>3. new[j].session = session /\ new[j].seq = t.seq + j
            BY <3>4, <6>1
          <6>4. t.seq + j = desk.last + i
            BY <1>5, <4>1, <4>2, <4>4, <6>1
          <6>5. QED BY <4>1, <6>2, <6>3, <6>4
        <5>3. QED BY <5>1, <5>2
      <4>6. v.seq = desk.last + Len(v.channel)
        BY <1>5, <2>1, <3>3, <4>1, <4>2, <4>4
      <4>7. QED BY <4>5, <4>6
    <3>6. QED BY <2>2, <2>3, <3>5
  <2>6. CASE ~live
    <3>1. v.seq = t.seq /\ v.channel = t.channel
      BY <2>1, <2>6
    <3>2. QED BY <2>2, <2>3, <3>1 DEF Contiguous
  <2>7. QED BY <2>5, <2>6
<1>18. ASSUME chan = "closed"
       PROVE  v.channel = <<>>
  <2>1. t.channel = <<>> /\ sent = 0
    BY <1>4, <1>5, <1>18 DEF InTurn
  <2>2. t.channel \o new = <<>>
    BY <1>2, <1>10, <2>1
  <2>3. QED BY <1>15, <2>1, <2>2
<1>19. QED BY <1>1, <1>16, <1>17, <1>18 DEF InTurn

(* sendUrgent queues the parts of a new input before it flushes. *)
LEMMA SendUrgentInTurn ==
  ASSUME TypeOK, SameSession, made < MaxInputs, NEW s \in Senders, NEW kind \in Kinds,
         NEW parts \in 1..2, NEW t, TurnOK(t), InTurn(t)
  PROVE  TurnOK(sendUrgent(s, kind, parts, t)) /\ InTurn(sendUrgent(s, kind, parts, t))
<1> DEFINE item(n) == [id |-> made + 1, at |-> session, kind |-> kind, part |-> n,
                       frame |-> [session |-> 0, seq |-> 0]]
           added == [n \in 1..parts |-> item(n)]
           u == [t EXCEPT !.box.queue = @ \o added]
<1>1. t \in Turns /\ t.box \in Boxes /\ t.box.queue \in Seq(Items)
  BY DEF TurnOK, Turns, Boxes
<1>2. added \in Seq(Items) /\ Len(added) = parts
  <2>1. \A n \in 1..parts : item(n) \in Items
    BY DEF Items, TypeOK
  <2> HIDE DEF item
  <2>2. QED BY <2>1
<1>3. \A n \in 1..parts : ~Encoded(added[n])
  BY DEF Encoded
<1> HIDE DEF added
<1>4. /\ t.box.queue \o added \in Seq(Items)
      /\ \A i \in 1..Len(t.box.queue \o added) :
           \/ (t.box.queue \o added)[i] = t.box.queue[i] /\ i \in 1..Len(t.box.queue)
           \/ \E n \in 1..parts : (t.box.queue \o added)[i] = added[n]
  <2> DEFINE q == t.box.queue
  <2>1. q \in Seq(Items)
    BY <1>1
  <2> HIDE DEF q
  <2>2. q \o added \in Seq(Items) /\ Len(q \o added) = Len(q) + parts
    BY <1>2, <2>1
  <2>3. ASSUME NEW i \in 1..Len(q \o added)
        PROVE  \/ (q \o added)[i] = q[i] /\ i \in 1..Len(q)
               \/ \E n \in 1..parts : (q \o added)[i] = added[n]
    <3>1. CASE i <= Len(q)
      BY <1>2, <2>1, <3>1
    <3>2. CASE ~(i <= Len(q))
      <4>1. i - Len(q) \in 1..parts /\ (q \o added)[i] = added[i - Len(q)]
        BY <1>2, <2>1, <2>2, <2>3, <3>2
      <4>2. QED BY <4>1
    <3>3. QED BY <3>1, <3>2
  <2>4. QED BY <2>2, <2>3 DEF q
<1>5. /\ u \in Turns /\ u.seq = t.seq /\ u.channel = t.channel /\ u.marred = t.marred
      /\ u.box.queue = t.box.queue \o added
  <2>1. PICK k \in Seq(Items) : k = t.box.queue \o added
    BY <1>4
  <2>2. [t EXCEPT !.box.queue = k] \in Turns /\ [t EXCEPT !.box.queue = k].box.queue = k
    BY <1>1 DEF Turns, Boxes
  <2>3. u = [t EXCEPT !.box.queue = k]
    BY <2>1
  <2>4. QED BY <1>1, <2>1, <2>2, <2>3 DEF Turns
<1>6. TurnOK(u)
  BY <1>5 DEF TurnOK
<1>7. InTurn(u)
  <2>1. ASSUME Fresh(t)
        PROVE  Fresh(u)
    BY <1>3, <1>4, <1>5, <2>1 DEF Fresh
  <2>2. QED BY <1>5, <2>1 DEF InTurn, Contiguous
<1>8. sendUrgent(s, kind, parts, t) = flushUrgent(s, u)
  BY DEF sendUrgent, added
<1> HIDE DEF u
<1>9. QED BY <1>6, <1>7, <1>8, FlushUrgentInTurn
-----------------------------------------------------------------------------
(* A sender's turn as the invariant gives it, its timer fired or not. *)
LEMMA TurnIsInTurn ==
  ASSUME IInv, NEW s \in Senders
  PROVE  TurnOK(Turn(s)) /\ InTurn(Turn(s))
<1>1. Turn(s) \in Turns
  BY DEF IInv, TypeOK, Turn, Turns, Boxes
<1>2. QED BY <1>1 DEF IInv, TypeOK, TurnOK, Turn, InTurn, Fresh, Contiguous, NothingWaits,
                      AllInTurn, ClosedIsEmpty

LEMMA FiresInTurn ==
  ASSUME IInv, NEW s \in Senders, NEW timer
  PROVE  TurnOK(Fires(s, timer)) /\ InTurn(Fires(s, timer))
<1> DEFINE t == Turn(s)
<1>1. t \in Turns /\ TurnOK(t) /\ InTurn(t)
  BY TurnIsInTurn DEF TurnOK
<1>2. Fires(s, timer) = [t EXCEPT !.box.timers = @ \ {timer}]
  BY DEF Fires
<1> HIDE DEF t
<1>3. PICK ti \in SUBSET {"move", "wheel", "retry"} : ti = t.box.timers \ {timer}
  BY <1>1 DEF Turns, Boxes
<1>4. Fires(s, timer) = [t EXCEPT !.box.timers = ti]
  BY <1>2, <1>3
<1>5. /\ [t EXCEPT !.box.timers = ti] \in Turns
      /\ [t EXCEPT !.box.timers = ti].box.queue = t.box.queue
  BY <1>1 DEF Turns, Boxes
<1>6. QED BY <1>1, <1>4, <1>5 DEF Turns, TurnOK, InTurn, Fresh, Contiguous

(* Every turn of a sender keeps the invariant. *)
LEMMA TurnKeepsInv ==
  ASSUME IInv, NEW s \in Senders, NEW t, TurnOK(t), InTurn(t), After(s, t),
         made' \in 0..MaxInputs, auth' \in {"challenge", "proof", "none"},
         UNCHANGED <<session, live, chan, bridge, desk, cdp, acted>>
  PROVE  IInv'
<1>1. seq' = t.seq /\ channel' = t.channel /\ marred' = t.marred
      /\ box' = [box EXCEPT ![s] = t.box]
  BY DEF After
<1>2. TypeOK'
  <2>1. box' \in [Senders -> Boxes]
    BY <1>1 DEF IInv, TypeOK, TurnOK, Turns, Boxes
  <2>2. QED BY <1>1, <2>1 DEF IInv, TypeOK, TurnOK, Turns, Boxes
<1>3. SameSession' /\ ClosedIsEmpty' /\ UnarmedAtZero'
  BY <1>1 DEF IInv, SameSession, ClosedIsEmpty, UnarmedAtZero, InTurn
<1>4. ASSUME ~marred'
      PROVE  NothingWaits' /\ AllInTurn'
  <2>1. ~marred /\ Fresh(t) /\ Contiguous(t)
    BY <1>1, <1>4 DEF InTurn
  <2>2. NothingWaits'
    <3>1. \A r \in Senders : box'[r] = IF r = s THEN t.box ELSE box[r]
      BY <1>1 DEF IInv, TypeOK
    <3>2. QED BY <2>1, <3>1 DEF IInv, NothingWaits, Fresh, Encoded
  <2>3. AllInTurn'
    BY <1>1, <2>1 DEF Contiguous, AllInTurn
  <2>4. QED BY <2>2, <2>3
<1>5. QED BY <1>2, <1>3, <1>4 DEF IInv

LEMMA SendMoveInTurn ==
  ASSUME IInv, made < MaxInputs, NEW s \in Senders
  PROVE  /\ TurnOK(sendMove(s)) /\ InTurn(sendMove(s))
         /\ TurnOK(sendWheel(s)) /\ InTurn(sendWheel(s))
<1> DEFINE t == Turn(s)
<1>1. t \in Turns /\ TurnOK(t) /\ InTurn(t)
  BY TurnIsInTurn DEF TurnOK
<1>2. sendMove(s) = [t EXCEPT !.box.move = NewInput, !.box.timers = @ \cup {"move"}]
  BY DEF sendMove
<1>3. sendWheel(s) = [t EXCEPT !.box.wheel = NewInput, !.box.timers = @ \cup {"wheel"}]
  BY DEF sendWheel
<1> HIDE DEF t
<1>4. PICK i \in Inputs : i = NewInput
  <2>1. made + 1 \in 0..MaxInputs /\ session \in 0..MaxSessions
    BY DEF IInv, TypeOK
  <2>2. NewInput \in Inputs
    BY <2>1 DEF NewInput, Inputs
  <2>3. QED BY <2>2
<1>5. PICK ti \in SUBSET {"move", "wheel", "retry"} : ti = t.box.timers \cup {"move"}
  BY <1>1 DEF Turns, Boxes
<1>6. PICK tj \in SUBSET {"move", "wheel", "retry"} : tj = t.box.timers \cup {"wheel"}
  BY <1>1 DEF Turns, Boxes
<1>7. /\ sendMove(s) \in Turns /\ sendMove(s).box.queue = t.box.queue
      /\ sendMove(s).seq = t.seq /\ sendMove(s).channel = t.channel
      /\ sendMove(s).marred = t.marred
  <2>1. sendMove(s) = [t EXCEPT !.box.move = i, !.box.timers = ti]
    BY <1>2, <1>4, <1>5
  <2>2. QED BY <1>1, <2>1 DEF Turns, Boxes
<1>8. /\ sendWheel(s) \in Turns /\ sendWheel(s).box.queue = t.box.queue
      /\ sendWheel(s).seq = t.seq /\ sendWheel(s).channel = t.channel
      /\ sendWheel(s).marred = t.marred
  <2>1. sendWheel(s) = [t EXCEPT !.box.wheel = i, !.box.timers = tj]
    BY <1>3, <1>4, <1>6
  <2>2. QED BY <1>1, <2>1 DEF Turns, Boxes
<1>9. QED BY <1>1, <1>7, <1>8 DEF TurnOK, InTurn, Fresh, Contiguous

(* What the phone's bridges and timers do keeps the invariant. *)
LEMMA SenderSteps ==
  ASSUME IInv,
         \/ Drag \/ Scroll \/ Tap \/ sendKey \/ sendText \/ sendControlFrame
         \/ \E s \in Senders : MoveTimer(s) \/ WheelTimer(s) \/ RetryTimer(s)
  PROVE  IInv'
<1>1. TypeOK /\ SameSession /\ bridge.id \in Senders /\ Keyboard \in Senders
      /\ made \in 0..MaxInputs
  BY DEF IInv, TypeOK, Senders
<1>2. ASSUME NEW s \in Senders, NEW t, TurnOK(t), InTurn(t), SenderStep(s, t),
             Make \/ UNCHANGED made
      PROVE  IInv'
  <2>1. made' \in 0..MaxInputs /\ auth' \in {"challenge", "proof", "none"}
    BY <1>1, <1>2 DEF Make, SenderStep, TypeOK
  <2>2. QED BY <1>2, <2>1, TurnKeepsInv DEF SenderStep
<1>3. CASE Drag
  BY <1>1, <1>2, <1>3, SendMoveInTurn DEF Drag, Make
<1>4. CASE Scroll
  BY <1>1, <1>2, <1>4, SendMoveInTurn DEF Scroll, Make
<1>5. CASE Tap
  <2> DEFINE s == bridge.id
             t == flushMove(s, Turn(s))
  <2>1. made < MaxInputs /\ Make /\ SenderStep(s, sendUrgent(s, "button", 2, t))
    BY <1>5 DEF Tap, Make
  <2>2. TurnOK(t) /\ InTurn(t)
    BY <1>1, TurnIsInTurn, FlushMoveInTurn
  <2> HIDE DEF t
  <2>3. TurnOK(sendUrgent(s, "button", 2, t)) /\ InTurn(sendUrgent(s, "button", 2, t))
    BY <1>1, <2>1, <2>2, SendUrgentInTurn DEF Kinds
  <2>4. QED BY <1>1, <1>2, <2>1, <2>3
<1>6. CASE sendKey \/ sendText
  <2>1. PICK n \in 1..2 :
          SenderStep(Keyboard, sendUrgent(Keyboard, "key", n, Turn(Keyboard)))
    BY <1>6 DEF sendKey, sendText
  <2>2. made < MaxInputs /\ Make
    BY <1>6 DEF sendKey, sendText, Make
  <2>3. /\ TurnOK(sendUrgent(Keyboard, "key", n, Turn(Keyboard)))
        /\ InTurn(sendUrgent(Keyboard, "key", n, Turn(Keyboard)))
    BY <1>1, <2>2, TurnIsInTurn, SendUrgentInTurn DEF Kinds
  <2>4. QED BY <1>1, <1>2, <2>1, <2>2, <2>3
<1>7. CASE \E s \in Senders : MoveTimer(s) \/ WheelTimer(s) \/ RetryTimer(s)
  <2>1. PICK s \in Senders : MoveTimer(s) \/ WheelTimer(s) \/ RetryTimer(s)
    BY <1>7
  <2>2. CASE MoveTimer(s)
    BY <1>1, <1>2, <2>2, FiresInTurn, FlushMoveInTurn DEF MoveTimer
  <2>3. CASE WheelTimer(s)
    BY <1>1, <1>2, <2>3, FiresInTurn, FlushWheelInTurn DEF WheelTimer
  <2>4. CASE RetryTimer(s)
    BY <1>1, <1>2, <2>4, FiresInTurn, FlushUrgentInTurn DEF RetryTimer
  <2>5. QED BY <2>1, <2>2, <2>3, <2>4
<1>8. CASE sendControlFrame
  <2> DEFINE t == Turn(Keyboard)
             u == [t EXCEPT !.seq = @ + 1]
             f == Frame("handshake", auth, seq + 1, [id |-> 0, at |-> session])
  <2>1. TurnOK(t) /\ InTurn(t) /\ t \in Turns /\ t.seq = seq
    BY <1>1, TurnIsInTurn DEF TurnOK, Turn
  <2>2. /\ After(Keyboard, sendControl(u, f)) /\ auth \in {"challenge", "proof"}
        /\ auth' \in {"challenge", "proof", "none"}
        /\ UNCHANGED <<session, live, chan, bridge, made, deskVars>>
    <3>1. u = [Turn(Keyboard) EXCEPT !.seq = @ + 1]
      OBVIOUS
    <3> HIDE DEF u
    <3>2. QED BY <1>1, <1>8, <3>1 DEF sendControlFrame, TypeOK
  <2>3. f \in Frames
    <3>1. [id |-> 0, at |-> session] \in Inputs /\ seq + 1 \in Nat
      BY <1>1 DEF Inputs, TypeOK
    <3>2. QED BY <1>1, <2>2, <3>1, FrameType DEF Kinds
  <2>4. f.session = session /\ f.seq = t.seq + 1
    BY <2>1 DEF Frame
  <2> HIDE DEF t, f
  <2>5. /\ u \in Turns /\ u.seq = t.seq + 1 /\ u.channel = t.channel /\ u.marred = t.marred
        /\ u.box.queue = t.box.queue
    BY <2>1 DEF Turns
  <2>6. TurnOK(u)
    BY <2>1, <2>5 DEF TurnOK
  <2> HIDE DEF u
  <2>7. TurnOK(sendControl(u, f)) /\ InTurn(sendControl(u, f))
    BY <1>1, <2>1, <2>3, <2>4, <2>5, <2>6, SendControlType, SendControlInTurn
  <2>8. made' \in 0..MaxInputs
    BY <1>1, <2>2
  <2>9. QED BY <1>1, <2>2, <2>7, <2>8, TurnKeepsInv DEF deskVars
<1>9. QED BY <1>3, <1>4, <1>5, <1>6, <1>7, <1>8

LEMMA DropIsClosed ==
  ASSUME Drop
  PROVE  chan' = "closed" /\ channel' = <<>> /\ channel' \in Seq(Frames) /\ Len(channel') = 0
BY DEF Drop

(* What the session and its channel do keeps it. *)
LEMMA SessionSteps ==
  ASSUME IInv,
         \/ \E mode \in {"pointer", "scroll"} : Rerender(mode)
         \/ SessionAccepted \/ ChannelOpens \/ ChannelLost \/ Disconnect
  PROVE  IInv'
<1> USE DEF IInv
<1>1. CASE \E mode \in {"pointer", "scroll"} : Rerender(mode)
  <2>1. PICK mode \in {"pointer", "scroll"} : Rerender(mode)
    BY <1>1
  <2>2. /\ bridge' \in [id: Touch, mode: {"pointer", "scroll"}, open: BOOLEAN]
        /\ UNCHANGED <<session, live, seq, chan, auth, box, made, channel, marred, desk, cdp, acted>>
    BY <2>1 DEF Rerender, deskVars
  <2>3. TypeOK'
    BY <2>2 DEF TypeOK
  <2>4. QED
    BY <2>2, <2>3 DEF SameSession, ClosedIsEmpty, UnarmedAtZero, NothingWaits, AllInTurn, Encoded
<1>2. CASE SessionAccepted
  <2>1. /\ session' = session + 1 /\ session < MaxSessions /\ live' = TRUE /\ seq' = 0
        /\ chan = "closed" /\ chan' = "negotiating" /\ auth' = "none" /\ marred' = Leftovers
        /\ desk' = [NoDesk EXCEPT !.active = session + 1]
        /\ UNCHANGED <<bridge, box, made, channel, cdp, acted>>
    BY <1>2 DEF SessionAccepted
  <2>2. session' \in 0..MaxSessions
    BY <2>1 DEF TypeOK
  <2>3. /\ desk' = [active |-> session', armed |-> FALSE, last |-> 0, attached |-> FALSE,
                   phase |-> "waiting", tearing |-> FALSE]
        /\ channel' = <<>> /\ marred' \in BOOLEAN
    BY <2>1 DEF NoDesk, ClosedIsEmpty, Leftovers
  <2>4. TypeOK'
    <3>1. desk' \in Desks
      BY <2>2, <2>3 DEF Desks
    <3>2. QED BY <2>1, <2>2, <2>3, <3>1 DEF TypeOK, Desks
  <2>5. ~marred' => NothingWaits'
    BY <2>1 DEF Leftovers, NothingWaits, Encoded
  <2>6. QED BY <2>1, <2>3, <2>4, <2>5 DEF SameSession, ClosedIsEmpty, UnarmedAtZero, AllInTurn
<1>3. CASE ChannelOpens
  <2>1. /\ chan = "negotiating" /\ chan' = "open" /\ auth' = "challenge"
        /\ UNCHANGED <<session, live, seq, bridge, box, made, channel, marred, desk, cdp, acted>>
    BY <1>3 DEF ChannelOpens, deskVars
  <2>2. TypeOK'
    BY <2>1 DEF TypeOK
  <2>3. QED
    BY <2>1, <2>2 DEF SameSession, ClosedIsEmpty, UnarmedAtZero, NothingWaits, AllInTurn, Encoded
<1>4. CASE ChannelLost \/ Disconnect
  <2>1. /\ Drop /\ live' \in BOOLEAN /\ auth' \in {"challenge", "proof", "none"}
        /\ UNCHANGED <<session, seq, bridge, box, made, marred, desk, cdp, acted>>
    BY <1>4 DEF ChannelLost, Disconnect, deskVars, TypeOK
  <2>2. TypeOK'
    BY <2>1, DropIsClosed DEF TypeOK
  <2>3. QED BY <2>1, <2>2, DropIsClosed
            DEF SameSession, ClosedIsEmpty, UnarmedAtZero, NothingWaits, AllInTurn, Encoded
<1>5. QED BY <1>1, <1>2, <1>3, <1>4

(* The next frame: in an unmarred session the guard always accepts it. *)
LEMMA FrameHandled ==
  ASSUME IInv, handleFrame
  PROVE  IInv'
<1> DEFINE f == Head(channel)
<1>1. /\ TypeOK /\ channel # <<>> /\ channel' = Tail(channel)
      /\ UNCHANGED phoneVars /\ UNCHANGED acted
  BY DEF handleFrame, IInv
<1>2. /\ f \in Frames /\ f = channel[1] /\ Len(channel) \in Nat /\ Len(channel) > 0
      /\ channel' \in Seq(Frames) /\ Len(channel') = Len(channel) - 1
      /\ \A i \in 1..Len(channel') : channel'[i] = channel[i + 1]
  BY <1>1 DEF TypeOK
<1>3. UNCHANGED <<session, live, seq, chan, auth, bridge, box, made>>
  BY <1>1 DEF phoneVars
<1>4. \/ /\ ~desk.armed /\ marred' = TRUE /\ UNCHANGED <<desk, cdp>>
      \/ /\ desk.armed /\ ~SequenceOk(f) /\ desk' = [desk EXCEPT !.tearing = TRUE]
         /\ UNCHANGED <<cdp, marred>>
      \/ /\ desk.armed /\ SequenceOk(f) /\ UNCHANGED marred
         /\ \E ph \in {"waiting", "proved", "active"} :
              desk' = [desk EXCEPT !.last = f.seq, !.phase = ph]
         /\ (cdp' = cdp \/ cdp' = Append(cdp, [metrics |-> f.kind # "key", input |-> f]))
  <2> HIDE DEF f
  <2>1. ASSUME NEW ph, ph = desk.phase
        PROVE  [desk EXCEPT !.last = f.seq] = [desk EXCEPT !.last = f.seq, !.phase = ph]
    BY <1>1, <2>1 DEF TypeOK
  <2>2. desk.phase \in {"waiting", "proved", "active"}
    BY <1>1 DEF TypeOK
  <2>3. QED BY <1>1, <2>1, <2>2 DEF handleFrame, f
<1> HIDE DEF f
<1>5. /\ TypeOK' /\ desk'.active = desk.active /\ desk'.armed = desk.armed
      /\ (desk'.last = desk.last \/ (desk.armed /\ SequenceOk(f) /\ desk'.last = f.seq))
  <2>1. desk \in Desks /\ f.seq \in Nat
    BY <1>1, <1>2 DEF TypeOK, Desks, Frames
  <2>2. /\ desk' \in Desks /\ desk'.active = desk.active /\ desk'.armed = desk.armed
        /\ (desk'.last = desk.last \/ (desk.armed /\ SequenceOk(f) /\ desk'.last = f.seq))
    <3>1. CASE desk' = desk
      BY <2>1, <3>1
    <3>2. CASE desk' = [desk EXCEPT !.tearing = TRUE]
      BY <2>1, <3>2 DEF Desks
    <3>3. ASSUME NEW ph \in {"waiting", "proved", "active"}, desk.armed, SequenceOk(f),
                 desk' = [desk EXCEPT !.last = f.seq, !.phase = ph]
          PROVE  /\ desk' \in Desks /\ desk'.active = desk.active /\ desk'.armed = desk.armed
                 /\ desk'.last = f.seq
      BY <2>1, <3>3 DEF Desks
    <3>4. QED BY <1>4, <3>1, <3>2, <3>3
  <2>3. cdp' \in Seq(Commands)
    <3>1. cdp \in Seq(Commands)
      BY <1>1 DEF TypeOK, Commands
    <3>2. [metrics |-> f.kind # "key", input |-> f] \in Commands
      BY <1>2 DEF Commands
    <3>3. QED BY <1>4, <3>1, <3>2, SequenceTypes
  <2>4. marred' \in BOOLEAN
    BY <1>1, <1>4 DEF TypeOK
  <2>5. Len(channel') <= MaxBuffered + 1
    BY <1>1, <1>2 DEF TypeOK
  <2>6. TypeOK'
    BY <1>1, <1>2, <1>3, <2>2, <2>3, <2>4, <2>5 DEF TypeOK, Desks, Commands
  <2>7. QED BY <2>2, <2>6
<1>6. SameSession' /\ ClosedIsEmpty' /\ UnarmedAtZero'
  BY <1>1, <1>3, <1>5 DEF IInv, SameSession, ClosedIsEmpty, UnarmedAtZero
<1>7. ASSUME ~marred'
      PROVE  NothingWaits' /\ AllInTurn'
  <2>1. ~marred /\ desk.armed
    BY <1>4, <1>7
  <2>2. NothingWaits'
    BY <1>3, <2>1 DEF IInv, NothingWaits, Encoded
  <2>3. /\ chan # "closed" /\ desk.last \in Nat
        /\ \A i \in 1..Len(channel) :
             channel[i].session = desk.active /\ channel[i].seq = desk.last + i
        /\ seq = desk.last + Len(channel)
    BY <1>1, <2>1 DEF IInv, AllInTurn, ClosedIsEmpty, TypeOK
  <2>4. f.session = desk.active /\ f.seq = desk.last + 1 /\ SequenceOk(f)
    BY <1>2, <2>3 DEF SequenceOk
  <2>5. desk'.last = desk.last + 1 /\ desk'.active = desk.active
    <3>1. PICK ph : desk' = [desk EXCEPT !.last = f.seq, !.phase = ph]
      BY <1>4, <2>1, <2>4
    <3>2. QED BY <1>1, <1>5, <2>4, <3>1 DEF TypeOK
  <2>6. AllInTurn'
    <3>1. ASSUME NEW i \in 1..Len(channel')
          PROVE  channel'[i].session = desk'.active /\ channel'[i].seq = desk'.last + i
      <4>1. i + 1 \in 1..Len(channel) /\ channel'[i] = channel[i + 1]
        BY <1>2, <3>1
      <4>2. desk.last + (i + 1) = desk'.last + i
        <5>1. i \in Nat /\ desk.last \in Nat
          BY <1>2, <2>3, <3>1
        <5>2. desk.last + (i + 1) = (desk.last + 1) + i
          BY <5>1
        <5>3. QED BY <2>5, <5>2
      <4>3. QED BY <2>3, <2>5, <4>1, <4>2
    <3>2. seq' = desk'.last + Len(channel')
      BY <1>2, <1>3, <2>3, <2>5
    <3>3. QED BY <3>1, <3>2 DEF AllInTurn
  <2>7. QED BY <2>2, <2>6
<1>8. QED BY <1>5, <1>6, <1>7 DEF IInv

(* The other steps of the desktop. *)
LEMMA DesktopSteps ==
  ASSUME IInv,
         \/ begin \/ onPeerVerified \/ CommandDone \/ CommandFails \/ SessionEnds
         \/ teardownSession
  PROVE  IInv'
<1>1. TypeOK /\ desk \in Desks /\ UnarmedAtZero
  BY DEF IInv, TypeOK, Desks
<1>2. ASSUME UNCHANGED <<session, live, seq, chan, auth, bridge, box, made, channel, marred>>,
             desk' \in Desks, desk'.active = desk.active, desk'.last = desk.last,
             desk'.armed \/ desk'.armed = desk.armed,
             cdp' \in Seq(Commands), acted' \in Seq(Frames)
      PROVE  IInv'
  <2>1. TypeOK'
    BY <1>1, <1>2 DEF TypeOK, Desks, Commands
  <2>2. QED BY <1>2, <2>1 DEF IInv, SameSession, ClosedIsEmpty, UnarmedAtZero, NothingWaits,
                             AllInTurn, Encoded
<1>3. cdp \in Seq(Commands) /\ acted \in Seq(Frames)
  BY <1>1 DEF TypeOK, Commands
<1>4. CASE begin
  <2>1. /\ desk' = [desk EXCEPT !.armed = TRUE, !.last = 0, !.attached = FALSE] /\ ~desk.armed
        /\ UNCHANGED <<session, live, seq, chan, auth, bridge, box, made, channel, marred, cdp, acted>>
    BY <1>4 DEF begin, phoneVars
  <2>2. desk' \in Desks /\ desk'.active = desk.active /\ desk'.last = desk.last /\ desk'.armed
    BY <1>1, <2>1 DEF UnarmedAtZero, Desks
  <2>3. QED BY <1>2, <1>3, <2>1, <2>2
<1>5. CASE onPeerVerified
  <2>1. /\ desk' = [desk EXCEPT !.phase = "active", !.attached = TRUE]
        /\ UNCHANGED <<session, live, seq, chan, auth, bridge, box, made, channel, marred, cdp, acted>>
    BY <1>5 DEF onPeerVerified, phoneVars
  <2>2. desk' \in Desks /\ desk'.active = desk.active /\ desk'.last = desk.last /\ desk'.armed = desk.armed
    BY <1>1, <2>1 DEF Desks
  <2>3. QED BY <1>2, <1>3, <2>1, <2>2
<1>6. CASE CommandDone
  <2> DEFINE c == Head(cdp)
  <2>1. /\ cdp # <<>>
        /\ IF c.metrics
           THEN cdp' = Append(Tail(cdp), [c EXCEPT !.metrics = FALSE]) /\ UNCHANGED acted
           ELSE cdp' = Tail(cdp) /\ acted' = Append(acted, c.input)
        /\ UNCHANGED <<session, live, seq, chan, auth, bridge, box, made, channel, marred, desk>>
    BY <1>6 DEF CommandDone, phoneVars
  <2>2. c \in Commands /\ Tail(cdp) \in Seq(Commands)
    BY <1>3, <2>1, SequenceTypes
  <2> HIDE DEF c
  <2>3. [c EXCEPT !.metrics = FALSE] \in Commands /\ c.input \in Frames
    BY <2>2 DEF Commands
  <2>4. cdp' \in Seq(Commands) /\ acted' \in Seq(Frames)
    BY <1>3, <2>1, <2>2, <2>3, SequenceTypes
  <2>5. QED BY <1>1, <1>2, <2>1, <2>4
<1>7. CASE CommandFails \/ SessionEnds
  <2>1. PICK b \in BOOLEAN : desk' = [desk EXCEPT !.tearing = b]
    BY <1>7 DEF CommandFails, SessionEnds
  <2>2. /\ cdp' \in Seq(Commands) /\ acted' = acted
        /\ UNCHANGED <<session, live, seq, chan, auth, bridge, box, made, channel, marred>>
    <3>1. UNCHANGED <<session, live, seq, chan, auth, bridge, box, made, channel, marred, acted>>
      BY <1>7 DEF CommandFails, SessionEnds, phoneVars
    <3>2. CASE CommandFails
      BY <1>3, <3>1, <3>2, SequenceTypes DEF CommandFails
    <3>3. CASE SessionEnds
      BY <1>3, <3>1, <3>3 DEF SessionEnds
    <3>4. QED BY <1>7, <3>2, <3>3
  <2>3. desk' \in Desks /\ desk'.active = desk.active /\ desk'.last = desk.last /\ desk'.armed = desk.armed
    BY <1>1, <2>1 DEF Desks
  <2>4. QED BY <1>2, <1>3, <2>2, <2>3
<1>8. CASE teardownSession
  <2>1. /\ desk' = NoDesk /\ Drop
        /\ UNCHANGED <<session, live, seq, auth, bridge, box, made, marred, cdp, acted>>
    BY <1>8 DEF teardownSession
  <2>2. desk' \in Desks /\ desk'.last = 0
    BY <2>1 DEF NoDesk, Desks
  <2>3. TypeOK'
    BY <1>1, <2>1, <2>2, DropIsClosed DEF TypeOK, Desks
  <2>4. QED BY <2>1, <2>2, <2>3, DropIsClosed
            DEF IInv, SameSession, ClosedIsEmpty, UnarmedAtZero, NothingWaits, AllInTurn, Encoded
<1>9. QED BY <1>4, <1>5, <1>6, <1>7, <1>8
-----------------------------------------------------------------------------
LEMMA InitIsInTurn == Init => IInv
<1> SUFFICES ASSUME Init PROVE IInv
  OBVIOUS
<1>1. TypeOK
  <2>1. NewBox \in Boxes
    BY DEF NewBox, Boxes, NoInput, Inputs
  <2>2. box \in [Senders -> Boxes]
    BY <2>1 DEF Init
  <2>3. desk \in Desks
    BY DEF Init, NoDesk, Desks
  <2>4. bridge \in [id: Touch, mode: {"pointer", "scroll"}, open: BOOLEAN]
    BY DEF Init
  <2>5. channel \in Seq(Frames) /\ Len(channel) = 0 /\ cdp \in Seq(Commands) /\ acted \in Seq(Frames)
    BY DEF Init
  <2>6. /\ session \in 0..MaxSessions /\ made \in 0..MaxInputs /\ live \in BOOLEAN /\ seq \in Nat
        /\ chan \in {"negotiating", "open", "closed"} /\ auth \in {"challenge", "proof", "none"}
        /\ marred \in BOOLEAN
    <3>1. session = 0 /\ made = 0 /\ seq = 0
      BY DEF Init
    <3>2. session \in 0..MaxSessions /\ made \in 0..MaxInputs /\ seq \in Nat
      BY <3>1
    <3>3. QED BY <3>2 DEF Init
  <2>7. Len(channel) <= MaxBuffered + 1
    BY <2>5
  <2>8. QED BY <2>2, <2>3, <2>4, <2>5, <2>6, <2>7 DEF TypeOK, Boxes, Desks, Commands
<1>2. NothingWaits
  BY DEF Init, NothingWaits, NewBox
<1>3. QED BY <1>1, <1>2 DEF Init, IInv, SameSession, ClosedIsEmpty, UnarmedAtZero, AllInTurn, NoDesk

LEMMA StutterIsInTurn == IInv /\ UNCHANGED vars => IInv'
BY DEF vars, IInv, TypeOK, SameSession, ClosedIsEmpty, UnarmedAtZero, NothingWaits, AllInTurn,
       Encoded

LEMMA InductiveInTurn == Spec => []IInv
<1>1. IInv /\ [Next]_vars => IInv'
  <2> SUFFICES ASSUME IInv, [Next]_vars PROVE IInv'
    OBVIOUS
  <2>1. CASE UNCHANGED vars
    BY <2>1, StutterIsInTurn
  <2>2. CASE Phone
    BY <2>2, SenderSteps, SessionSteps DEF Phone
  <2>3. CASE Desktop
    BY <2>3, FrameHandled, DesktopSteps DEF Desktop
  <2>4. QED BY <2>1, <2>2, <2>3 DEF Next
<1>2. QED BY <1>1, InitIsInTurn, PTL DEF Spec

(* Every variable keeps its type and the channel its capacity, whatever the  *)
(* number of bridges, sessions and inputs.                                   *)
THEOREM PipelineTypeCorrect == Spec => []TypeOK
<1>1. IInv => TypeOK
  BY DEF IInv
<1>2. QED BY <1>1, InductiveInTurn, PTL

(* As long as no numbered frame was refused, left over or lost before        *)
(* `begin', the desktop's guard accepts every frame on the channel in turn.  *)
THEOREM NumbersAlwaysInTurn == Spec => []NumbersInTurn
<1>1. IInv => NumbersInTurn
  BY DEF IInv, NumbersInTurn, AllInTurn
<1>2. QED BY <1>1, InductiveInTurn, PTL
-----------------------------------------------------------------------------
(* What a sender still holds has its retry timer armed.                      *)
Retried(b) == b.queue # <<>> => "retry" \in b.timers

(* Only flushUrgent leaves items behind, and it arms the timer when it does. *)
LEMMA FlushUrgentRetries ==
  ASSUME NEW s, NEW t \in Turns, NEW q
  PROVE  Retried(flushUrgent(s, [t EXCEPT !.box.queue = q]).box)
<1> DEFINE u == [t EXCEPT !.box.queue = q]
           timersAfter(k) == IF k # <<>> THEN u.box.timers \cup {"retry"} ELSE u.box.timers
<1>1. DOMAIN u = {"seq", "channel", "marred", "box"} BY DEF Turns
<1>2. DOMAIN u.box = {"move", "wheel", "queue", "timers"} BY DEF Turns, Boxes
<1> HIDE DEF u
<1>3. PICK k : flushUrgent(s, u).box = [u.box EXCEPT !.queue = k, !.timers = timersAfter(k)]
  BY <1>1 DEF flushUrgent
<1>4. PICK ti : ti = timersAfter(k) /\ (k # <<>> => "retry" \in ti) OBVIOUS
<1>5. flushUrgent(s, u).box = [u.box EXCEPT !.queue = k, !.timers = ti] BY <1>3, <1>4
<1>6. QED BY <1>2, <1>4, <1>5 DEF Retried, u

LEMMA OthersKeepQueue ==
  ASSUME NEW s, NEW t \in Turns, NEW f
  PROVE  /\ flushMove(s, t).box.queue = t.box.queue /\ flushMove(s, t).box.timers = t.box.timers
         /\ flushWheel(s, t).box.queue = t.box.queue /\ flushWheel(s, t).box.timers = t.box.timers
         /\ sendControl([t EXCEPT !.seq = @ + 1], f).box = t.box
<1>1. t.box \in Boxes BY DEF Turns
<1>2. ASSUME NEW u, u.box.queue = t.box.queue, u.box.timers = t.box.timers,
             DOMAIN u = {"seq", "channel", "marred", "box"}, NEW g
      PROVE  /\ sendControl(u, g).box.queue = t.box.queue
             /\ sendControl(u, g).box.timers = t.box.timers
  BY <1>2 DEF sendControl
<1>3. QED BY <1>1, <1>2 DEF flushMove, flushWheel, sendControl, Turns, Boxes

LEMMA RetriedStep ==
  ASSUME IInv, RefusedIsRetried, [Next]_vars
  PROVE  RefusedIsRetried'
<1>1. /\ box \in [Senders -> Boxes] /\ \A s \in Senders : Retried(box[s])
      /\ bridge.id \in Senders /\ Keyboard \in Senders
  BY DEF IInv, TypeOK, Boxes, RefusedIsRetried, Retried, Senders
<1>2. ASSUME NEW s \in Senders, NEW t, After(s, t), Retried(t.box)
      PROVE  RefusedIsRetried'
  BY <1>1, <1>2 DEF After, RefusedIsRetried, Retried
<1>3. \A s \in Senders : Turn(s) \in Turns /\ Turn(s).box = box[s]
  BY DEF IInv, TypeOK, Turn, Turns, Boxes
<1>4. ASSUME NEW s \in Senders, NEW timer
      PROVE  /\ Fires(s, timer) \in Turns
             /\ Fires(s, timer).box.queue = box[s].queue
             /\ Fires(s, timer).box.timers = box[s].timers \ {timer}
  <2>1. box[s] \in Boxes BY <1>1
  <2>2. PICK t \in Turns : t = Turn(s) /\ t.box = box[s] BY <1>3
  <2>3. PICK ti \in SUBSET {"move", "wheel", "retry"} : ti = box[s].timers \ {timer}
    BY <2>1 DEF Boxes
  <2>4. Fires(s, timer) = [t EXCEPT !.box.timers = ti] BY <2>2, <2>3 DEF Fires
  <2>5. /\ [t EXCEPT !.box.timers = ti] \in Turns
        /\ [t EXCEPT !.box.timers = ti].box.queue = t.box.queue
        /\ [t EXCEPT !.box.timers = ti].box.timers = ti
    BY DEF Turns, Boxes
  <2>6. QED BY <2>2, <2>3, <2>4, <2>5
<1>5. CASE Drag \/ Scroll
  <2>1. /\ Retried(sendMove(bridge.id).box)
        /\ Retried(sendWheel(bridge.id).box)
    <3>1. PICK t \in Turns : t = Turn(bridge.id) /\ t.box = box[bridge.id] BY <1>1, <1>3
    <3>2. t.box \in Boxes /\ Retried(t.box) BY <1>1, <3>1
    <3>3. QED BY <3>1, <3>2 DEF sendMove, sendWheel, Retried, Turns, Boxes
  <2>2. QED BY <1>1, <1>2, <1>5, <2>1 DEF Drag, Scroll, SenderStep
<1>6. CASE Tap \/ sendKey \/ sendText
  <2>1. PICK s \in Senders, kind \in Kinds, n \in 1..2, t \in Turns :
          After(s, sendUrgent(s, kind, n, t))
    <3>1. ASSUME NEW s \in Senders PROVE flushMove(s, Turn(s)) \in Turns
      BY TurnIsInTurn, FlushMoveInTurn DEF IInv, TurnOK
    <3>2. QED BY <1>1, <1>3, <1>6, <3>1 DEF Tap, sendKey, sendText, SenderStep, Kinds
  <2>2. \E q : sendUrgent(s, kind, n, t) = flushUrgent(s, [t EXCEPT !.box.queue = q])
    BY DEF sendUrgent
  <2>3. Retried(sendUrgent(s, kind, n, t).box) BY <2>2, FlushUrgentRetries
  <2>4. QED BY <1>2, <2>1, <2>3
<1>7. ASSUME NEW s \in Senders, MoveTimer(s) \/ WheelTimer(s) PROVE RefusedIsRetried'
  <2>1. CASE MoveTimer(s)
    <3>1. PICK t \in Turns : t = Fires(s, "move") BY <1>4
    <3>2. t.box.queue = box[s].queue /\ t.box.timers = box[s].timers \ {"move"} BY <1>4, <3>1
    <3>3. flushMove(s, t).box.queue = t.box.queue /\ flushMove(s, t).box.timers = t.box.timers
      BY OthersKeepQueue
    <3>4. Retried(box[s]) BY <1>1
    <3>5. Retried(flushMove(s, t).box) BY <3>2, <3>3, <3>4 DEF Retried
    <3>6. QED BY <1>2, <2>1, <3>1, <3>5 DEF MoveTimer, SenderStep
  <2>2. CASE WheelTimer(s)
    <3>1. PICK t \in Turns : t = Fires(s, "wheel") BY <1>4
    <3>2. t.box.queue = box[s].queue /\ t.box.timers = box[s].timers \ {"wheel"} BY <1>4, <3>1
    <3>3. flushWheel(s, t).box.queue = t.box.queue /\ flushWheel(s, t).box.timers = t.box.timers
      BY OthersKeepQueue
    <3>4. Retried(box[s]) BY <1>1
    <3>5. Retried(flushWheel(s, t).box) BY <3>2, <3>3, <3>4 DEF Retried
    <3>6. QED BY <1>2, <2>2, <3>1, <3>5 DEF WheelTimer, SenderStep
  <2>3. QED BY <1>7, <2>1, <2>2
<1>8. ASSUME NEW s \in Senders, RetryTimer(s) PROVE RefusedIsRetried'
  <2>1. PICK t \in Turns : t = Fires(s, "retry") BY <1>4
  <2>2. t = [t EXCEPT !.box.queue = t.box.queue] BY DEF Turns, Boxes
  <2>3. Retried(flushUrgent(s, t).box) BY <2>2, FlushUrgentRetries
  <2>4. QED BY <1>2, <1>8, <2>1, <2>3 DEF RetryTimer, SenderStep
<1>9. CASE sendControlFrame
  <2>1. PICK f : After(Keyboard, sendControl([Turn(Keyboard) EXCEPT !.seq = @ + 1], f))
    BY <1>9 DEF sendControlFrame
  <2>2. sendControl([Turn(Keyboard) EXCEPT !.seq = @ + 1], f).box = box[Keyboard]
    BY <1>1, <1>3, OthersKeepQueue
  <2>3. QED BY <1>1, <1>2, <2>1, <2>2
<1>10. CASE UNCHANGED box BY <1>10 DEF RefusedIsRetried
<1>11. Desktop => UNCHANGED box
  BY DEF Desktop, begin, onPeerVerified, handleFrame, CommandDone, CommandFails, SessionEnds,
         teardownSession, phoneVars
<1>12. (\E mode \in {"pointer", "scroll"} : Rerender(mode)) \/ SessionAccepted \/ ChannelOpens
         \/ ChannelLost \/ Disconnect => UNCHANGED box
  BY DEF Rerender, SessionAccepted, ChannelOpens, ChannelLost, Disconnect
<1>13. QED
  BY <1>5, <1>6, <1>7, <1>8, <1>9, <1>10, <1>11, <1>12 DEF Next, Phone, vars

(* Whatever the channel refuses of keys and buttons is tried again: a timer  *)
(* is armed as long as the urgent queue of a sender holds anything, for the  *)
(* senders of bridges no longer in use too.                                  *)
THEOREM RefusedAlwaysRetried == Spec => []RefusedIsRetried
<1>1. Init => RefusedIsRetried BY DEF Init, RefusedIsRetried, NewBox
<1>2. IInv /\ RefusedIsRetried /\ [Next]_vars => RefusedIsRetried' BY RetriedStep
<1>3. QED BY <1>1, <1>2, InductiveInTurn, PTL DEF Spec
=============================================================================
