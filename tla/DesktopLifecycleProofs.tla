----------------------- MODULE DesktopLifecycleProofs -----------------------
(***************************************************************************)
(* The invariants of DesktopLifecycle, for any number of tasks and events.   *)
(*                                                                           *)
(* 1. TypeInv: the types, and that a task waits exactly if the storage owes  *)
(*    it one answer.  It holds whatever races.  The tables of effects        *)
(*    (EnableEffects, PassEffects, SessionEffects, OutsideEffects) say what  *)
(*    every action does to tasks and answers; the rest builds on them.       *)
(* 2. Still: as long as nothing has raced, what each task may take for       *)
(*    granted where it rests, and what a phase with no task to finish it     *)
(*    means.  The five invariants are what is left of it at rest.            *)
(* 3. InOrder: the two facts about the order of the answers that Still needs *)
(*    when a pass reads the state and when a report saves it.                *)
(* 4. IInv joins them; every action keeps it.                                *)
(* 5. Every step is a step of RemoteMode or one that it does not see.        *)
(***************************************************************************)
EXTENDS DesktopLifecycle, TLAPS

(* A task that has asked the storage is owed one answer, and no other task   *)
(* is; only a task at its request is waited for by the document.             *)
Waiting == {"enabling", "enabled", "activated", "reading", "stopping", "reporting",
            "requesting", "verified", "noticing", "waking"}
TaskType == [at : Places, seen : SessionStates, report : DOMAIN Reports \cup {"none"}]
Works == [task : [Tasks -> TaskType], replies : Seq(Tasks)]
Owes(w, t) == \E i \in 1..Len(w.replies) : w.replies[i] = t
OwedOnce(w) == \A i, j \in 1..Len(w.replies) : w.replies[i] = w.replies[j] => i = j
RestsWell(x) ==
  /\ x.report # "none" <=> x.at = "reporting"
  /\ x.at = "none" => x = NoTask
Tidy(w) ==
  /\ w \in Works /\ OwedOnce(w)
  /\ \A t \in Tasks : w.task[t].at \in Waiting <=> Owes(w, t)
  /\ \A t \in Tasks : RestsWell(w.task[t])

Requested == \A t \in Tasks : t \in doc.getting => task[t].at = "capturing"
OffStored == state.phase = "idle" => state = Off
TypeInv == TypeOK /\ Tidy(Now) /\ Requested /\ OffStored
-----------------------------------------------------------------------------
(* What the moves of tasks are                                               *)
Resting(at) == [at |-> at, seen |-> Off, report |-> "none"]
Asking(at, s) == [at |-> at, seen |-> s, report |-> "none"]

LEMMA NoTaskIs == NoTask = Resting("none") /\ \A at : [NoTask EXCEPT !.at = at] = Resting(at)
BY DEF NoTask, Resting

LEMMA MoveIs ==
  ASSUME NEW w \in Works, NEW t \in Tasks
  PROVE  /\ \A at : Rest(w, t, at) = [task |-> [w.task EXCEPT ![t] = Resting(at)], replies |-> w.replies]
         /\ \A at, s : Asks(w, t, at, s) = [task |-> [w.task EXCEPT ![t] = Asking(at, s)],
                                            replies |-> Append(w.replies, t)]
         /\ Done(w, t) = [task |-> [w.task EXCEPT ![t] = Resting("none")], replies |-> w.replies]
<1>1. w = [task |-> w.task, replies |-> w.replies]
  BY DEF Works
<1>2. \A at : Rest(w, t, at) = [task |-> [w.task EXCEPT ![t] = Resting(at)], replies |-> w.replies]
  BY <1>1, NoTaskIs DEF Rest
<1>3. ASSUME NEW at, NEW s
      PROVE  [NoTask EXCEPT !.at = at, !.seen = s] = Asking(at, s)
  <2>1. [NoTask EXCEPT !.at = at, !.seen = s] = [[NoTask EXCEPT !.at = at] EXCEPT !.seen = s]
    OBVIOUS
  <2>2. [Resting(at) EXCEPT !.seen = s] = Asking(at, s)
    BY DEF Resting, Asking
  <2> QED
    BY <2>1, <2>2, NoTaskIs
<1>4. Done(w, t) = [task |-> [w.task EXCEPT ![t] = Resting("none")], replies |-> w.replies]
  BY <1>1, NoTaskIs DEF Done
<1> QED
  BY <1>2, <1>3, <1>4 DEF Asks

LEMMA HeardIs == Heard = [task |-> task, replies |-> Tail(replies)]
<1>1. Heard = [Now EXCEPT !.replies = Tail(Now.replies)]
  BY DEF Heard
<1>2. Now.replies = replies
  BY DEF Now
<1>3. \A v : [Now EXCEPT !.replies = v] = [task |-> task, replies |-> v]
  BY DEF Now
<1> QED
  BY <1>1, <1>2, <1>3

(* Nothing but a task that is free or not waiting moves without its answer.  *)
LEMMA PlacesAre ==
  /\ Waiting \subseteq Places /\ "none" \in Places /\ "none" \notin Waiting
  /\ Enabling \cup Verifying \cup Ending \cup Passing \cup Waking \subseteq Places
  /\ Off \in SessionStates
BY DEF Waiting, Places, Enabling, Verifying, Ending, Passing, Waking, Off, SessionStates, Phases

LEMMA RestTidy ==
  ASSUME NEW w \in Works, Tidy(w), NEW t \in Tasks, w.task[t].at \notin Waiting,
         NEW at \in Places \ Waiting
  PROVE  Tidy(Rest(w, t, at))
<1> DEFINE v == [task |-> [w.task EXCEPT ![t] = Resting(at)], replies |-> w.replies]
<1>1. Resting(at) \in TaskType /\ RestsWell(Resting(at)) /\ Resting(at).at = at
  BY PlacesAre DEF Resting, TaskType, RestsWell, NoTask, Waiting
<1>2. v.replies = w.replies /\ \A u \in Tasks : v.task[u] = IF u = t THEN Resting(at) ELSE w.task[u]
  BY DEF Works
<1>3. v \in Works
  BY <1>1 DEF Works
<1> HIDE DEF v
<1>4. Tidy(v)
  BY <1>1, <1>2, <1>3 DEF Tidy, OwedOnce, Owes
<1> QED
  BY <1>4, MoveIs DEF v

LEMMA DoneIs ==
  ASSUME NEW w \in Works, NEW t \in Tasks
  PROVE  Done(w, t) = Rest(w, t, "none")
BY MoveIs

LEMMA DoneTidy ==
  ASSUME NEW w \in Works, Tidy(w), NEW t \in Tasks, w.task[t].at \notin Waiting
  PROVE  Tidy(Done(w, t))
BY DoneIs, RestTidy, PlacesAre

(* The reply of t moves to the end, or is new there.                         *)
LEMMA AskTidy ==
  ASSUME NEW w \in Works, Tidy(w), NEW t \in Tasks, w.task[t].at \notin Waiting,
         NEW x \in TaskType, x.at \in Waiting, RestsWell(x)
  PROVE  Tidy([task |-> [w.task EXCEPT ![t] = x], replies |-> Append(w.replies, t)])
<1> DEFINE v == [task |-> [w.task EXCEPT ![t] = x], replies |-> Append(w.replies, t)]
<1>1. /\ w.replies \in Seq(Tasks) /\ Len(w.replies) \in Nat
      /\ \A u \in Tasks : v.task[u] = IF u = t THEN x ELSE w.task[u]
  BY DEF Works
<1>2. /\ Len(v.replies) = Len(w.replies) + 1 /\ v.replies[Len(w.replies) + 1] = t
      /\ \A i \in 1..Len(w.replies) : v.replies[i] = w.replies[i]
  BY <1>1
<1>3. v \in Works
  BY DEF Works
<1> HIDE DEF v
<1>4. ~Owes(w, t)
  BY DEF Tidy
<1>5. \A u \in Tasks : Owes(v, u) <=> Owes(w, u) \/ u = t
  <2>1. 1..Len(v.replies) = (1..Len(w.replies)) \cup {Len(w.replies) + 1}
    BY <1>1, <1>2
  <2> QED
    BY <1>1, <1>2, <2>1 DEF Owes
<1>6. OwedOnce(v)
  BY <1>1, <1>2, <1>4 DEF OwedOnce, Owes, Tidy
<1> QED
  BY <1>1, <1>3, <1>4, <1>5, <1>6 DEF Tidy, v

LEMMA AsksTidy ==
  ASSUME NEW w \in Works, Tidy(w), NEW t \in Tasks, w.task[t].at \notin Waiting,
         NEW at \in Waiting \ {"reporting"}, NEW s \in SessionStates
  PROVE  Tidy(Asks(w, t, at, s))
<1>1. Asking(at, s) \in TaskType /\ RestsWell(Asking(at, s)) /\ Asking(at, s).at \in Waiting
  BY PlacesAre DEF Asking, TaskType, RestsWell
<1> QED
  BY <1>1, AskTidy, MoveIs

(* An answer, after which its task is as good as free.                       *)
LEMMA HeardTidy ==
  ASSUME Tidy(Now), NEW t \in Tasks, replies # <<>>, Head(replies) = t,
         NEW x \in TaskType, x.at \notin Waiting, RestsWell(x)
  PROVE  /\ Tidy([task |-> [task EXCEPT ![t] = x], replies |-> Tail(replies)])
         /\ [task |-> [task EXCEPT ![t] = x], replies |-> Tail(replies)] \in Works
<1> DEFINE v == [task |-> [task EXCEPT ![t] = x], replies |-> Tail(replies)]
<1>1. /\ replies \in Seq(Tasks) /\ Len(replies) \in Nat /\ replies[1] = t /\ Len(replies) >= 1
      /\ task \in [Tasks -> TaskType] /\ Now.task = task /\ Now.replies = replies
  BY DEF Tidy, Now, Works
<1>2. /\ Len(v.replies) = Len(replies) - 1
      /\ \A i \in 1..Len(v.replies) : v.replies[i] = replies[i + 1] /\ i + 1 \in 1..Len(replies)
      /\ \A u \in Tasks : v.task[u] = IF u = t THEN x ELSE task[u]
  BY <1>1
<1>3. v \in Works
  BY <1>1 DEF Works
<1> HIDE DEF v
<1>4. OwedOnce(v) /\ ~Owes(v, t)
  BY <1>1, <1>2 DEF OwedOnce, Owes, Tidy
<1>5. ASSUME NEW u \in Tasks, u # t, Owes(Now, u)
      PROVE  Owes(v, u)
  <2>1. PICK i \in 1..Len(replies) : replies[i] = u
    BY <1>1, <1>5 DEF Owes
  <2>2. i # 1 /\ i - 1 \in 1..Len(v.replies) /\ v.replies[i - 1] = u
    BY <1>1, <1>2, <1>5, <2>1
  <2> QED
    BY <2>2 DEF Owes
<1>6. \A u \in Tasks : u # t => (Owes(v, u) <=> Owes(Now, u))
  BY <1>1, <1>2, <1>5 DEF Owes
<1> QED
  BY <1>1, <1>2, <1>3, <1>4, <1>6 DEF Tidy, v

LEMMA HeardWorks ==
  ASSUME Tidy(Now)
  PROVE  /\ Now \in Works /\ task \in [Tasks -> TaskType] /\ replies \in Seq(Tasks)
         /\ replies # <<>> => Heard \in Works
BY HeardIs DEF Tidy, Now, Works

LEMMA HeardMoves ==
  ASSUME Tidy(Now), NEW t \in Tasks, replies # <<>>, Head(replies) = t
  PROVE  /\ \A at \in Places \ Waiting : Tidy(Rest(Heard, t, at))
         /\ Tidy(Done(Heard, t))
         /\ \A at \in Waiting \ {"reporting"}, s \in SessionStates : Tidy(Asks(Heard, t, at, s))
<1> DEFINE free == [task |-> [task EXCEPT ![t] = Resting("none")], replies |-> Tail(replies)]
<1>1. \A at \in Places \ Waiting :
        Resting(at) \in TaskType /\ RestsWell(Resting(at)) /\ Resting(at).at \notin Waiting
  BY PlacesAre DEF Resting, TaskType, RestsWell, NoTask, Waiting
<1>2. Heard \in Works /\ Heard.task = task /\ Heard.replies = Tail(replies)
  BY HeardWorks, HeardIs
<1>3. \A at \in Places \ Waiting : Tidy(Rest(Heard, t, at))
  BY <1>1, <1>2, HeardTidy, MoveIs
<1>4. free = Done(Heard, t) /\ Tidy(free) /\ free \in Works
  BY <1>1, <1>2, HeardTidy, MoveIs, PlacesAre
<1>5. ASSUME NEW at \in Waiting \ {"reporting"}, NEW s \in SessionStates
      PROVE  Tidy(Asks(Heard, t, at, s))
  <2>1. Asks(Heard, t, at, s) = Asks(free, t, at, s)
    <3>1. [task EXCEPT ![t] = Asking(at, s)] = [free.task EXCEPT ![t] = Asking(at, s)]
      BY HeardWorks
    <3>2. Asks(Heard, t, at, s) = [task |-> [task EXCEPT ![t] = Asking(at, s)],
                                   replies |-> Append(Tail(replies), t)]
      BY <1>2, MoveIs
    <3> HIDE DEF free
    <3>3. Asks(free, t, at, s) = [task |-> [free.task EXCEPT ![t] = Asking(at, s)],
                                  replies |-> Append(Tail(replies), t)]
      <4>1. free.replies = Tail(replies)
        BY DEF free
      <4> QED
        BY <1>4, <4>1, MoveIs
    <3> QED
      BY <3>1, <3>2, <3>3
  <2>2. free.task[t].at \notin Waiting
    BY HeardWorks, PlacesAre DEF Resting
  <2> QED
    BY <1>4, <2>1, <2>2, AsksTidy
<1> QED
  BY <1>3, <1>4, <1>5
-----------------------------------------------------------------------------
(* What each action does to the tasks                                        *)
Moves(t, x, q) == task' = [task EXCEPT ![t] = x] /\ replies' = q /\ Tidy(Now)'
Reporting(r) == [at |-> "reporting", seen |-> state, report |-> r]

(* The report r is made beside a move of t to x, or beside none.             *)
Tells(r) ==
  \/ Matters(r) /\ \E u \in Tasks : task[u] = NoTask /\ Moves(u, Reporting(r), Append(replies, u))
  \/ ~Matters(r) /\ UNCHANGED <<task, replies>> /\ Tidy(Now)'
MovesAndTells(t, x, r) ==
  \/ /\ Matters(r)
     /\ \E u \in Tasks :
          /\ [task EXCEPT ![t] = x][u] = NoTask
          /\ task' = [task EXCEPT ![t] = x, ![u] = Reporting(r)]
          /\ replies' = Append(replies, u) /\ Tidy(Now)'
  \/ ~Matters(r) /\ Moves(t, x, replies)

(* A call of stopRemoteSession.                                              *)
Stops(t, q) ==
  IF teardown = "null" THEN Moves(t, Resting("detaching"), q) /\ teardown' = t
                       ELSE Moves(t, Resting("none"), q) /\ UNCHANGED teardown

LEMMA Typing ==
  ASSUME TypeInv
  PROVE  /\ task \in [Tasks -> TaskType] /\ replies \in Seq(Tasks) /\ state \in SessionStates
         /\ Now \in Works /\ Tidy(Now) /\ Now.task = task /\ Now.replies = replies
BY DEF TypeInv, TypeOK, TaskType, Now, Works, Tidy

LEMMA BecomesIs ==
  ASSUME NEW w, Becomes(w), Tidy(w), NEW f, NEW q, w = [task |-> f, replies |-> q]
  PROVE  task' = f /\ replies' = q /\ Tidy(Now)'
<1>1. task' = w.task /\ replies' = w.replies /\ [task |-> w.task, replies |-> w.replies] = w
  BY DEF Becomes
<1>2. Now' = w
  BY <1>1 DEF Now
<1> QED
  BY <1>1, <1>2 DEF Tidy, Works, OwedOnce, Owes

LEMMA RestMoves ==
  ASSUME TypeInv, NEW t \in Tasks, task[t].at \notin Waiting, NEW at \in Places \ Waiting,
         Becomes(Rest(Now, t, at))
  PROVE  Moves(t, Resting(at), replies)
BY Typing, RestTidy, MoveIs, BecomesIs DEF Moves

LEMMA DoneMoves ==
  ASSUME TypeInv, NEW t \in Tasks, task[t].at \notin Waiting, Becomes(Done(Now, t))
  PROVE  Moves(t, Resting("none"), replies)
BY Typing, DoneTidy, MoveIs, BecomesIs DEF Moves

LEMMA AskMoves ==
  ASSUME TypeInv, NEW t \in Tasks, task[t].at \notin Waiting, NEW at \in Waiting \ {"reporting"},
         NEW s \in SessionStates, Becomes(Asks(Now, t, at, s))
  PROVE  Moves(t, Asking(at, s), Append(replies, t))
BY Typing, AsksTidy, MoveIs, BecomesIs DEF Moves

LEMMA HeardTyping ==
  ASSUME TypeInv, replies # <<>>
  PROVE  Heard \in Works /\ Heard.task = task /\ Heard.replies = Tail(replies)
BY Typing, HeardWorks, HeardIs

LEMMA HeardRestMoves ==
  ASSUME TypeInv, NEW t \in Tasks, replies # <<>>, Head(replies) = t, NEW at \in Places \ Waiting,
         Becomes(Rest(Heard, t, at))
  PROVE  Moves(t, Resting(at), Tail(replies))
<1>1. Rest(Heard, t, at) = [task |-> [task EXCEPT ![t] = Resting(at)], replies |-> Tail(replies)]
  BY HeardTyping, MoveIs
<1> QED
  BY <1>1, Typing, HeardMoves, BecomesIs DEF Moves

LEMMA HeardDoneMoves ==
  ASSUME TypeInv, NEW t \in Tasks, replies # <<>>, Head(replies) = t, Becomes(Done(Heard, t))
  PROVE  Moves(t, Resting("none"), Tail(replies))
<1>1. Done(Heard, t) = [task |-> [task EXCEPT ![t] = Resting("none")], replies |-> Tail(replies)]
  BY HeardTyping, MoveIs
<1> QED
  BY <1>1, Typing, HeardMoves, BecomesIs DEF Moves

LEMMA HeardAskMoves ==
  ASSUME TypeInv, NEW t \in Tasks, replies # <<>>, Head(replies) = t,
         NEW at \in Waiting \ {"reporting"}, NEW s \in SessionStates, Becomes(Asks(Heard, t, at, s))
  PROVE  Moves(t, Asking(at, s), Append(Tail(replies), t))
<1>1. Asks(Heard, t, at, s) = [task |-> [task EXCEPT ![t] = Asking(at, s)],
                               replies |-> Append(Tail(replies), t)]
  BY HeardTyping, MoveIs
<1> QED
  BY <1>1, Typing, HeardMoves, BecomesIs DEF Moves

LEMMA StopMoves ==
  ASSUME TypeInv, NEW t \in Tasks, task[t].at \notin Waiting, StopCall(Now, t)
  PROVE  Stops(t, replies)
<1>1. "detaching" \in Places \ Waiting
  BY DEF Places, Passing, Waiting
<1> QED
  BY <1>1, RestMoves, DoneMoves DEF StopCall, Stops

LEMMA HeardStopMoves ==
  ASSUME TypeInv, NEW t \in Tasks, replies # <<>>, Head(replies) = t, StopCall(Heard, t)
  PROVE  Stops(t, Tail(replies))
<1>1. "detaching" \in Places \ Waiting
  BY DEF Places, Passing, Waiting
<1> QED
  BY <1>1, HeardRestMoves, HeardDoneMoves DEF StopCall, Stops

LEMMA ReportedIs ==
  ASSUME TypeInv, NEW w \in Works, Tidy(w), NEW r \in DOMAIN Reports,
         Matters(r) => \E u \in Tasks : w.task[u] = NoTask
  PROVE  /\ ~Matters(r) => Reported(w, r) = w
         /\ Matters(r) => \E u \in Tasks :
              /\ w.task[u] = NoTask
              /\ Reported(w, r) = [task |-> [w.task EXCEPT ![u] = Reporting(r)],
                                   replies |-> Append(w.replies, u)]
              /\ Tidy(Reported(w, r))
<1> DEFINE t == CHOOSE u \in Tasks : w.task[u] = NoTask
           x == Asks(w, t, "reporting", state)
<1>1. CASE ~Matters(r)
  BY <1>1 DEF Reported
<1>2. CASE Matters(r)
  <2>1. t \in Tasks /\ w.task[t] = NoTask
    BY <1>2
  <2>2. Reported(w, r) = [x EXCEPT !.task[t].report = r]
    BY <1>2 DEF Reported
  <2> HIDE DEF t
  <2>3. x = [task |-> [w.task EXCEPT ![t] = Asking("reporting", state)], replies |-> Append(w.replies, t)]
    BY <2>1, MoveIs
  <2>4. x.task[t] = Asking("reporting", state)
    BY <2>1, <2>3 DEF Works
  <2> HIDE DEF x
  <2>5. [Asking("reporting", state) EXCEPT !.report = r] = Reporting(r)
    BY DEF Asking, Reporting
  <2>6. [x EXCEPT !.task[t].report = r] =
          [task |-> [x.task EXCEPT ![t] = [x.task[t] EXCEPT !.report = r]], replies |-> x.replies]
    <3>1. \A f, q : [[task |-> f, replies |-> q] EXCEPT !.task[t].report = r] =
            [task |-> [f EXCEPT ![t] = [f[t] EXCEPT !.report = r]], replies |-> q]
      OBVIOUS
    <3>2. x = [task |-> x.task, replies |-> x.replies]
      BY <2>3
    <3> QED
      BY <3>1, <3>2
  <2>7. [x.task EXCEPT ![t] = Reporting(r)] = [w.task EXCEPT ![t] = Reporting(r)]
    BY <2>1, <2>3 DEF Works
  <2>8. Reported(w, r) = [task |-> [w.task EXCEPT ![t] = Reporting(r)], replies |-> Append(w.replies, t)]
    BY <2>2, <2>3, <2>4, <2>5, <2>6, <2>7
  <2>9. /\ Reporting(r) \in TaskType /\ Reporting(r).at \in Waiting /\ RestsWell(Reporting(r))
        /\ w.task[t].at \notin Waiting
    <3>1. r # "none"
      BY DEF Reports
    <3> QED
      BY <2>1, <3>1, Typing, PlacesAre DEF Reporting, TaskType, Waiting, RestsWell, NoTask, Places
  <2> QED
    BY <1>2, <2>1, <2>8, <2>9, AskTidy
<1> QED
  BY <1>1, <1>2

LEMMA TellMoves ==
  ASSUME TypeInv, NEW r \in DOMAIN Reports, CanReport(r), Becomes(Reported(Now, r))
  PROVE  Tells(r)
<1>1. Matters(r) => \E u \in Tasks : Now.task[u] = NoTask
  BY Typing DEF CanReport, Free
<1>2. CASE ~Matters(r)
  BY <1>1, <1>2, Typing, ReportedIs, BecomesIs DEF Tells, Now
<1>3. CASE Matters(r)
  BY <1>1, <1>3, Typing, ReportedIs, BecomesIs DEF Tells, Moves
<1> QED
  BY <1>2, <1>3

LEMMA MoveAndTellMoves ==
  ASSUME TypeInv, NEW t \in Tasks, task[t].at \notin Waiting, NEW at \in Places \ Waiting,
         NEW r \in DOMAIN Reports, Becomes(Reported(Rest(Now, t, at), r)),
         Matters(r) => at = "none" \/ \E u \in Tasks \ {t} : task[u] = NoTask
  PROVE  MovesAndTells(t, Resting(at), r)
<1> DEFINE w == Rest(Now, t, at)
           f == [task EXCEPT ![t] = Resting(at)]
<1>1. w = [task |-> f, replies |-> replies] /\ Tidy(w) /\ w \in Works
  <2>1. Tidy(w)
    BY Typing, RestTidy
  <2> QED
    BY <2>1, Typing, MoveIs DEF Tidy
<1>2. \A u \in Tasks : f[u] = IF u = t THEN Resting(at) ELSE task[u]
  BY Typing
<1>3. Matters(r) => \E u \in Tasks : w.task[u] = NoTask
  BY <1>1, <1>2, NoTaskIs
<1> HIDE DEF w
<1>4. Becomes(Reported(w, r))
  BY DEF w
<1>5. CASE ~Matters(r)
  <2>1. Reported(w, r) = w
    BY <1>1, <1>3, <1>5, ReportedIs
  <2> QED
    BY <1>1, <1>4, <1>5, <2>1, BecomesIs DEF MovesAndTells, Moves
<1>6. CASE Matters(r)
  <2>1. PICK u \in Tasks :
          /\ w.task[u] = NoTask
          /\ Reported(w, r) = [task |-> [w.task EXCEPT ![u] = Reporting(r)], replies |-> Append(w.replies, u)]
          /\ Tidy(Reported(w, r))
    BY <1>1, <1>3, <1>6, ReportedIs
  <2>2. /\ task' = [w.task EXCEPT ![u] = Reporting(r)] /\ replies' = Append(w.replies, u) /\ Tidy(Now)'
    BY <1>4, <2>1, BecomesIs
  <2>3. w.task = f /\ w.replies = replies
    BY <1>1
  <2>4. f[u] = NoTask /\ task' = [f EXCEPT ![u] = Reporting(r)]
    BY <2>1, <2>2, <2>3
  <2> QED
    BY <1>6, <2>2, <2>3, <2>4 DEF MovesAndTells
<1> QED
  BY <1>5, <1>6

LEMMA PlacesRest ==
  /\ {"none", "looking", "checking", "creating", "capturing", "granted", "refused", "connecting",
      "verifying", "attaching", "ending", "detaching", "hangingUp", "uncapturing", "closing",
      "sweeping"} \subseteq Places \ Waiting
  /\ {"enabling", "enabled", "activated", "reading", "stopping", "requesting", "verified",
      "noticing", "waking"} \subseteq Waiting \ {"reporting"}
BY DEF Places, Waiting, Enabling, Verifying, Ending, Passing, Waking

LEMMA ReportsAre ==
  /\ DOMAIN Reports = {"online", "away", "connected", "interrupted", "opened", "shut", "ended"}
  /\ SenderReports \subseteq DOMAIN Reports
  /\ \A r \in DOMAIN Reports : Reports[r].from \subseteq Phases /\ Reports[r].to \in Phases \ {"idle", "enabled"}
  /\ \A r \in DOMAIN Reports : "idle" \notin Reports[r].from \/ r = "connected"
  /\ \A r \in DOMAIN Reports : Reports[r].to \in {"peer-connected", "authenticating"} <=> r \in {"connected", "opened"}
  /\ \A r \in DOMAIN Reports : Reports[r].to # "remote-active"
  /\ Reports["away"].from = {"peer-connected", "authenticating", "remote-active"}
  /\ Reports["ended"].from = Phases \ {"idle", "enabled"}
<1>1. DOMAIN Reports = {"online", "away", "connected", "interrupted", "opened", "shut", "ended"}
  BY DEF Reports
<1>2. /\ Reports["online"] = [from |-> {"enabled"}, to |-> "signaling"]
      /\ Reports["away"] = [from |-> {"peer-connected", "authenticating", "remote-active"}, to |-> "reconnecting"]
      /\ Reports["connected"] = [from |-> Phases, to |-> "peer-connected"]
      /\ Reports["interrupted"] = [from |-> Phases \ {"idle"}, to |-> "reconnecting"]
      /\ Reports["opened"] = [from |-> {"peer-connected"}, to |-> "authenticating"]
      /\ Reports["shut"] = [from |-> {"remote-active"}, to |-> "reconnecting"]
      /\ Reports["ended"] = [from |-> EndsFrom, to |-> "signaling"]
  BY DEF Reports
<1> QED
  BY <1>1, <1>2 DEF Phases, SenderReports, EndsFrom

(* enableRemote and startSignaling                                           *)
LEMMA EnableEffects ==
  ASSUME TypeInv, NEW t \in Tasks
  PROVE  /\ EnableLoaded(t) => Moves(t, Resting("looking"), Tail(replies))
         /\ TabRefused(t) => Moves(t, Resting("none"), replies)
         /\ TabFound(t) => Moves(t, Asking("enabled", Off), Append(replies, t))
         /\ EnableSaved(t) => Moves(t, Resting("checking"), Tail(replies))
         /\ CheckDocument(t) => \E at \in {"creating", "capturing", "refused"} : Moves(t, Resting(at), replies)
         /\ CreateDocument(t) => \E at \in {"capturing", "refused"} : Moves(t, Resting(at), replies)
         /\ CreateFails(t) => Stops(t, replies)
         /\ CaptureTimesOut(t) => Moves(t, Resting("refused"), replies)
         /\ FailCapture(t) => Stops(t, replies)
         /\ CaptureActive(t) => Moves(t, Asking("activated", Off), Append(replies, t))
         /\ Activated(t) => Moves(t, Resting("connecting"), Tail(replies))
         /\ StartSignaling(t) => MovesAndTells(t, Resting("none"), "away")
<1>1. EnableLoaded(t) => Moves(t, Resting("looking"), Tail(replies))
  BY HeardRestMoves, PlacesRest DEF EnableLoaded, Answered
<1>2. TabRefused(t) => Moves(t, Resting("none"), replies)
  BY DoneMoves DEF TabRefused, At, Waiting
<1>3. TabFound(t) => Moves(t, Asking("enabled", Off), Append(replies, t))
  BY AskMoves, PlacesRest, PlacesAre DEF TabFound, At, Waiting
<1>4. EnableSaved(t) => Moves(t, Resting("checking"), Tail(replies))
  BY HeardRestMoves, PlacesRest DEF EnableSaved, Answered
<1>5. ASSUME NEW d, task[t].at \notin Waiting, StartCapture(t, d)
      PROVE  \E at \in {"capturing", "refused"} : Moves(t, Resting(at), replies)
  BY <1>5, RestMoves, PlacesRest DEF StartCapture
<1>6. CheckDocument(t) => \E at \in {"creating", "capturing", "refused"} : Moves(t, Resting(at), replies)
  BY <1>5, RestMoves, PlacesRest DEF CheckDocument, At, Waiting
<1>7. CreateDocument(t) => \E at \in {"capturing", "refused"} : Moves(t, Resting(at), replies)
  BY <1>5 DEF CreateDocument, At, Waiting
<1>8. CreateFails(t) => Stops(t, replies)
  BY StopMoves DEF CreateFails, At, Waiting
<1>9. CaptureTimesOut(t) => Moves(t, Resting("refused"), replies)
  BY RestMoves, PlacesRest DEF CaptureTimesOut, Timed, At, Waiting
<1>10. FailCapture(t) => Stops(t, replies)
  BY StopMoves DEF FailCapture, At, Waiting
<1>11. CaptureActive(t) => Moves(t, Asking("activated", Off), Append(replies, t))
  BY AskMoves, PlacesRest, PlacesAre DEF CaptureActive, At, Waiting
<1>12. Activated(t) => Moves(t, Resting("connecting"), Tail(replies))
  BY HeardRestMoves, PlacesRest DEF Activated, Answered
<1>13. StartSignaling(t) => MovesAndTells(t, Resting("none"), "away")
  <2>1. Done(Now, t) = Rest(Now, t, "none")
    BY Typing, DoneIs
  <2> QED
    BY <2>1, MoveAndTellMoves, PlacesRest, ReportsAre DEF StartSignaling, At, Waiting
<1> QED
  BY <1>1, <1>2, <1>3, <1>4, <1>6, <1>7, <1>8, <1>9, <1>10, <1>11, <1>12, <1>13

(* The teardown pass, and what the worker does after a restart               *)
LEMMA DroppedTidy ==
  ASSUME TypeInv, NEW t \in Tasks, task[t].at \notin Waiting
  PROVE  /\ Dropped(Now) \in Works /\ Tidy(Dropped(Now)) /\ Dropped(Now).replies = replies
         /\ Dropped(Now).task =
              [u \in Tasks |-> IF task[u].at = "capturing" THEN Resting("refused") ELSE task[u]]
         /\ Dropped(Now).task[t].at \notin Waiting
<1> DEFINE f == [u \in Tasks |-> IF task[u].at = "capturing" THEN Resting("refused") ELSE task[u]]
           w == [task |-> f, replies |-> replies]
<1>1. Dropped(Now) = w
  <2>1. \A g : [Now EXCEPT !.task = g] = [task |-> g, replies |-> replies]
    BY DEF Now
  <2>2. Dropped(Now) = [Now EXCEPT !.task = f]
    BY Typing, NoTaskIs DEF Dropped
  <2> QED
    BY <2>1, <2>2
<1>2. w.task = f /\ w.replies = replies
  OBVIOUS
<1>3. Resting("refused") \in TaskType /\ RestsWell(Resting("refused")) /\ Resting("refused").at = "refused"
  BY PlacesRest, PlacesAre DEF Resting, TaskType, RestsWell
<1>4. w \in Works
  BY <1>3, Typing DEF Works
<1>5. \A u \in Tasks : (f[u].at \in Waiting <=> task[u].at \in Waiting) /\ RestsWell(f[u])
  BY <1>3, Typing DEF Waiting, Tidy
<1> HIDE DEF w
<1>6. Tidy(w)
  BY <1>2, <1>4, <1>5, Typing DEF Tidy, OwedOnce, Owes
<1> QED
  BY <1>1, <1>2, <1>4, <1>5, <1>6

MovesDropping(t, x, q) ==
  /\ task' = [[u \in Tasks |-> IF task[u].at = "capturing" THEN Resting("refused") ELSE task[u]]
                EXCEPT ![t] = x]
  /\ replies' = q /\ Tidy(Now)'

LEMMA PassEffects ==
  ASSUME TypeInv, NEW t \in Tasks
  PROVE  /\ InputStops(t) => Moves(t, Resting("hangingUp"), replies)
         /\ PeerStops(t) => \/ client # "none" /\ MovesAndTells(t, Resting("uncapturing"), "away")
                            \/ client # "online" /\ Moves(t, Resting("uncapturing"), replies)
         /\ CaptureStops(t) => Moves(t, Resting("closing"), replies)
         /\ DocumentCloses(t) => MovesDropping(t, Asking("reading", Off), Append(replies, t))
         /\ StateStops(t) => Moves(t, Asking("stopping", Off), Append(Tail(replies), t))
         /\ PassFinished(t) => Moves(t, Resting("none"), Tail(replies))
         /\ Noticed(t) => Stops(t, Tail(replies))
         /\ Reconciled(t) => Moves(t, Resting("sweeping"), Tail(replies))
         /\ LeftoversClose(t) => MovesDropping(t, Resting("none"), replies)
<1>1. InputStops(t) => Moves(t, Resting("hangingUp"), replies)
  BY RestMoves, PlacesRest DEF InputStops, At, Waiting
<1>2. PeerStops(t) => \/ client # "none" /\ MovesAndTells(t, Resting("uncapturing"), "away")
                      \/ client # "online" /\ Moves(t, Resting("uncapturing"), replies)
  <2>1. PeerStops(t) => task[t].at = "hangingUp" /\ task[t] # NoTask
    BY DEF PeerStops, At, NoTask
  <2>2. PeerStops(t) /\ CanReport("away") /\ Matters("away") => \E u \in Tasks \ {t} : task[u] = NoTask
    BY <2>1 DEF CanReport, Free
  <2> QED
    BY <2>1, <2>2, RestMoves, MoveAndTellMoves, PlacesRest, ReportsAre DEF PeerStops, Waiting
<1>3. CaptureStops(t) => Moves(t, Resting("closing"), replies)
  BY RestMoves, PlacesRest DEF CaptureStops, At, Waiting
<1>4. DocumentCloses(t) => MovesDropping(t, Asking("reading", Off), Append(replies, t))
  <2>1. DocumentCloses(t) => task[t].at \notin Waiting /\ Becomes(Asks(Dropped(Now), t, "reading", Off))
    BY DEF DocumentCloses, At, Waiting
  <2> SUFFICES ASSUME DocumentCloses(t)
               PROVE  MovesDropping(t, Asking("reading", Off), Append(replies, t))
    OBVIOUS
  <2> DEFINE w == Dropped(Now)
  <2>2. w \in Works /\ Tidy(w) /\ w.replies = replies /\ w.task[t].at \notin Waiting
    BY <2>1, DroppedTidy
  <2>3. Becomes(Asks(w, t, "reading", Off))
    BY <2>1
  <2>4. w.task = [u \in Tasks |-> IF task[u].at = "capturing" THEN Resting("refused") ELSE task[u]]
    BY <2>1, DroppedTidy
  <2> HIDE DEF w
  <2>5. Tidy(Asks(w, t, "reading", Off))
    BY <2>2, AsksTidy, PlacesRest, PlacesAre
  <2>6. Asks(w, t, "reading", Off) = [task |-> [w.task EXCEPT ![t] = Asking("reading", Off)],
                                      replies |-> Append(replies, t)]
    BY <2>2, MoveIs
  <2> QED
    BY <2>3, <2>4, <2>5, <2>6, BecomesIs DEF MovesDropping
<1>5. StateStops(t) => Moves(t, Asking("stopping", Off), Append(Tail(replies), t))
  BY HeardAskMoves, PlacesRest, PlacesAre DEF StateStops, Answered
<1>6. PassFinished(t) => Moves(t, Resting("none"), Tail(replies))
  BY HeardDoneMoves DEF PassFinished, Answered
<1>7. Noticed(t) => Stops(t, Tail(replies))
  BY HeardStopMoves DEF Noticed, Answered
<1>8. Reconciled(t) => Moves(t, Resting("sweeping"), Tail(replies))
  BY HeardRestMoves, PlacesRest DEF Reconciled, Answered
<1>9. LeftoversClose(t) => MovesDropping(t, Resting("none"), replies)
  <2>1. LeftoversClose(t) => task[t].at \notin Waiting /\ Becomes(Done(Dropped(Now), t))
    BY DEF LeftoversClose, At, Waiting
  <2> SUFFICES ASSUME LeftoversClose(t)
               PROVE  MovesDropping(t, Resting("none"), replies)
    OBVIOUS
  <2> DEFINE w == Dropped(Now)
  <2>2. w \in Works /\ Tidy(w) /\ w.replies = replies /\ w.task[t].at \notin Waiting
    BY <2>1, DroppedTidy
  <2>3. Becomes(Done(w, t))
    BY <2>1
  <2>4. w.task = [u \in Tasks |-> IF task[u].at = "capturing" THEN Resting("refused") ELSE task[u]]
    BY <2>1, DroppedTidy
  <2> HIDE DEF w
  <2>5. Tidy(Done(w, t))
    BY <2>2, DoneTidy
  <2>6. Done(w, t) = [task |-> [w.task EXCEPT ![t] = Resting("none")], replies |-> replies]
    BY <2>2, MoveIs
  <2> QED
    BY <2>3, <2>4, <2>5, <2>6, BecomesIs DEF MovesDropping
<1> QED
  BY <1>1, <1>2, <1>3, <1>4, <1>5, <1>6, <1>7, <1>8, <1>9

(* The session                                                               *)
LEMMA SessionEffects ==
  ASSUME TypeInv, NEW t \in Tasks
  PROVE  /\ RequestLoaded(t) => Moves(t, Resting("none"), Tail(replies))
         /\ ReportLoaded(t) => \/ Moves(t, Resting("none"), Tail(replies))
                               \/ /\ task[t].report = "opened"
                                  /\ Moves(t, Asking("noticing", Off), Append(Tail(replies), t))
         /\ ProofVerified(t) => Moves(t, Asking("verified", state), Append(replies, t))
         /\ onPeerVerified(t) => IF task[t].seen.phase = "authenticating"
                                 THEN Moves(t, Resting("attaching"), Tail(replies))
                                 ELSE Moves(t, Resting("none"), Tail(replies))
         /\ InputAttached(t) => Moves(t, Resting("none"), replies)
         /\ AttachFails(t) => Stops(t, replies)
         /\ SessionEnds(t) => MovesAndTells(t, Resting("none"), "ended")
<1>1. RequestLoaded(t) => Moves(t, Resting("none"), Tail(replies))
  BY HeardDoneMoves DEF RequestLoaded, Answered
<1>2. ReportLoaded(t) => \/ Moves(t, Resting("none"), Tail(replies))
                         \/ /\ task[t].report = "opened"
                            /\ Moves(t, Asking("noticing", Off), Append(Tail(replies), t))
  BY HeardDoneMoves, HeardAskMoves, PlacesRest, PlacesAre DEF ReportLoaded, Answered
<1>3. ProofVerified(t) => Moves(t, Asking("verified", state), Append(replies, t))
  BY AskMoves, PlacesRest, Typing DEF ProofVerified, At, Waiting
<1>4. onPeerVerified(t) => IF task[t].seen.phase = "authenticating"
                           THEN Moves(t, Resting("attaching"), Tail(replies))
                           ELSE Moves(t, Resting("none"), Tail(replies))
  BY HeardRestMoves, HeardDoneMoves, PlacesRest DEF onPeerVerified, Answered
<1>5. InputAttached(t) => Moves(t, Resting("none"), replies)
  BY DoneMoves DEF InputAttached, At, Waiting
<1>6. AttachFails(t) => Stops(t, replies)
  BY StopMoves DEF AttachFails, At, Waiting
<1>7. SessionEnds(t) => MovesAndTells(t, Resting("none"), "ended")
  <2>1. Done(Now, t) = Rest(Now, t, "none")
    BY Typing, DoneIs
  <2> QED
    BY <2>1, MoveAndTellMoves, PlacesRest, ReportsAre DEF SessionEnds, At, Waiting
<1> QED
  BY <1>1, <1>2, <1>3, <1>4, <1>5, <1>6, <1>7

(* What comes from outside takes a free task.                                *)
Starts(x) == \E t \in Tasks : task[t] = NoTask /\ Moves(t, x, replies)
StartsAsking(x) == \E t \in Tasks : task[t] = NoTask /\ Moves(t, x, Append(replies, t))
Woken ==
  /\ replies' = IF state.phase = "idle" THEN <<>> ELSE <<CHOOSE u \in Tasks : TRUE>>
  /\ \A t \in Tasks : task'[t] = IF state.phase # "idle" /\ t = CHOOSE u \in Tasks : TRUE
                                 THEN Resting("waking") ELSE NoTask
  /\ Tidy(Now)'

LEMMA SlotFree ==
  ASSUME Room
  PROVE  Slot \in Tasks /\ task[Slot] = NoTask /\ task[Slot].at \notin Waiting
<1>1. Free # {}
  BY DEF Room
<1>2. Slot \in Free
  BY <1>1 DEF Slot
<1> QED
  BY <1>2 DEF Free, NoTask, Waiting

LEMMA OutsideEffects ==
  ASSUME TypeInv
  PROVE  /\ EnableClicked => StartsAsking(Asking("enabling", state))
         /\ StopClicked \/ RevokeClicked => \E t \in Tasks : task[t] = NoTask /\ Stops(t, replies)
         /\ ClientOnline => Tells("online")
         /\ ClientLost => Tells("away")
         /\ SessionRequested => StartsAsking(Asking("requesting", state))
         /\ \A r \in SenderReports : SenderEvent(r) => Tells(r)
         /\ ProofArrives => Starts(Resting("verifying"))
         /\ SessionFails \/ DebuggerDetached => Starts(Resting("ending"))
         /\ TrackEnds => IF LossMatters(state) THEN StartsAsking(Resting("noticing"))
                                               ELSE UNCHANGED <<task, replies>> /\ Tidy(Now)'
         /\ TabCloses => StartsAsking(Resting("noticing"))
<1>1. Event \/ Forward => Room
  BY DEF Event, Forward
<1>2. \A at : Asking(at, Off) = Resting(at)
  BY DEF Asking, Resting
<1>3. Room => \A r : CanReport(r)
  BY DEF Room, CanReport
<1>4. EnableClicked => StartsAsking(Asking("enabling", state))
  BY <1>1, SlotFree, AskMoves, PlacesRest, Typing DEF EnableClicked, StartsAsking
<1>5. StopClicked \/ RevokeClicked => \E t \in Tasks : task[t] = NoTask /\ Stops(t, replies)
  BY <1>1, SlotFree, StopMoves DEF StopClicked, RevokeClicked
<1>6. ClientOnline => Tells("online")
  BY <1>3, TellMoves, ReportsAre DEF ClientOnline
<1>7. ClientLost => Tells("away")
  BY <1>1, <1>3, TellMoves, ReportsAre DEF ClientLost
<1>8. SessionRequested => StartsAsking(Asking("requesting", state))
  BY <1>1, SlotFree, AskMoves, PlacesRest, Typing DEF SessionRequested, StartsAsking
<1>9. \A r \in SenderReports : SenderEvent(r) => Tells(r)
  BY <1>1, <1>3, TellMoves, ReportsAre DEF SenderEvent
<1>10. ProofArrives => Starts(Resting("verifying"))
  BY <1>1, SlotFree, RestMoves, PlacesRest DEF ProofArrives, Starts
<1>11. SessionFails \/ DebuggerDetached => Starts(Resting("ending"))
  BY <1>1, SlotFree, RestMoves, PlacesRest DEF SessionFails, DebuggerDetached, Starts
<1>12. TabCloses => StartsAsking(Resting("noticing"))
  BY <1>1, <1>2, SlotFree, AskMoves, PlacesRest, PlacesAre DEF TabCloses, StartsAsking
<1>13. TrackEnds => IF LossMatters(state) THEN StartsAsking(Resting("noticing"))
                                          ELSE UNCHANGED <<task, replies>> /\ Tidy(Now)'
  <2>1. CASE LossMatters(state)
    BY <1>1, <1>2, <2>1, SlotFree, AskMoves, PlacesRest, PlacesAre DEF TrackEnds, StartsAsking
  <2>2. CASE ~LossMatters(state)
    BY <2>2, Typing, BecomesIs DEF TrackEnds, Now
  <2> QED
    BY <2>1, <2>2
<1> QED
  BY <1>4, <1>5, <1>6, <1>7, <1>8, <1>9, <1>10, <1>11, <1>12, <1>13

LEMMA CaptureEffects ==
  ASSUME TypeInv, NEW g \in Tasks \cup {Orphan}
  PROVE  /\ CaptureGranted(g) =>
              IF g = Orphan THEN UNCHANGED <<task, replies>> /\ Tidy(Now)'
              ELSE task[g].at = "capturing" /\ Moves(g, Resting("granted"), replies)
         /\ CaptureRefused(g) =>
              IF g = Orphan THEN UNCHANGED <<task, replies>> /\ Tidy(Now)'
              ELSE task[g].at = "capturing" /\ Moves(g, Resting("refused"), replies)
<1>1. CASE g = Orphan
  BY <1>1, Typing, BecomesIs DEF CaptureGranted, CaptureRefused, Now
<1>2. CASE g # Orphan
  <2>1. CaptureGranted(g) \/ CaptureRefused(g) => task[g].at = "capturing"
    BY <1>2 DEF CaptureGranted, CaptureRefused, TypeInv, Requested
  <2>2. "capturing" \notin Waiting
    BY DEF Waiting
  <2> QED
    BY <1>2, <2>1, <2>2, RestMoves, PlacesRest DEF CaptureGranted, CaptureRefused
<1> QED
  BY <1>1, <1>2

LEMMA RestartEffect ==
  ASSUME TypeInv, Restart
  PROVE  Woken
<1> DEFINE fresh == [task |-> [t \in Tasks |-> NoTask], replies |-> <<>>]
           t0 == CHOOSE u \in Tasks : TRUE
           w == IF state.phase = "idle" THEN fresh ELSE Asks(fresh, t0, "waking", Off)
<1>1. t0 \in Tasks
  BY TasksAssumption
<1>0. fresh.task = [t \in Tasks |-> NoTask] /\ fresh.replies = <<>>
  OBVIOUS
<1>2. fresh \in Works /\ Tidy(fresh) /\ \A t \in Tasks : fresh.task[t].at \notin Waiting
  <2>1. NoTask \in TaskType /\ RestsWell(NoTask) /\ NoTask.at \notin Waiting
    BY PlacesAre DEF NoTask, TaskType, RestsWell
  <2> QED
    BY <2>1 DEF Works, Tidy, OwedOnce, Owes
<1> HIDE DEF t0, fresh
<1>3. Asks(fresh, t0, "waking", Off) =
        [task |-> [[t \in Tasks |-> NoTask] EXCEPT ![t0] = Resting("waking")], replies |-> <<t0>>]
  <2>1. Asking("waking", Off) = Resting("waking") /\ Append(<<>>, t0) = <<t0>>
    BY DEF Asking, Resting
  <2>2. Asks(fresh, t0, "waking", Off) =
          [task |-> [fresh.task EXCEPT ![t0] = Asking("waking", Off)], replies |-> Append(fresh.replies, t0)]
    BY <1>1, <1>2, MoveIs
  <2> QED
    BY <1>0, <2>1, <2>2
<1>4. Tidy(w)
  BY <1>1, <1>2, AsksTidy, PlacesRest, PlacesAre
<1>5. task' = w.task /\ replies' = w.replies
  BY DEF Restart, t0, fresh
<1>6. w \in Works /\ w = [task |-> w.task, replies |-> w.replies]
  BY <1>4 DEF Tidy, Works
<1>7. Now' = w
  BY <1>5, <1>6 DEF Now
<1>8. Tidy(Now)'
  BY <1>4, <1>7 DEF Tidy, Works, OwedOnce, Owes
<1>9. CASE state.phase = "idle"
  BY <1>5, <1>0, <1>8, <1>9 DEF Woken
<1>10. CASE state.phase # "idle"
  <2>1. task' = [[t \in Tasks |-> NoTask] EXCEPT ![t0] = Resting("waking")] /\ replies' = <<t0>>
    BY <1>3, <1>5, <1>10
  <2>2. \A t \in Tasks : task'[t] = IF t = t0 THEN Resting("waking") ELSE NoTask
    BY <1>1, <2>1
  <2> QED
    BY <1>8, <1>10, <2>1, <2>2 DEF Woken, t0
<1> QED
  BY <1>9, <1>10
-----------------------------------------------------------------------------
(* Types                                                                     *)
Docs == [open : BOOLEAN, capture : {"idle", "starting", "active", "error"},
         stream : BOOLEAN, getting : SUBSET (Tasks \cup {Orphan})]

LEMMA TypesKept ==
  ASSUME TypeInv, Tidy(Now)', raced' \in BOOLEAN, state' \in SessionStates, OffStored',
         doc' \in Docs, Requested', power' \in BOOLEAN, debugger' \in BOOLEAN,
         client' \in {"none", "away", "online"}, active' \in BOOLEAN,
         teardown' \in Tasks \cup {"null", "finished"}, asked' \in {"nothing", "enable", "stop"},
         events' \in 0..MaxEvents
  PROVE  TypeInv'
<1>1. task' \in [Tasks -> TaskType] /\ replies' \in Seq(Tasks)
  BY DEF Tidy, Now, Works
<1>2. \A i \in 1..Len(replies') : task'[replies'[i]].at \in Waiting
  <2>1. \A i \in 1..Len(replies') : replies'[i] \in Tasks
    BY <1>1
  <2> QED
    BY <2>1 DEF Tidy, Now, Owes
<1>3. TypeOK'
  BY <1>1, <1>2 DEF TypeOK, TaskType, Docs, At, Waiting
<1> QED
  BY <1>3 DEF TypeInv

(* A capture that is still asked for keeps its task, unless it is free.      *)
CapturingKept ==
  \A u \in Tasks : task[u].at = "capturing" /\ u \in doc'.getting => task'[u].at = "capturing"

LEMMA RequestedKept ==
  ASSUME TypeInv, \A u \in Tasks : u \in doc'.getting => u \in doc.getting, CapturingKept
  PROVE  Requested'
BY DEF TypeInv, Requested, CapturingKept

LEMMA MovesKeep ==
  ASSUME TypeInv
  PROVE  /\ \A t \in Tasks : \A x, q : Moves(t, x, q) /\ (task[t].at = "capturing" => t \notin doc'.getting) =>
              CapturingKept /\ Tidy(Now)'
         /\ \A t \in Tasks : \A q : Stops(t, q) /\ task[t].at # "capturing" =>
              CapturingKept /\ Tidy(Now)' /\ teardown' \in {teardown, t}
         /\ \A t \in Tasks : \A x, r : MovesAndTells(t, x, r) /\ task[t].at # "capturing" =>
              CapturingKept /\ Tidy(Now)'
         /\ \A r : Tells(r) => CapturingKept /\ Tidy(Now)'
         /\ \A x : Starts(x) \/ StartsAsking(x) => CapturingKept /\ Tidy(Now)'
<1>1. task \in [Tasks -> TaskType] /\ NoTask.at # "capturing"
  BY Typing DEF NoTask
<1>2. ASSUME NEW t \in Tasks, NEW x, NEW q, Moves(t, x, q),
             task[t].at = "capturing" => t \notin doc'.getting
      PROVE  CapturingKept /\ Tidy(Now)'
  BY <1>1, <1>2 DEF Moves, CapturingKept
<1>3. ASSUME NEW t \in Tasks, NEW q, Stops(t, q), task[t].at # "capturing"
      PROVE  CapturingKept /\ Tidy(Now)' /\ teardown' \in {teardown, t}
  BY <1>2, <1>3 DEF Stops
<1>4. ASSUME NEW t \in Tasks, NEW x, NEW r, MovesAndTells(t, x, r), task[t].at # "capturing"
      PROVE  CapturingKept /\ Tidy(Now)'
  <2>1. CASE Moves(t, x, replies)
    BY <1>2, <1>4, <2>1
  <2>2. ASSUME NEW u \in Tasks, [task EXCEPT ![t] = x][u] = NoTask,
               task' = [task EXCEPT ![t] = x, ![u] = Reporting(r)]
        PROVE  CapturingKept
    BY <1>1, <1>4, <2>2 DEF CapturingKept
  <2> QED
    BY <1>4, <2>1, <2>2 DEF MovesAndTells
<1>5. ASSUME NEW r, Tells(r)
      PROVE  CapturingKept /\ Tidy(Now)'
  BY <1>1, <1>2, <1>5 DEF Tells, CapturingKept
<1>6. ASSUME NEW x, Starts(x) \/ StartsAsking(x)
      PROVE  CapturingKept /\ Tidy(Now)'
  BY <1>1, <1>2, <1>6 DEF Starts, StartsAsking
<1> QED
  BY <1>2, <1>3, <1>4, <1>5, <1>6

LEMMA RacedTyped ==
  ASSUME TypeInv, NEW w, Becomes(w)
  PROVE  raced' \in BOOLEAN
BY DEF Becomes, TypeInv, TypeOK

(* The other variables of an action, when the state and the document keep.   *)
Switches ==
  /\ power' \in BOOLEAN /\ debugger' \in BOOLEAN /\ client' \in {"none", "away", "online"}
  /\ active' \in BOOLEAN /\ asked' \in {"nothing", "enable", "stop"} /\ events' \in 0..MaxEvents

LEMMA OthersKept ==
  ASSUME TypeInv, CapturingKept, Tidy(Now)', raced' \in BOOLEAN, UNCHANGED <<state, doc>>, Switches,
         teardown' \in Tasks \cup {"null", "finished"}
  PROVE  TypeInv'
<1>1. state \in SessionStates /\ doc \in Docs /\ OffStored' /\ Requested'
  BY RequestedKept DEF TypeInv, TypeOK, Docs, OffStored
<1> QED
  BY <1>1, TypesKept DEF Switches

LEMMA StateSaved ==
  ASSUME TypeInv, CapturingKept, Tidy(Now)', raced' \in BOOLEAN, state' \in SessionStates, OffStored',
         UNCHANGED doc, Switches, teardown' \in Tasks \cup {"null", "finished"}
  PROVE  TypeInv'
<1>1. doc \in Docs /\ Requested'
  BY RequestedKept DEF TypeInv, TypeOK, Docs
<1> QED
  BY <1>1, TypesKept DEF Switches

LEMMA EnableTypes ==
  ASSUME TypeInv, NEW t \in Tasks,
         \/ EnableLoaded(t) \/ TabRefused(t) \/ TabFound(t) \/ EnableSaved(t) \/ CheckDocument(t)
         \/ CreateDocument(t) \/ CreateFails(t) \/ CaptureTimesOut(t) \/ FailCapture(t)
         \/ CaptureActive(t) \/ Activated(t) \/ StartSignaling(t)
  PROVE  TypeInv'
<1>1. CASE EnableLoaded(t) \/ TabRefused(t) \/ EnableSaved(t) \/ CreateFails(t) \/ FailCapture(t)
           \/ Activated(t) \/ StartSignaling(t)
  <2>1. CapturingKept /\ Tidy(Now)' /\ teardown' \in {teardown, t, "null"}
    BY <1>1, EnableEffects, MovesKeep
       DEF EnableLoaded, TabRefused, EnableSaved, CreateFails, FailCapture, Activated, StartSignaling,
           Answered, At, StopCall
  <2>2. UNCHANGED <<state, doc>> /\ Switches
    BY <1>1
       DEF EnableLoaded, TabRefused, EnableSaved, CreateFails, FailCapture, Activated, StartSignaling,
           Quietly, Switches, TypeInv, TypeOK
  <2>3. raced' \in BOOLEAN
    BY <1>1, RacedTyped
       DEF EnableLoaded, TabRefused, EnableSaved, CreateFails, FailCapture, Activated, StartSignaling,
           StopCall
  <2> QED
    BY <2>1, <2>2, <2>3, OthersKept DEF TypeInv, TypeOK
<1>2. CASE TabFound(t) \/ CaptureActive(t)
  <2>1. CapturingKept /\ Tidy(Now)'
    BY <1>2, EnableEffects, MovesKeep DEF TabFound, CaptureActive, At
  <2>2. state' \in SessionStates /\ OffStored' /\ UNCHANGED <<doc, teardown>> /\ Switches
    BY <1>2 DEF TabFound, CaptureActive, OffStored, SessionStates, Phases, Quietly, Switches, TypeInv, TypeOK
  <2>3. raced' \in BOOLEAN
    BY <1>2, RacedTyped DEF TabFound, CaptureActive
  <2> QED
    BY <2>1, <2>2, <2>3, StateSaved DEF TypeInv, TypeOK
<1>3. CASE CaptureTimesOut(t)
  <2>1. /\ doc \in Docs /\ doc' = [doc EXCEPT !.getting = Forget(doc.getting, t)]
        /\ task[t].at \in Timed /\ t # Orphan
    BY <1>3, TasksAssumption DEF CaptureTimesOut, TypeInv, TypeOK, Docs, At
  <2>2. /\ doc' \in Docs /\ doc'.getting = Forget(doc.getting, t)
    BY <2>1 DEF Docs, Forget
  <2>3. t \notin doc'.getting /\ \A u \in Tasks : u \in doc'.getting => u \in doc.getting
    BY <2>1, <2>2, TasksAssumption DEF Forget
  <2>4. CapturingKept /\ Tidy(Now)' /\ Requested'
    BY <1>3, <2>3, EnableEffects, MovesKeep, RequestedKept
  <2>5. /\ UNCHANGED <<state, power, debugger, client, active, teardown>> /\ UNCHANGED <<asked, events>>
        /\ raced' \in BOOLEAN
    BY <1>3, RacedTyped DEF CaptureTimesOut, Quietly
  <2> QED
    BY <2>2, <2>4, <2>5, TypesKept DEF TypeInv, TypeOK, OffStored
<1>4. CASE CheckDocument(t) \/ CreateDocument(t)
  <2>1. /\ doc \in Docs /\ NoDoc \in Docs /\ [NoDoc EXCEPT !.open = TRUE] \in Docs
        /\ [NoDoc EXCEPT !.open = TRUE].getting = {}
    BY DEF TypeInv, TypeOK, Docs, NoDoc
  <2>2. /\ UNCHANGED <<state, power, debugger, client, active, teardown>> /\ UNCHANGED <<asked, events>>
        /\ raced' \in BOOLEAN /\ task[t].at # "capturing"
    BY <1>4, RacedTyped DEF CheckDocument, CreateDocument, StartCapture, Quietly, At
  <2>3. ASSUME NEW d \in Docs, StartCapture(t, d), task[t].at \notin Waiting,
               \A u \in Tasks : u \in d.getting => u \in doc.getting
        PROVE  doc' \in Docs /\ Requested' /\ Tidy(Now)'
    <3>1. CASE doc' = d /\ Becomes(Rest(Now, t, "refused"))
      <4>1. Moves(t, Resting("refused"), replies)
        BY <2>3, <3>1, RestMoves, PlacesRest
      <4> QED
        BY <2>2, <2>3, <3>1, <4>1, MovesKeep, RequestedKept
    <3>2. CASE /\ doc' = [d EXCEPT !.capture = "starting", !.getting = @ \cup {t}]
               /\ Becomes(Rest(Now, t, "capturing"))
      <4>1. Moves(t, Resting("capturing"), replies)
        BY <2>3, <3>2, RestMoves, PlacesRest
      <4>2. doc' \in Docs /\ doc'.getting = d.getting \cup {t}
        BY <2>3, <3>2 DEF Docs
      <4>3. \A u \in Tasks : task'[u] = IF u = t THEN Resting("capturing") ELSE task[u]
        BY <4>1, Typing DEF Moves
      <4> QED
        BY <2>3, <4>1, <4>2, <4>3 DEF Moves, Requested, Resting, TypeInv
    <3> QED
      BY <2>3, <3>1, <3>2 DEF StartCapture
  <2>4. CASE UNCHANGED doc /\ Becomes(Rest(Now, t, "creating"))
    <3>1. task[t].at \notin Waiting
      BY <1>4 DEF CheckDocument, CreateDocument, At, Waiting
    <3>2. CapturingKept /\ Tidy(Now)'
      BY <2>2, <2>4, <3>1, RestMoves, MovesKeep, PlacesRest
    <3> QED
      BY <2>1, <2>2, <2>4, <3>2, RequestedKept, TypesKept DEF TypeInv, TypeOK, OffStored
  <2>5. CASE \E d \in {doc, [NoDoc EXCEPT !.open = TRUE]} : StartCapture(t, d)
    <3>1. task[t].at \notin Waiting
      BY <1>4 DEF CheckDocument, CreateDocument, At, Waiting
    <3>2. doc' \in Docs /\ Requested' /\ Tidy(Now)'
      BY <2>1, <2>3, <2>5, <3>1
    <3> QED
      BY <2>2, <3>2, TypesKept DEF TypeInv, TypeOK, OffStored
  <2> QED
    BY <1>4, <2>4, <2>5 DEF CheckDocument, CreateDocument
<1> QED
  BY <1>1, <1>2, <1>3, <1>4

LEMMA PassTypes ==
  ASSUME TypeInv, NEW t \in Tasks,
         \/ InputStops(t) \/ PeerStops(t) \/ CaptureStops(t) \/ DocumentCloses(t) \/ StateStops(t)
         \/ PassFinished(t) \/ Noticed(t) \/ Reconciled(t) \/ LeftoversClose(t)
  PROVE  TypeInv'
<1>1. CASE InputStops(t) \/ CaptureStops(t) \/ PassFinished(t) \/ Noticed(t)
  <2>1. CapturingKept /\ Tidy(Now)' /\ teardown' \in {teardown, t, "finished"}
    BY <1>1, PassEffects, MovesKeep
       DEF InputStops, CaptureStops, PassFinished, Noticed, Answered, At, StopCall
  <2>2. UNCHANGED <<state, doc>> /\ Switches
    BY <1>1 DEF InputStops, CaptureStops, PassFinished, Noticed, Quietly, Switches, TypeInv, TypeOK
  <2>3. raced' \in BOOLEAN
    BY <1>1, RacedTyped DEF InputStops, CaptureStops, PassFinished, Noticed, StopCall
  <2> QED
    BY <2>1, <2>2, <2>3, OthersKept DEF TypeInv, TypeOK
<1>2. CASE StateStops(t) \/ Reconciled(t)
  <2>1. CapturingKept /\ Tidy(Now)'
    BY <1>2, PassEffects, MovesKeep DEF StateStops, Reconciled, Answered
  <2>2. state' \in SessionStates /\ OffStored' /\ UNCHANGED <<doc, teardown>> /\ Switches
    BY <1>2, PlacesAre DEF StateStops, Reconciled, OffStored, Quietly, Switches, TypeInv, TypeOK
  <2>3. raced' \in BOOLEAN
    BY <1>2, RacedTyped DEF StateStops, Reconciled
  <2> QED
    BY <2>1, <2>2, <2>3, StateSaved DEF TypeInv, TypeOK
<1>3. CASE DocumentCloses(t) \/ LeftoversClose(t)
  <2>1. Tidy(Now)'
    BY <1>3, PassEffects DEF MovesDropping
  <2>2. doc' = NoDoc /\ doc' \in Docs /\ Requested'
    <3>1. NoDoc \in Docs /\ NoDoc.getting = {}
      BY DEF NoDoc, Docs
    <3> QED
      BY <1>3, <3>1 DEF DocumentCloses, LeftoversClose, Requested
  <2>3. UNCHANGED <<state, teardown>> /\ Switches
    BY <1>3 DEF DocumentCloses, LeftoversClose, Quietly, Switches, TypeInv, TypeOK
  <2>4. raced' \in BOOLEAN
    BY <1>3, RacedTyped DEF DocumentCloses, LeftoversClose
  <2> QED
    BY <2>1, <2>2, <2>3, <2>4, TypesKept DEF TypeInv, TypeOK, OffStored, Switches
<1>4. CASE PeerStops(t)
  <2>1. CapturingKept /\ Tidy(Now)'
    BY <1>4, PassEffects, MovesKeep DEF PeerStops, At
  <2>2. doc' \in Docs /\ doc'.getting = doc.getting
    BY <1>4 DEF PeerStops, TypeInv, TypeOK, Docs
  <2>3. UNCHANGED <<state, teardown>> /\ Switches
    BY <1>4 DEF PeerStops, Quietly, Switches, TypeInv, TypeOK
  <2>4. raced' \in BOOLEAN
    BY <1>4, RacedTyped DEF PeerStops
  <2>5. Requested'
    BY <2>1, <2>2, RequestedKept
  <2> QED
    BY <2>1, <2>2, <2>3, <2>4, <2>5, TypesKept DEF TypeInv, TypeOK, OffStored, Switches
<1> QED
  BY <1>1, <1>2, <1>3, <1>4

LEMMA SessionTypes ==
  ASSUME TypeInv, NEW t \in Tasks,
         \/ RequestLoaded(t) \/ ReportLoaded(t) \/ ProofVerified(t) \/ onPeerVerified(t)
         \/ InputAttached(t) \/ AttachFails(t) \/ SessionEnds(t)
  PROVE  TypeInv'
<1>1. CASE ProofVerified(t) \/ InputAttached(t) \/ AttachFails(t) \/ SessionEnds(t)
  <2>1. CapturingKept /\ Tidy(Now)' /\ teardown' \in {teardown, t}
    BY <1>1, SessionEffects, MovesKeep DEF ProofVerified, InputAttached, AttachFails, SessionEnds, At
  <2>2. UNCHANGED <<state, doc>> /\ Switches
    BY <1>1 DEF ProofVerified, InputAttached, AttachFails, SessionEnds, Quietly, Switches, TypeInv, TypeOK
  <2>3. raced' \in BOOLEAN
    BY <1>1, RacedTyped DEF ProofVerified, InputAttached, AttachFails, SessionEnds, StopCall
  <2> QED
    BY <2>1, <2>2, <2>3, OthersKept DEF TypeInv, TypeOK
<1>2. CASE RequestLoaded(t) \/ ReportLoaded(t) \/ onPeerVerified(t)
  <2>1. CapturingKept /\ Tidy(Now)'
    BY <1>2, SessionEffects, MovesKeep DEF RequestLoaded, ReportLoaded, onPeerVerified, Answered
  <2>2. task[t] \in TaskType /\ (task[t].at = "reporting" => task[t].report \in DOMAIN Reports)
    BY Typing DEF Tidy, RestsWell, TaskType
  <2>3. state' \in SessionStates /\ (state' = state \/ state'.phase # "idle")
    <3>1. ASSUME NEW p \in Phases \ {"idle"}, state' = [task[t].seen EXCEPT !.phase = p]
          PROVE  state' \in SessionStates /\ state'.phase # "idle"
      <4>1. task[t].seen \in SessionStates
        BY <2>2 DEF TaskType
      <4> QED
        BY <3>1, <4>1 DEF SessionStates
    <3>2. {"peer-connected", "remote-active"} \subseteq Phases \ {"idle"}
      BY DEF Phases
    <3>3. CASE RequestLoaded(t)
      BY <3>1, <3>2, <3>3, Typing DEF RequestLoaded
    <3>4. CASE ReportLoaded(t)
      BY <2>2, <3>1, <3>4, ReportsAre DEF ReportLoaded, Answered
    <3>5. CASE onPeerVerified(t)
      BY <3>1, <3>2, <3>5, Typing DEF onPeerVerified
    <3> QED
      BY <1>2, <3>3, <3>4, <3>5
  <2>4. UNCHANGED <<doc, teardown>> /\ Switches /\ OffStored'
    BY <1>2, <2>3 DEF RequestLoaded, ReportLoaded, onPeerVerified, Quietly, Switches, TypeInv, TypeOK, OffStored
  <2>5. raced' \in BOOLEAN
    BY <1>2, RacedTyped DEF RequestLoaded, ReportLoaded, onPeerVerified
  <2> QED
    BY <2>1, <2>3, <2>4, <2>5, StateSaved DEF TypeInv, TypeOK
<1> QED
  BY <1>1, <1>2

LEMMA OutsideTypes ==
  ASSUME TypeInv, Outside
  PROVE  TypeInv'
<1>1. Event => events' \in 0..MaxEvents
  BY EventsAssumption DEF Event, TypeInv, TypeOK
<1>2. Forward \/ Quietly => events' \in 0..MaxEvents
  BY DEF Forward, Quietly, TypeInv, TypeOK
<1>3. CASE \/ EnableClicked \/ StopClicked \/ RevokeClicked \/ ClientOnline \/ ClientLost
           \/ SessionRequested \/ (\E r \in SenderReports : SenderEvent(r)) \/ ProofArrives
           \/ SessionFails \/ DebuggerDetached \/ TabCloses
  <2>1. /\ CapturingKept /\ Tidy(Now)'
        /\ teardown' = teardown \/ teardown' \in Tasks
    <3>1. CASE StopClicked \/ RevokeClicked
      <4>1. PICK t \in Tasks : task[t] = NoTask /\ Stops(t, replies)
        BY <3>1, OutsideEffects
      <4>2. task[t].at # "capturing"
        BY <4>1 DEF NoTask
      <4> QED
        BY <4>1, <4>2, MovesKeep
    <3>2. CASE (\E r \in SenderReports : SenderEvent(r)) \/ ClientOnline \/ ClientLost
      <4>1. \E r : Tells(r)
        BY <3>2, OutsideEffects
      <4> QED
        BY <3>2, <4>1, MovesKeep DEF ClientOnline, ClientLost, SenderEvent
    <3>3. CASE \/ EnableClicked \/ SessionRequested \/ ProofArrives \/ SessionFails
               \/ DebuggerDetached \/ TabCloses
      <4>1. \E x : Starts(x) \/ StartsAsking(x)
        BY <3>3, OutsideEffects
      <4> QED
        BY <3>3, <4>1, MovesKeep
           DEF EnableClicked, SessionRequested, ProofArrives, SessionFails, DebuggerDetached, TabCloses
    <3> QED
      BY <1>3, <3>1, <3>2, <3>3
  <2>2. UNCHANGED <<state, doc>> /\ Switches
    BY <1>1, <1>2, <1>3
       DEF EnableClicked, StopClicked, RevokeClicked, ClientOnline, ClientLost, SessionRequested,
           SenderEvent, ProofArrives, SessionFails, DebuggerDetached, TabCloses, Quietly, Switches,
           TypeInv, TypeOK
  <2>3. raced' \in BOOLEAN
    BY <1>3, RacedTyped
       DEF EnableClicked, StopClicked, RevokeClicked, ClientOnline, ClientLost, SessionRequested,
           SenderEvent, ProofArrives, SessionFails, DebuggerDetached, TabCloses, StopCall
  <2> QED
    BY <2>1, <2>2, <2>3, OthersKept DEF TypeInv, TypeOK
<1>4. CASE TrackEnds
  <2>1. CapturingKept /\ Tidy(Now)'
    <3>1. CASE LossMatters(state)
      BY <1>4, <3>1, OutsideEffects, MovesKeep
    <3>2. CASE ~LossMatters(state)
      BY <1>4, <3>2, OutsideEffects DEF CapturingKept
    <3> QED
      BY <3>1, <3>2
  <2>2. doc' \in Docs /\ doc'.getting = doc.getting
    BY <1>4 DEF TrackEnds, TypeInv, TypeOK, Docs
  <2>3. UNCHANGED <<state, teardown>> /\ Switches
    BY <1>1, <1>4 DEF TrackEnds, Switches, TypeInv, TypeOK
  <2>4. raced' \in BOOLEAN
    BY <1>4, RacedTyped DEF TrackEnds
  <2>5. Requested'
    BY <2>1, <2>2, RequestedKept
  <2> QED
    BY <2>1, <2>2, <2>3, <2>4, <2>5, TypesKept DEF TypeInv, TypeOK, OffStored, Switches
<1>5. CASE Restart
  <2>1. Tidy(Now)'
    BY <1>5, RestartEffect DEF Woken
  <2>2. doc' \in Docs /\ \A u \in Tasks : u \notin doc'.getting
    <3>1. doc \in Docs /\ NoDoc \in Docs /\ NoDoc.getting = {}
      BY DEF TypeInv, TypeOK, Docs, NoDoc
    <3>2. PICK g \in {{}, {Orphan}} : doc' \in {NoDoc, [doc EXCEPT !.getting = g]}
      BY <1>5 DEF Restart
    <3>3. [doc EXCEPT !.getting = g] \in Docs /\ [doc EXCEPT !.getting = g].getting = g
      BY <3>1 DEF Docs
    <3> QED
      BY <3>1, <3>2, <3>3, TasksAssumption
  <2>3. UNCHANGED state /\ Switches /\ teardown' = "null" /\ raced' \in BOOLEAN
    BY <1>1, <1>5 DEF Restart, Switches, TypeInv, TypeOK
  <2> QED
    BY <2>1, <2>2, <2>3, TypesKept DEF TypeInv, TypeOK, OffStored, Switches, Requested
<1>6. ASSUME NEW g \in Tasks \cup {Orphan}, CaptureGranted(g) \/ CaptureRefused(g)
      PROVE  TypeInv'
  <2>1. doc \in Docs /\ g \in doc.getting
    BY <1>6 DEF CaptureGranted, CaptureRefused, TypeInv, TypeOK, Docs
  <2>2. doc' \in Docs /\ doc'.getting = doc.getting \ {g}
    BY <1>6, <2>1 DEF CaptureGranted, CaptureRefused, Docs
  <2>3. CapturingKept /\ Tidy(Now)'
    <3>1. CASE g = Orphan
      BY <1>6, <3>1, CaptureEffects DEF CapturingKept
    <3>2. CASE g # Orphan
      BY <1>6, <2>2, <3>2, CaptureEffects, MovesKeep
    <3> QED
      BY <3>1, <3>2
  <2>4. Requested'
    BY <2>2, <2>3, RequestedKept
  <2>5. UNCHANGED <<state, teardown>> /\ Switches /\ raced' \in BOOLEAN
    BY <1>6, RacedTyped DEF CaptureGranted, CaptureRefused, Quietly, Switches, TypeInv, TypeOK
  <2> QED
    BY <2>2, <2>3, <2>4, <2>5, TypesKept DEF TypeInv, TypeOK, OffStored, Switches
<1> QED
  BY <1>3, <1>4, <1>5, <1>6 DEF Outside

LEMMA InitTypes == Init => TypeInv
<1> SUFFICES ASSUME Init PROVE TypeInv
  OBVIOUS
<1>1. NoTask \in TaskType /\ RestsWell(NoTask) /\ NoTask.at \notin Waiting
  BY PlacesAre DEF NoTask, TaskType, RestsWell
<1>2. Tidy(Now)
  BY <1>1 DEF Init, Now, Tidy, Works, OwedOnce, Owes
<1>3. NoDoc \in Docs
  BY DEF NoDoc, Docs
<1>4. TypeOK
  <2>1. task \in [Tasks -> TaskType] /\ replies \in Seq(Tasks) /\ Len(replies) = 0
    BY <1>1 DEF Init
  <2>2. 1..Len(replies) = {}
    BY <2>1
  <2>3. events \in 0..MaxEvents
    BY EventsAssumption DEF Init
  <2>4. state \in SessionStates /\ doc \in Docs
    BY <1>3, PlacesAre DEF Init
  <2>5. \A i \in 1..Len(replies) : FALSE
    BY <2>2
  <2> QED
    BY <2>1, <2>3, <2>4, <2>5 DEF Init, TypeOK, TaskType, Docs
<1> QED
  BY <1>2, <1>4 DEF Init, TypeInv, Requested, OffStored, NoDoc

LEMMA NextTypes ==
  ASSUME TypeInv, [Next]_vars
  PROVE  TypeInv'
<1>1. CASE UNCHANGED vars
  BY <1>1 DEF vars, TypeInv, TypeOK, Tidy, Now, Works, OwedOnce, Owes, Requested, OffStored, At
<1>2. ASSUME NEW t \in Tasks, Worker(t)
      PROVE  TypeInv'
  BY <1>2, EnableTypes, PassTypes, SessionTypes DEF Worker
<1> QED
  BY <1>1, <1>2, OutsideTypes DEF Next

LEMMA TypesHold == Spec => []TypeInv
<1>1. TypeInv /\ [Next]_vars => TypeInv'
  BY NextTypes
<1> QED
  BY <1>1, InitTypes, PTL DEF Spec
-----------------------------------------------------------------------------
(* As long as nothing has raced                                              *)
Alone == ~Clash(task)

(* Remote Mode is off, or what is still on is about to be closed.            *)
Late == (Enabling \ {"enabling", "looking"}) \cup Verifying \cup Ending \cup {"reporting", "requesting"}
Stopped == client = "none" /\ ~active /\ ~debugger
IdleInv ==
  state.phase = "idle" =>
    /\ Stopped /\ ~power /\ ~Some(Late)
    /\ doc = NoDoc \/ Some({"sweeping"})

WakeInv ==
  /\ Some({"waking"}) => Stopped /\ ~Some(Late)
  /\ Some({"sweeping"}) => state.phase = "idle"

(* The pass is the one the orchestrator knows, and has done what it is past. *)
PassInv ==
  \A t \in Tasks :
    /\ At(t, Passing) <=> teardown = t
    /\ At(t, Passing \ {"detaching"}) => ~debugger
    /\ At(t, Passing \ {"detaching", "hangingUp"}) => client = "none"
    /\ At(t, {"closing", "reading", "stopping"}) => ~power
    /\ At(t, {"reading", "stopping"}) => ~active /\ doc = NoDoc
    /\ At(t, {"stopping"}) => state.phase = "idle"
ArmedInv == teardown = "finished" => state.phase = "idle" \/ Some({"enabled"})

(* What enableRemote has reached, before there are a client and a session.   *)
Streaming == doc.stream \/ Some({"noticing"})
EnableInv ==
  \A t \in Tasks : At(t, Enabling) =>
    /\ Stopped /\ ~Some({"reporting", "requesting"})
    /\ At(t, {"enabling", "looking"}) => state.phase = "idle"
    /\ At(t, Enabling \ {"enabling", "looking"}) => state.phase = "enabled"
    /\ At(t, Enabling \ {"enabling", "looking", "activated", "connecting"}) => state.capture = "starting"
    /\ At(t, {"enabled", "checking", "creating"}) => doc = NoDoc
    /\ At(t, {"granted", "activated", "connecting"}) => Streaming
    /\ At(t, {"activated", "connecting"}) => state.capture = "active"
    /\ At(t, {"connecting"}) => power

(* Remote Mode is on, being turned on or being turned off.                   *)
OnInv ==
  state.phase # "idle" =>
    \/ Some(Passing \cup Enabling \cup {"waking"})
    \/ state.capture = "active" /\ power /\ client # "none" /\ Streaming

(* A state that is kept for later has the capture that there still is.       *)
SeenInv ==
  /\ \A t \in Tasks : At(t, {"reporting", "requesting", "verified"}) =>
       task[t].seen.capture = "active" /\ state.capture = "active"
  /\ state.phase # "idle" => state.capture # "idle"
  /\ state.phase \notin {"idle", "enabled"} \/ client # "none" \/ active => state.capture = "active"

(* There is a session, or the report that it has ended is under way.         *)
PeerPhases == {"peer-connected", "authenticating", "remote-active"}
Ended(t) == task[t].report = "ended"
SomeEnded == \E t \in Tasks : Ended(t)
SessionInv ==
  /\ active => state.phase \notin {"idle", "enabled"}
  /\ Some(Verifying) => active
  /\ debugger => active
  /\ state.phase \in PeerPhases => active \/ Some(Passing \cup {"waking"}) \/ SomeEnded
  /\ state.phase = "remote-active" =>
       debugger \/ Some(Passing \cup {"waking", "attaching", "ending"}) \/ SomeEnded

(* In the queue of the storage: no report is answered after the state of the *)
(* pass, and one that tells of a session comes before the end of it.         *)
Opens(t) == task[t].report \in {"connected", "opened"}
Before(t, u) == \E i, j \in 1..Len(replies) : i < j /\ replies[i] = t /\ replies[j] = u
ReadInv ==
  \A t, u \in Tasks : At(t, {"reading"}) /\ Before(t, u) => ~At(u, {"reporting"})
OpensInv ==
  \A t \in Tasks : Opens(t) =>
    active \/ Some(Passing) \/ \E u \in Tasks : Before(t, u) /\ Ended(u)

Still == Alone /\ IdleInv /\ WakeInv /\ PassInv /\ ArmedInv /\ EnableInv /\ OnInv /\ SeenInv /\ SessionInv
InOrder == ReadInv /\ OpensInv
Sound == ~raced => Still /\ InOrder
IInv == TypeInv /\ Sound


LEMMA MoveAt ==
  ASSUME TypeInv, NEW t \in Tasks, NEW x, NEW q, Moves(t, x, q)
  PROVE  task'[t] = x /\ \A u \in Tasks \ {t} : task'[u] = task[u]
BY Typing DEF Moves

LEMMA RestAt ==
  ASSUME TypeInv, NEW t \in Tasks, NEW at, NEW q, Moves(t, Resting(at), q)
  PROVE  /\ task'[t].at = at /\ task'[t].report = "none"
         /\ \A u \in Tasks \ {t} : task'[u] = task[u]
BY MoveAt DEF Resting

LEMMA BecomesAt ==
  ASSUME TypeInv, NEW t \in Tasks, NEW at, Becomes(Rest(Now, t, at))
  PROVE  task'[t].at = at
<1>1. Rest(Now, t, at) = [task |-> [task EXCEPT ![t] = Resting(at)], replies |-> replies]
  BY Typing, MoveIs
<1>2. task' = [task EXCEPT ![t] = Resting(at)]
  BY <1>1 DEF Becomes
<1> QED
  BY <1>2, Typing DEF Resting

LEMMA AskAt ==
  ASSUME TypeInv, NEW t \in Tasks, NEW at, NEW s, NEW q, Moves(t, Asking(at, s), q)
  PROVE  /\ task'[t].at = at /\ task'[t].seen = s /\ task'[t].report = "none"
         /\ \A u \in Tasks \ {t} : task'[u] = task[u]
BY MoveAt DEF Asking

LEMMA FreeAt ==
  ASSUME NEW t \in Tasks, task[t] = NoTask
  PROVE  task[t].at = "none" /\ task[t].report = "none"
BY DEF NoTask

LEMMA ReportsNone ==
  ASSUME TypeInv, NEW t \in Tasks
  PROVE  task[t].report # "none" <=> task[t].at = "reporting"
BY Typing DEF Tidy, RestsWell

(* A report is made by a task that was free.                                 *)
LEMMA TellAt ==
  ASSUME TypeInv, NEW r, Tells(r)
  PROVE  \/ ~Matters(r) /\ task' = task
         \/ /\ Matters(r)
            /\ \E u \in Tasks :
                 /\ task[u].at = "none" /\ task[u].report = "none"
                 /\ task'[u].at = "reporting" /\ task'[u].seen = state /\ task'[u].report = r
                 /\ \A v \in Tasks \ {u} : task'[v] = task[v]
<1>1. CASE ~Matters(r)
  BY <1>1 DEF Tells
<1>2. CASE Matters(r)
  <2>1. PICK u \in Tasks : task[u] = NoTask /\ Moves(u, Reporting(r), Append(replies, u))
    BY <1>2 DEF Tells
  <2> QED
    BY <1>2, <2>1, MoveAt, FreeAt DEF Reporting
<1> QED
  BY <1>1, <1>2

LEMMA MoveAndTellAt ==
  ASSUME TypeInv, NEW t \in Tasks, task[t].at # "none", NEW at, NEW r, MovesAndTells(t, Resting(at), r)
  PROVE  \/ /\ ~Matters(r) /\ task'[t].at = at /\ task'[t].report = "none"
            /\ \A u \in Tasks \ {t} : task'[u] = task[u]
         \/ /\ Matters(r)
            /\ \E u \in Tasks :
                 /\ task'[u].at = "reporting" /\ task'[u].seen = state /\ task'[u].report = r
                 /\ \/ u = t /\ at = "none"
                    \/ /\ u # t /\ task[u].at = "none" /\ task[u].report = "none"
                       /\ task'[t].at = at /\ task'[t].report = "none"
                 /\ \A v \in Tasks \ {t, u} : task'[v] = task[v]
<1>1. CASE ~Matters(r)
  BY <1>1, RestAt DEF MovesAndTells
<1>2. CASE Matters(r)
  <2>1. PICK u \in Tasks :
          /\ [task EXCEPT ![t] = Resting(at)][u] = NoTask
          /\ task' = [task EXCEPT ![t] = Resting(at), ![u] = Reporting(r)]
    BY <1>2 DEF MovesAndTells
  <2>2. /\ task'[u] = Reporting(r)
        /\ u = t => Resting(at) = NoTask
        /\ u # t => task[u] = NoTask /\ task'[t] = Resting(at)
        /\ \A v \in Tasks \ {t, u} : task'[v] = task[v]
    BY <2>1, Typing
  <2>3. u = t => at = "none"
    BY <2>2 DEF Resting, NoTask
  <2>4. /\ task'[u].at = "reporting" /\ task'[u].seen = state /\ task'[u].report = r
        /\ u # t => task'[t].at = at /\ task'[t].report = "none"
    BY <2>2 DEF Reporting, Resting
  <2> QED
    BY <1>2, <2>2, <2>3, <2>4, FreeAt
<1> QED
  BY <1>1, <1>2

(* While a task stops things no capture is asked for.                        *)
LEMMA DropAt ==
  ASSUME TypeInv, Alone, NEW t \in Tasks, task[t].at \in Passing \cup Waking, NEW x, NEW q,
         MovesDropping(t, x, q)
  PROVE  task'[t] = x /\ \A u \in Tasks \ {t} : task'[u] = task[u]
<1>1. \A u \in Tasks \ {t} : task[u].at # "capturing"
  BY DEF Alone, Clash, Enabling
<1> QED
  BY <1>1, Typing DEF MovesDropping

(* A step that races no tasks leaves none that race.                         *)
LEMMA BecomesAlone ==
  ASSUME NEW w, Becomes(w), ~raced'
  PROVE  ~raced /\ Alone'
BY DEF Becomes, Alone, Clash, Enders

LEMMA NextAlone ==
  ASSUME TypeInv, Next, ~raced'
  PROVE  ~raced /\ Alone'
<1>1. CASE Restart
  <2>1. Woken
    BY <1>1, RestartEffect
  <2>2. \A t \in Tasks : task'[t].at \in {"none", "waking"} /\ task'[t].report = "none"
    BY <2>1 DEF Woken, NoTask, Resting
  <2> DEFINE first == CHOOSE u \in Tasks : TRUE
  <2>3. \A t \in Tasks : t # first => task'[t] = NoTask
    BY <2>1 DEF Woken
  <2> HIDE DEF first
  <2>4. \A t, u \in Tasks : t # u => task'[t].at = "none" \/ task'[u].at = "none"
    BY <2>3 DEF NoTask
  <2> QED
    BY <1>1, <2>2, <2>4
       DEF Restart, Alone, Clash, Enders, Enabling, Verifying, Ending, Passing, Waking
<1>2. ASSUME NEW t \in Tasks, Worker(t)
      PROVE  \E w : Becomes(w)
  BY <1>2
     DEF Worker, EnableLoaded, TabRefused, TabFound, EnableSaved, CheckDocument, CreateDocument,
         StartCapture, CreateFails, CaptureTimesOut, FailCapture, CaptureActive, Activated,
         StartSignaling, InputStops, PeerStops, CaptureStops, DocumentCloses, StateStops,
         PassFinished, RequestLoaded, ReportLoaded, ProofVerified, onPeerVerified, InputAttached,
         AttachFails, SessionEnds, Noticed, Reconciled, LeftoversClose, StopCall
<1>3. ASSUME Outside, ~Restart
      PROVE  \E w : Becomes(w)
  BY <1>3
     DEF Outside, EnableClicked, StopClicked, RevokeClicked, ClientOnline, ClientLost,
         SessionRequested, SenderEvent, ProofArrives, SessionFails, DebuggerDetached, TrackEnds,
         TabCloses, CaptureGranted, CaptureRefused, StopCall
<1> QED
  BY <1>1, <1>2, <1>3, BecomesAlone DEF Next

(* What enableRemote does keeps everything in its place.                     *)
LEMMA EnableStill ==
  ASSUME TypeInv, Still, Alone', NEW t \in Tasks,
         \/ EnableLoaded(t) \/ TabRefused(t) \/ TabFound(t) \/ EnableSaved(t) \/ CheckDocument(t)
         \/ CreateDocument(t) \/ CreateFails(t) \/ CaptureTimesOut(t) \/ FailCapture(t)
         \/ CaptureActive(t) \/ Activated(t) \/ StartSignaling(t)
  PROVE  Still'
<1> USE DEF Still, Alone, Clash, IdleInv, WakeInv, PassInv, ArmedInv, EnableInv, OnInv, SeenInv,
            SessionInv, Some, At, Late, Stopped, Streaming, SomeEnded, Ended, PeerPhases,
            Enabling, Verifying, Ending, Passing, Waking
<1>1. CASE EnableLoaded(t)
  <2>1. task[t].at = "enabling" /\ UNCHANGED <<state, doc, power, debugger, client, active, teardown>>
    BY <1>1 DEF EnableLoaded, Answered
  <2>2. /\ task'[t].at = "looking" /\ task'[t].report = "none"
        /\ \A u \in Tasks \ {t} : task'[u] = task[u]
    BY <1>1, EnableEffects, RestAt
  <2> QED
    BY <2>1, <2>2, ReportsNone, SMTT(60)
<1>2. CASE TabRefused(t)
  <2>1. task[t].at = "looking" /\ UNCHANGED <<state, doc, power, debugger, client, active, teardown>>
    BY <1>2 DEF TabRefused
  <2>2. /\ task'[t].at = "none" /\ task'[t].report = "none"
        /\ \A u \in Tasks \ {t} : task'[u] = task[u]
    BY <1>2, EnableEffects, RestAt
  <2> QED
    BY <2>1, <2>2, ReportsNone, SMTT(60)
<1>3. CASE TabFound(t)
  <2>1. /\ task[t].at = "looking" /\ UNCHANGED <<doc, power, debugger, client, active, teardown>>
        /\ state'.phase = "enabled" /\ state'.capture = "starting"
    BY <1>3 DEF TabFound
  <2>2. /\ task'[t].at = "enabled" /\ task'[t].report = "none"
        /\ \A u \in Tasks \ {t} : task'[u] = task[u]
    BY <1>3, EnableEffects, AskAt
  <2> QED
    BY <2>1, <2>2, ReportsNone, SMTT(60)
<1>4. CASE EnableSaved(t)
  <2>1. /\ task[t].at = "enabled" /\ UNCHANGED <<state, doc, power, debugger, client, active>>
        /\ teardown' = "null"
    BY <1>4 DEF EnableSaved, Answered
  <2>2. /\ task'[t].at = "checking" /\ task'[t].report = "none"
        /\ \A u \in Tasks \ {t} : task'[u] = task[u]
    BY <1>4, EnableEffects, RestAt
  <2> QED
    BY <2>1, <2>2, TasksAssumption, ReportsNone, SMTT(60)
<1>5. CASE CheckDocument(t) \/ CreateDocument(t)
  <2>1. /\ task[t].at \in {"checking", "creating"}
        /\ UNCHANGED <<state, power, debugger, client, active, teardown>>
    BY <1>5 DEF CheckDocument, CreateDocument
  <2>2. /\ task'[t].at \in {"creating", "capturing", "refused"} /\ task'[t].report = "none"
        /\ \A u \in Tasks \ {t} : task'[u] = task[u]
    BY <1>5, EnableEffects, RestAt
  <2>3. task'[t].at = "creating" => UNCHANGED doc
    BY <1>5, BecomesAt DEF CheckDocument, CreateDocument, StartCapture
  <2> QED
    BY <2>1, <2>2, <2>3, ReportsNone, SMTT(60)
<1>6. CASE CreateFails(t) \/ FailCapture(t)
  <2>1. /\ task[t].at \in {"creating", "refused"}
        /\ UNCHANGED <<state, doc, power, debugger, client, active>>
    BY <1>6 DEF CreateFails, FailCapture
  <2>2. teardown = "null"
    BY <2>1, SMTT(60) DEF TypeInv, TypeOK
  <2>3. /\ task'[t].at = "detaching" /\ task'[t].report = "none" /\ teardown' = t
        /\ \A u \in Tasks \ {t} : task'[u] = task[u]
    BY <1>6, <2>2, EnableEffects, RestAt DEF Stops
  <2> QED
    BY <2>1, <2>2, <2>3, TasksAssumption, ReportsNone, SMTT(60)
<1>7. CASE CaptureTimesOut(t)
  <2>1. /\ task[t].at \in {"capturing", "granted"}
        /\ UNCHANGED <<state, power, debugger, client, active, teardown>>
    BY <1>7 DEF CaptureTimesOut, Timed
  <2>2. doc'.stream = doc.stream
    BY <1>7 DEF CaptureTimesOut, TypeInv, TypeOK
  <2>3. /\ task'[t].at = "refused" /\ task'[t].report = "none"
        /\ \A u \in Tasks \ {t} : task'[u] = task[u]
    BY <1>7, EnableEffects, RestAt
  <2> QED
    BY <2>1, <2>2, <2>3, ReportsNone, SMTT(60)
<1>8. CASE CaptureActive(t)
  <2>1. /\ task[t].at = "granted" /\ UNCHANGED <<doc, power, debugger, client, active, teardown>>
        /\ state'.phase = "enabled" /\ state'.capture = "active"
    BY <1>8 DEF CaptureActive
  <2>2. /\ task'[t].at = "activated" /\ task'[t].report = "none"
        /\ \A u \in Tasks \ {t} : task'[u] = task[u]
    BY <1>8, EnableEffects, AskAt
  <2> QED
    BY <2>1, <2>2, ReportsNone, SMTT(60)
<1>9. CASE Activated(t)
  <2>1. /\ task[t].at = "activated" /\ UNCHANGED <<state, doc, debugger, client, active, teardown>>
        /\ power'
    BY <1>9 DEF Activated, Answered
  <2>2. /\ task'[t].at = "connecting" /\ task'[t].report = "none"
        /\ \A u \in Tasks \ {t} : task'[u] = task[u]
    BY <1>9, EnableEffects, RestAt
  <2> QED
    BY <2>1, <2>2, ReportsNone, SMTT(60)
<1>10. CASE StartSignaling(t)
  <2>1. /\ task[t].at = "connecting" /\ UNCHANGED <<state, doc, power, debugger, active, teardown>>
        /\ client' = "away"
    BY <1>10 DEF StartSignaling
  <2>2. ~Matters("away")
    BY <2>1, ReportsAre DEF Matters
  <2>3. /\ task'[t].at = "none" /\ task'[t].report = "none"
        /\ \A u \in Tasks \ {t} : task'[u] = task[u]
    BY <1>10, <2>1, <2>2, EnableEffects, MoveAndTellAt
  <2> QED
    BY <2>1, <2>3, ReportsNone, SMTT(60)
<1> QED
  BY <1>1, <1>2, <1>3, <1>4, <1>5, <1>6, <1>7, <1>8, <1>9, <1>10

LEMMA StopAt ==
  ASSUME TypeInv, NEW t \in Tasks, NEW q, Stops(t, q)
  PROVE  /\ \/ teardown = "null" /\ task'[t].at = "detaching" /\ teardown' = t
            \/ teardown # "null" /\ task'[t].at = "none" /\ UNCHANGED teardown
         /\ task'[t].report = "none"
         /\ \A u \in Tasks \ {t} : task'[u] = task[u]
BY RestAt DEF Stops

(* When the pass reads the state, no report is waiting for an answer: none   *)
(* is behind it in the queue, and it is the first.                           *)
LEMMA NoneReports ==
  ASSUME TypeInv, ReadInv, NEW t \in Tasks, Answered(t, "reading")
  PROVE  \A u \in Tasks : task[u].at # "reporting"
<1> SUFFICES ASSUME NEW u \in Tasks, task[u].at = "reporting" PROVE FALSE
  OBVIOUS
<1>1. PICK i \in 1..Len(replies) : replies[i] = u
  BY Typing DEF Tidy, Owes, Waiting
<1>2. /\ Len(replies) \in Nat /\ 1 \in 1..Len(replies) /\ replies[1] = t
      /\ task[t].at = "reading"
  BY Typing DEF Answered
<1> QED
  BY <1>1, <1>2 DEF ReadInv, Before, At

(* What the teardown pass and the reconciliation do keeps all in its place.  *)
LEMMA PassStill ==
  ASSUME TypeInv, Still, ReadInv, Alone', NEW t \in Tasks,
         \/ InputStops(t) \/ PeerStops(t) \/ CaptureStops(t) \/ DocumentCloses(t) \/ StateStops(t)
         \/ PassFinished(t) \/ Noticed(t) \/ Reconciled(t) \/ LeftoversClose(t)
  PROVE  Still'
<1> USE DEF Still, Alone, Clash, Enders, IdleInv, WakeInv, PassInv, ArmedInv, EnableInv, OnInv, SeenInv,
            SessionInv, Some, At, Late, Stopped, Streaming, SomeEnded, Ended, PeerPhases,
            Enabling, Verifying, Ending, Passing, Waking
<1>1. CASE InputStops(t)
  <2>1. /\ task[t].at = "detaching" /\ UNCHANGED <<state, doc, power, client, active, teardown>>
        /\ ~debugger'
    BY <1>1 DEF InputStops
  <2>2. /\ task'[t].at = "hangingUp" /\ task'[t].report = "none"
        /\ \A u \in Tasks \ {t} : task'[u] = task[u]
    BY <1>1, PassEffects, RestAt
  <2> QED
    BY <2>1, <2>2, ReportsNone, SMTT(60)
<1>2. CASE PeerStops(t)
  <2>1. /\ task[t].at = "hangingUp" /\ UNCHANGED <<state, power, debugger, active, teardown>>
        /\ client' = "none"
    BY <1>2 DEF PeerStops
  <2>2. doc = NoDoc => doc' = NoDoc
    BY <1>2 DEF PeerStops, NoDoc
  <2>3. CASE /\ task'[t].at = "uncapturing" /\ task'[t].report = "none"
             /\ \A u \in Tasks \ {t} : task'[u] = task[u]
    BY <2>1, <2>2, <2>3, ReportsNone, SMTT(60)
  <2>4. CASE /\ Matters("away") /\ client # "none"
             /\ \E u \in Tasks :
                  /\ task'[u].at = "reporting" /\ task'[u].seen = state /\ task'[u].report = "away"
                  /\ u # t /\ task[u].at = "none" /\ task[u].report = "none"
                  /\ task'[t].at = "uncapturing" /\ task'[t].report = "none"
                  /\ \A v \in Tasks \ {t, u} : task'[v] = task[v]
    <3>1. state.phase \notin {"idle", "enabled"}
      BY <2>4, ReportsAre DEF Matters
    <3>2. PICK u \in Tasks :
            /\ task'[u].at = "reporting" /\ task'[u].seen = state /\ task'[u].report = "away"
            /\ u # t /\ task[u].at = "none" /\ task[u].report = "none"
            /\ task'[t].at = "uncapturing" /\ task'[t].report = "none"
            /\ \A v \in Tasks \ {t, u} : task'[v] = task[v]
      BY <2>4
    <3> QED
      BY <2>1, <2>2, <2>4, <3>1, <3>2, ReportsNone, SMTT(60)
  <2> QED
    BY <1>2, <2>1, <2>3, <2>4, PassEffects, MoveAndTellAt, RestAt
<1>3. CASE CaptureStops(t)
  <2>1. /\ task[t].at = "uncapturing" /\ UNCHANGED <<state, doc, debugger, client, active, teardown>>
        /\ ~power'
    BY <1>3 DEF CaptureStops
  <2>2. /\ task'[t].at = "closing" /\ task'[t].report = "none"
        /\ \A u \in Tasks \ {t} : task'[u] = task[u]
    BY <1>3, PassEffects, RestAt
  <2> QED
    BY <2>1, <2>2, ReportsNone, SMTT(60)
<1>4. CASE DocumentCloses(t)
  <2>1. /\ task[t].at = "closing" /\ UNCHANGED <<state, power, debugger, client, teardown>>
        /\ doc' = NoDoc /\ ~active'
    BY <1>4 DEF DocumentCloses
  <2>2. /\ task'[t].at = "reading" /\ task'[t].report = "none"
        /\ \A u \in Tasks \ {t} : task'[u] = task[u]
    BY <1>4, <2>1, PassEffects, DropAt DEF Asking
  <2> QED
    BY <2>1, <2>2, ReportsNone, SMTT(60) DEF NoDoc
<1>5. CASE StateStops(t)
  <2>1. /\ task[t].at = "reading" /\ UNCHANGED <<doc, power, debugger, client, active, teardown>>
        /\ state'.phase = "idle"
    BY <1>5 DEF StateStops, Answered, Off
  <2>2. /\ task'[t].at = "stopping" /\ task'[t].report = "none"
        /\ \A u \in Tasks \ {t} : task'[u] = task[u]
    BY <1>5, PassEffects, AskAt
  <2>3. \A u \in Tasks : task[u].at # "reporting"
    BY <1>5, NoneReports DEF StateStops
  <2> QED
    BY <2>1, <2>2, <2>3, ReportsNone, SMTT(60)
<1>6. CASE PassFinished(t)
  <2>1. /\ task[t].at = "stopping" /\ UNCHANGED <<state, doc, power, debugger, client, active>>
        /\ teardown = t /\ teardown' = "finished"
    BY <1>6 DEF PassFinished, Answered
  <2>2. /\ task'[t].at = "none" /\ task'[t].report = "none"
        /\ \A u \in Tasks \ {t} : task'[u] = task[u]
    BY <1>6, PassEffects, RestAt
  <2> QED
    BY <2>1, <2>2, TasksAssumption, ReportsNone, SMTT(60)
<1>7. CASE Noticed(t)
  <2>1. task[t].at = "noticing" /\ UNCHANGED <<state, doc, power, debugger, client, active>>
    BY <1>7 DEF Noticed, Answered
  <2>2. Stops(t, Tail(replies))
    BY <1>7, PassEffects
  <2>3. CASE teardown = "null"
    <3>1. /\ task'[t].at = "detaching" /\ task'[t].report = "none" /\ teardown' = t
          /\ \A u \in Tasks \ {t} : task'[u] = task[u]
      BY <2>2, <2>3, StopAt
    <3> QED
      BY <2>1, <2>3, <3>1, TasksAssumption, ReportsNone, SMTT(60)
  <2>4. CASE teardown # "null"
    <3>1. /\ task'[t].at = "none" /\ task'[t].report = "none" /\ UNCHANGED teardown
          /\ \A u \in Tasks \ {t} : task'[u] = task[u]
      BY <2>2, <2>4, StopAt
    <3>2. teardown \in Tasks \cup {"finished"}
      BY <2>4 DEF TypeInv, TypeOK
    <3> QED
      BY <2>1, <3>1, <3>2, ReportsNone, SMTT(60)
  <2> QED
    BY <2>3, <2>4
<1>8. CASE Reconciled(t)
  <2>1. /\ task[t].at = "waking" /\ UNCHANGED <<doc, debugger, client, active, teardown>>
        /\ state'.phase = "idle" /\ ~power'
    BY <1>8 DEF Reconciled, Answered, Off
  <2>2. /\ task'[t].at = "sweeping" /\ task'[t].report = "none"
        /\ \A u \in Tasks \ {t} : task'[u] = task[u]
    BY <1>8, PassEffects, RestAt
  <2> QED
    BY <2>1, <2>2, ReportsNone, SMTT(60)
<1>9. CASE LeftoversClose(t)
  <2>1. /\ task[t].at = "sweeping" /\ UNCHANGED <<state, power, debugger, client, active, teardown>>
        /\ doc' = NoDoc
    BY <1>9 DEF LeftoversClose
  <2>2. /\ task'[t].at = "none" /\ task'[t].report = "none"
        /\ \A u \in Tasks \ {t} : task'[u] = task[u]
    BY <1>9, <2>1, PassEffects, DropAt DEF Resting
  <2> QED
    BY <2>1, <2>2, ReportsNone, SMTT(60)
<1> QED
  BY <1>1, <1>2, <1>3, <1>4, <1>5, <1>6, <1>7, <1>8, <1>9

(* A report of a session that is answered finds it, its end or its pass.     *)
LEMMA OpensAnswered ==
  ASSUME OpensInv, NEW t \in Tasks, Opens(t)
  PROVE  active \/ Some(Passing) \/ \E u \in Tasks \ {t} : Ended(u)
BY DEF OpensInv, Opens, Ended

(* What the tasks of the session do keeps everything in its place.           *)
LEMMA SessionStill ==
  ASSUME TypeInv, Still, OpensInv, Alone', NEW t \in Tasks,
         \/ RequestLoaded(t) \/ ReportLoaded(t) \/ ProofVerified(t) \/ onPeerVerified(t)
         \/ InputAttached(t) \/ AttachFails(t) \/ SessionEnds(t)
  PROVE  Still'
<1> USE DEF Still, Alone, Clash, Enders, IdleInv, WakeInv, PassInv, ArmedInv, EnableInv, OnInv, SeenInv,
            SessionInv, Some, At, Late, Stopped, Streaming, SomeEnded, Ended, PeerPhases,
            Enabling, Verifying, Ending, Passing, Waking
<1>1. CASE RequestLoaded(t)
  <2>1. /\ task[t].at = "requesting" /\ UNCHANGED <<doc, power, debugger, client, teardown>> /\ active'
        /\ IF active THEN UNCHANGED state
           ELSE state'.phase = "peer-connected" /\ state'.capture = task[t].seen.capture
    BY <1>1, Typing DEF RequestLoaded, Answered, TaskType, SessionStates
  <2>2. /\ task'[t].at = "none" /\ task'[t].report = "none"
        /\ \A u \in Tasks \ {t} : task'[u] = task[u]
    BY <1>1, SessionEffects, RestAt
  <2> QED
    BY <2>1, <2>2, ReportsNone, SMTT(60)
<1>2. CASE ReportLoaded(t)
  <2>1. /\ task[t].at = "reporting" /\ UNCHANGED <<doc, power, debugger, client, active, teardown>>
        /\ state'.phase = Reports[task[t].report].to /\ state'.capture = task[t].seen.capture
        /\ task[t].report \in DOMAIN Reports
    BY <1>2, Typing, ReportsNone DEF ReportLoaded, Answered, TaskType, SessionStates
  <2>2. /\ task'[t].at \in {"none", "noticing"} /\ task'[t].report = "none"
        /\ \A u \in Tasks \ {t} : task'[u] = task[u]
    BY <1>2, SessionEffects, RestAt, AskAt
  <2>3. /\ state'.phase \notin {"idle", "enabled", "remote-active"}
        /\ state'.phase \in PeerPhases => active \/ (\E u \in Tasks : task[u].at \in Passing)
                                         \/ \E u \in Tasks \ {t} : task[u].report = "ended"
    <3>1. state'.phase \in {"peer-connected", "authenticating"} => Opens(t)
      BY <2>1, ReportsAre DEF Opens
    <3> QED
      BY <1>2, <2>1, <3>1, ReportsAre, OpensAnswered DEF ReportLoaded
  <2> QED
    BY <2>1, <2>2, <2>3, ReportsNone, SMTT(60)
<1>3. CASE ProofVerified(t)
  <2>1. task[t].at = "verifying" /\ UNCHANGED <<state, doc, power, debugger, client, active, teardown>>
    BY <1>3 DEF ProofVerified
  <2>2. /\ task'[t].at = "verified" /\ task'[t].seen = state /\ task'[t].report = "none"
        /\ \A u \in Tasks \ {t} : task'[u] = task[u]
    BY <1>3, SessionEffects, AskAt
  <2> QED
    BY <2>1, <2>2, ReportsNone, SMTT(60)
<1>4. CASE onPeerVerified(t)
  <2>1. /\ task[t].at = "verified" /\ UNCHANGED <<doc, power, debugger, client, active, teardown>>
        /\ IF task[t].seen.phase = "authenticating"
           THEN state'.phase = "remote-active" /\ state'.capture = task[t].seen.capture
           ELSE UNCHANGED state
    BY <1>4, Typing DEF onPeerVerified, Answered, TaskType, SessionStates
  <2>2. /\ task'[t].at = IF task[t].seen.phase = "authenticating" THEN "attaching" ELSE "none"
        /\ task'[t].report = "none"
        /\ \A u \in Tasks \ {t} : task'[u] = task[u]
    BY <1>4, SessionEffects, RestAt
  <2> QED
    BY <2>1, <2>2, ReportsNone, SMTT(60)
<1>5. CASE InputAttached(t)
  <2>1. /\ task[t].at = "attaching" /\ UNCHANGED <<state, doc, power, client, active, teardown>>
        /\ debugger'
    BY <1>5 DEF InputAttached
  <2>2. /\ task'[t].at = "none" /\ task'[t].report = "none"
        /\ \A u \in Tasks \ {t} : task'[u] = task[u]
    BY <1>5, SessionEffects, RestAt
  <2> QED
    BY <2>1, <2>2, ReportsNone, SMTT(60)
<1>6. CASE AttachFails(t)
  <2>1. /\ task[t].at = "attaching" /\ UNCHANGED <<state, doc, power, client, active>>
        /\ debugger' \in {debugger, TRUE}
    BY <1>6 DEF AttachFails
  <2>2. teardown = "null"
    BY <2>1, SMTT(60) DEF TypeInv, TypeOK
  <2>3. /\ task'[t].at = "detaching" /\ task'[t].report = "none" /\ teardown' = t
        /\ \A u \in Tasks \ {t} : task'[u] = task[u]
    BY <1>6, <2>2, SessionEffects, StopAt
  <2> QED
    BY <2>1, <2>2, <2>3, TasksAssumption, ReportsNone, SMTT(60)
<1>7. CASE SessionEnds(t)
  <2>1. /\ task[t].at = "ending" /\ UNCHANGED <<state, doc, power, client, teardown>>
        /\ ~debugger' /\ ~active'
    BY <1>7 DEF SessionEnds
  <2>2. Matters("ended") <=> state.phase \notin {"idle", "enabled"}
    BY Typing, ReportsAre DEF Matters, SessionStates
  <2>3. CASE /\ ~Matters("ended") /\ task'[t].at = "none" /\ task'[t].report = "none"
             /\ \A u \in Tasks \ {t} : task'[u] = task[u]
    BY <2>1, <2>2, <2>3, ReportsNone, SMTT(60)
  <2>4. CASE /\ Matters("ended")
             /\ \E u \in Tasks :
                  /\ task'[u].at = "reporting" /\ task'[u].seen = state /\ task'[u].report = "ended"
                  /\ u = t \/ (task[u].at = "none" /\ task[u].report = "none"
                               /\ task'[t].at = "none" /\ task'[t].report = "none")
                  /\ \A v \in Tasks \ {t, u} : task'[v] = task[v]
    <3>1. PICK u \in Tasks :
            /\ task'[u].at = "reporting" /\ task'[u].seen = state /\ task'[u].report = "ended"
            /\ u = t \/ (task[u].at = "none" /\ task[u].report = "none"
                         /\ task'[t].at = "none" /\ task'[t].report = "none")
            /\ \A v \in Tasks \ {t, u} : task'[v] = task[v]
      BY <2>4
    <3> QED
      BY <2>1, <2>2, <2>4, <3>1, ReportsNone, SMTT(60)
  <2> QED
    BY <1>7, <2>1, <2>3, <2>4, SessionEffects, MoveAndTellAt
<1> QED
  BY <1>1, <1>2, <1>3, <1>4, <1>5, <1>6, <1>7

(* What comes from outside keeps everything in its place.                    *)
LEMMA StartAt ==
  ASSUME TypeInv, NEW at, Starts(Resting(at)) \/ StartsAsking(Resting(at))
  PROVE  \E t \in Tasks :
           /\ task[t].at = "none" /\ task[t].report = "none"
           /\ task'[t].at = at /\ task'[t].report = "none"
           /\ \A u \in Tasks \ {t} : task'[u] = task[u]
<1>1. PICK t \in Tasks : task[t] = NoTask /\ \E q : Moves(t, Resting(at), q)
  BY DEF Starts, StartsAsking
<1> QED
  BY <1>1, RestAt, FreeAt

LEMMA StartAskAt ==
  ASSUME TypeInv, NEW at, NEW s, StartsAsking(Asking(at, s))
  PROVE  \E t \in Tasks :
           /\ task[t].at = "none" /\ task[t].report = "none"
           /\ task'[t].at = at /\ task'[t].seen = s /\ task'[t].report = "none"
           /\ \A u \in Tasks \ {t} : task'[u] = task[u]
<1>1. PICK t \in Tasks : task[t] = NoTask /\ Moves(t, Asking(at, s), Append(replies, t))
  BY DEF StartsAsking
<1> QED
  BY <1>1, AskAt, FreeAt

LEMMA CaptureStreams ==
  ASSUME TypeInv, NEW g \in Tasks \cup {Orphan}
  PROVE  /\ CaptureGranted(g) => doc'.stream
         /\ CaptureRefused(g) => doc'.stream = doc.stream
BY DEF CaptureGranted, CaptureRefused, TypeInv, TypeOK

LEMMA OutsideStill ==
  ASSUME TypeInv, Still, Alone', Outside, ~raced'
  PROVE  Still'
<1> USE DEF Still, Alone, Clash, Enders, IdleInv, WakeInv, PassInv, ArmedInv, EnableInv, OnInv, SeenInv,
            SessionInv, Some, At, Late, Stopped, Streaming, SomeEnded, Ended, PeerPhases,
            Enabling, Verifying, Ending, Passing, Waking
<1>1. CASE EnableClicked
  <2>1. state.phase = "idle" /\ UNCHANGED <<state, doc, power, debugger, client, active, teardown>>
    BY <1>1 DEF EnableClicked
  <2>2. PICK t \in Tasks :
          /\ task[t].at = "none" /\ task[t].report = "none"
          /\ task'[t].at = "enabling" /\ task'[t].report = "none"
          /\ \A u \in Tasks \ {t} : task'[u] = task[u]
    BY <1>1, OutsideEffects, StartAskAt
  <2> QED
    BY <2>1, <2>2, ReportsNone, SMTT(60)
<1>2. CASE StopClicked \/ RevokeClicked
  <2>1. UNCHANGED <<state, doc, power, debugger, client, active>>
    BY <1>2 DEF StopClicked, RevokeClicked
  <2>2. PICK t \in Tasks : task[t].at = "none" /\ task[t].report = "none" /\ Stops(t, replies)
    BY <1>2, OutsideEffects, FreeAt
  <2>3. CASE teardown = "null"
    <3>1. /\ task'[t].at = "detaching" /\ task'[t].report = "none" /\ teardown' = t
          /\ \A u \in Tasks \ {t} : task'[u] = task[u]
      BY <2>2, <2>3, StopAt
    <3> QED
      BY <2>1, <2>2, <2>3, <3>1, TasksAssumption, ReportsNone, SMTT(60)
  <2>4. CASE teardown # "null"
    <3>1. /\ task'[t].at = "none" /\ task'[t].report = "none" /\ UNCHANGED teardown
          /\ \A u \in Tasks \ {t} : task'[u] = task[u]
      BY <2>2, <2>4, StopAt
    <3> QED
      BY <2>1, <2>2, <3>1, ReportsNone, SMTT(60)
  <2> QED
    BY <2>3, <2>4
<1>3. ASSUME NEW r \in DOMAIN Reports,
             \/ ClientOnline /\ r = "online"
             \/ ClientLost /\ r = "away"
             \/ r \in SenderReports /\ SenderEvent(r)
      PROVE  Still'
  <2>1. /\ UNCHANGED <<state, doc, power, debugger, active, teardown>>
        /\ \/ client # "none" /\ client' # "none"
           \/ active /\ UNCHANGED client
    BY <1>3 DEF ClientOnline, ClientLost, SenderEvent
  <2>2. CASE task' = task
    BY <2>1, <2>2, ReportsNone, SMTT(60)
  <2>3. CASE \E t \in Tasks :
               /\ task[t].at = "none" /\ task[t].report = "none"
               /\ task'[t].at = "reporting" /\ task'[t].seen = state /\ task'[t].report = r
               /\ \A u \in Tasks \ {t} : task'[u] = task[u]
    <3>1. PICK t \in Tasks :
            /\ task[t].at = "none" /\ task[t].report = "none"
            /\ task'[t].at = "reporting" /\ task'[t].seen = state /\ task'[t].report = r
            /\ \A u \in Tasks \ {t} : task'[u] = task[u]
      BY <2>3
    <3> QED
      BY <2>1, <3>1, ReportsNone, SMTT(60)
  <2>4. Tells(r)
    BY <1>3, OutsideEffects
  <2> QED
    BY <2>2, <2>3, <2>4, TellAt
<1>4. CASE SessionRequested
  <2>1. /\ state.capture = "active" /\ client = "online"
        /\ UNCHANGED <<state, doc, power, debugger, client, active, teardown>>
    BY <1>4 DEF SessionRequested
  <2>2. PICK t \in Tasks :
          /\ task[t].at = "none" /\ task[t].report = "none"
          /\ task'[t].at = "requesting" /\ task'[t].seen = state /\ task'[t].report = "none"
          /\ \A u \in Tasks \ {t} : task'[u] = task[u]
    BY <1>4, OutsideEffects, StartAskAt
  <2> QED
    BY <2>1, <2>2, ReportsNone, SMTT(60)
<1>5. CASE ProofArrives
  <2>1. active /\ UNCHANGED <<state, doc, power, debugger, client, active, teardown>>
    BY <1>5 DEF ProofArrives
  <2>2. PICK t \in Tasks :
          /\ task[t].at = "none" /\ task[t].report = "none"
          /\ task'[t].at = "verifying" /\ task'[t].report = "none"
          /\ \A u \in Tasks \ {t} : task'[u] = task[u]
    BY <1>5, OutsideEffects, StartAt
  <2> QED
    BY <2>1, <2>2, ReportsNone, SMTT(60)
<1>6. CASE SessionFails \/ DebuggerDetached
  <2>1. /\ (active /\ UNCHANGED debugger) \/ (debugger /\ ~debugger')
        /\ UNCHANGED <<state, doc, power, client, active, teardown>>
    BY <1>6 DEF SessionFails, DebuggerDetached
  <2>2. PICK t \in Tasks :
          /\ task[t].at = "none" /\ task[t].report = "none"
          /\ task'[t].at = "ending" /\ task'[t].report = "none"
          /\ \A u \in Tasks \ {t} : task'[u] = task[u]
    BY <1>6, OutsideEffects, StartAt
  <2> QED
    BY <2>1, <2>2, ReportsNone, SMTT(60)
<1>7. CASE TrackEnds
  <2>1. doc.stream /\ UNCHANGED <<state, power, debugger, client, active, teardown>>
    BY <1>7 DEF TrackEnds
  <2>2. CASE LossMatters(state)
    <3>1. PICK t \in Tasks :
            /\ task[t].at = "none" /\ task[t].report = "none"
            /\ task'[t].at = "noticing" /\ task'[t].report = "none"
            /\ \A u \in Tasks \ {t} : task'[u] = task[u]
      BY <1>7, <2>2, OutsideEffects, StartAt
    <3>2. state.phase # "idle"
      BY <2>2 DEF LossMatters, TypeInv, OffStored, Off
    <3> QED
      BY <2>1, <3>1, <3>2, ReportsNone, SMTT(60) DEF NoDoc
  <2>3. CASE ~LossMatters(state)
    <3>1. task' = task
      BY <1>7, <2>3, OutsideEffects
    <3>2. state.capture = "idle"
      BY <2>3 DEF LossMatters
    <3> QED
      BY <2>1, <3>1, <3>2, ReportsNone, SMTT(60) DEF NoDoc
  <2> QED
    BY <2>2, <2>3
<1>8. CASE TabCloses
  <2>1. state.phase # "idle" /\ UNCHANGED <<state, doc, power, debugger, client, active, teardown>>
    BY <1>8 DEF TabCloses
  <2>2. PICK t \in Tasks :
          /\ task[t].at = "none" /\ task[t].report = "none"
          /\ task'[t].at = "noticing" /\ task'[t].report = "none"
          /\ \A u \in Tasks \ {t} : task'[u] = task[u]
    BY <1>8, OutsideEffects, StartAt
  <2> QED
    BY <2>1, <2>2, ReportsNone, SMTT(60)
<1>9. CASE Restart
  <2>1. /\ UNCHANGED <<state, power>> /\ ~debugger'
        /\ client' = "none" /\ ~active' /\ teardown' = "null"
        /\ doc' \in {NoDoc, [doc EXCEPT !.getting = IF @ = {} THEN {} ELSE {Orphan}]}
        /\ \A t \in Tasks : task[t].at # "sweeping"
    BY <1>9 DEF Restart
  <2>2. doc = NoDoc => doc' = NoDoc
    BY <2>1 DEF NoDoc
  <2> DEFINE first == CHOOSE u \in Tasks : TRUE
  <2>3. /\ \A t \in Tasks : /\ task'[t].at = IF state.phase # "idle" /\ t = first THEN "waking" ELSE "none"
                            /\ task'[t].report = "none"
        /\ first \in Tasks
    BY <1>9, RestartEffect, TasksAssumption DEF Woken, NoTask, Resting
  <2> HIDE DEF first
  <2> QED
    BY <2>1, <2>2, <2>3, TasksAssumption, SMTT(60)
<1>10. ASSUME NEW g \in Tasks \cup {Orphan}, CaptureGranted(g) \/ CaptureRefused(g)
       PROVE  Still'
  <2>1. /\ doc # NoDoc /\ UNCHANGED <<state, power, debugger, client, active, teardown>>
    BY <1>10 DEF CaptureGranted, CaptureRefused, NoDoc
  <2>2. IF CaptureGranted(g) THEN doc'.stream ELSE UNCHANGED (doc.stream)
    BY <1>10, CaptureStreams
  <2>3. CASE g = Orphan
    <3>1. task' = task
      BY <1>10, <2>3, CaptureEffects
    <3> QED
      BY <2>1, <2>2, <3>1, ReportsNone, SMTT(60)
  <2>4. CASE g # Orphan
    <3>1. /\ task[g].at = "capturing"
          /\ task'[g].at = IF CaptureGranted(g) THEN "granted" ELSE "refused"
          /\ task'[g].report = "none"
          /\ \A u \in Tasks \ {g} : task'[u] = task[u]
      BY <1>10, <2>4, CaptureEffects, RestAt
    <3> QED
      BY <2>1, <2>2, <2>4, <3>1, ReportsNone, SMTT(60)
  <2> QED
    BY <2>3, <2>4
<1> QED
  BY <1>1, <1>2, <1>3, <1>4, <1>5, <1>6, <1>7, <1>8, <1>9, <1>10, ReportsAre DEF Outside
-----------------------------------------------------------------------------
(* The order of the answers.  One task moves and makes no report: it has     *)
(* not been waiting, or it is the one that is answered.                      *)
InTurn(t, q) ==
  \/ task[t].at \notin Waiting /\ q \in {replies, Append(replies, t)}
  \/ replies # <<>> /\ Head(replies) = t /\ q \in {Tail(replies), Append(Tail(replies), t)}

LEMMA OrderKept ==
  ASSUME TypeInv, NEW t \in Tasks, InTurn(t, replies'), NEW u \in Tasks \ {t}
  PROVE  /\ \A v \in Tasks \ {t} : Before(u, v)' <=> Before(u, v)
         /\ ~(task[t].at \in Waiting /\ Before(u, t))
         /\ task[t].at \notin Waiting => ~Before(t, u)'
<1>1. /\ replies \in Seq(Tasks) /\ Len(replies) \in Nat /\ OwedOnce(Now) /\ Now.replies = replies
      /\ task[t].at \in Waiting <=> \E i \in 1..Len(replies) : replies[i] = t
  BY Typing DEF Tidy, Owes
<1>2. CASE task[t].at \notin Waiting /\ replies' = replies
  BY <1>1, <1>2 DEF Before
<1>3. CASE task[t].at \notin Waiting /\ replies' = Append(replies, t)
  <2>1. /\ Len(replies') = Len(replies) + 1 /\ replies'[Len(replies) + 1] = t
        /\ \A i \in 1..Len(replies) : replies'[i] = replies[i]
    BY <1>1, <1>3
  <2> QED
    BY <1>1, <1>3, <2>1 DEF Before
<1>4. CASE replies # <<>> /\ Head(replies) = t
  <2>1. /\ replies[1] = t /\ Len(replies) >= 1
        /\ \A i \in 1..Len(replies) : replies[i] = t => i = 1
    BY <1>1, <1>4 DEF OwedOnce
  <2>2. task[t].at \in Waiting /\ ~Before(u, t)
    BY <1>1, <2>1 DEF Before
  <2>3. /\ Len(Tail(replies)) = Len(replies) - 1
        /\ \A i \in 1..Len(replies) - 1 : Tail(replies)[i] = replies[i + 1]
        /\ Tail(replies) \in Seq(Tasks)
    BY <1>1, <1>4
  <2>4. /\ Len(replies') >= Len(replies) - 1 /\ Len(replies') \in Nat
        /\ \A i \in 1..Len(replies) - 1 : replies'[i] = replies[i + 1]
        /\ \A i \in 1..Len(replies') : i <= Len(replies) - 1 \/ replies'[i] = t
    <3>1. CASE replies' = Tail(replies)
      BY <1>1, <2>1, <2>3, <3>1
    <3>2. CASE replies' = Append(Tail(replies), t)
      <4> DEFINE q == Tail(replies)
      <4>1. q \in Seq(Tasks) /\ Len(q) = Len(replies) - 1 /\ replies' = Append(q, t)
        BY <2>3, <3>2
      <4> HIDE DEF q
      <4>2. /\ Len(replies') = Len(replies) /\ replies'[Len(replies)] = t
            /\ \A i \in 1..Len(replies) - 1 : replies'[i] = q[i]
        BY <1>1, <2>1, <4>1
      <4>3. \A i \in 1..Len(replies) - 1 : replies'[i] = replies[i + 1]
        BY <2>3, <4>2 DEF q
      <4> QED
        BY <1>1, <2>1, <4>2, <4>3
    <3> QED
      BY <1>1, <2>2, <3>1, <3>2 DEF InTurn
  <2>5. ASSUME NEW v \in Tasks \ {t}
        PROVE  Before(u, v)' <=> Before(u, v)
    <3>1. ASSUME NEW i \in 1..Len(replies), NEW j \in 1..Len(replies), i < j,
                 replies[i] = u, replies[j] = v
          PROVE  /\ i - 1 \in 1..Len(replies') /\ j - 1 \in 1..Len(replies') /\ i - 1 < j - 1
                 /\ replies'[i - 1] = u /\ replies'[j - 1] = v
      BY <1>1, <2>1, <2>4, <3>1
    <3>2. ASSUME NEW i \in 1..Len(replies'), NEW j \in 1..Len(replies'), i < j,
                 replies'[i] = u, replies'[j] = v
          PROVE  /\ i + 1 \in 1..Len(replies) /\ j + 1 \in 1..Len(replies) /\ i + 1 < j + 1
                 /\ replies[i + 1] = u /\ replies[j + 1] = v
      BY <1>1, <2>1, <2>4, <3>2
    <3>3. Before(u, v) => Before(u, v)'
      BY <3>1 DEF Before
    <3>4. Before(u, v)' => Before(u, v)
      BY <3>2 DEF Before
    <3> QED
      BY <3>3, <3>4
  <2> QED
    BY <2>2, <2>5
<1> QED
  BY <1>2, <1>3, <1>4 DEF InTurn

LEMMA MoveOrder ==
  ASSUME TypeInv, InOrder, NEW t \in Tasks, InTurn(t, replies'), task'[t].report = "none",
         TypeInv', \A u \in Tasks \ {t} : task'[u] = task[u],
         task'[t].at = "reading" => task[t].at \notin Waiting,
         active => active' \/ task'[t].at \in Passing,
         task[t].at \in Passing => task'[t].at \in Passing \/ ~Some({"reporting"})
  PROVE  InOrder'
<1>1. task'[t].at # "reporting"
  BY Typing DEF Tidy, RestsWell, TypeInv, Now
<1>2. ReadInv'
  BY <1>1, OrderKept DEF InOrder, ReadInv, At
<1>3. ASSUME NEW u \in Tasks, Opens(u)'
      PROVE  (active \/ Some(Passing))' \/ \E v \in Tasks : (Before(u, v) /\ Ended(v))'
  <2>1. u # t /\ Opens(u) /\ Some({"reporting"})
    BY <1>3, ReportsNone DEF Opens, Some, At
  <2>2. CASE active
    BY <2>2 DEF Some, At
  <2>3. CASE Some(Passing)
    BY <2>1, <2>3 DEF Some, At
  <2>4. ASSUME NEW v \in Tasks, Before(u, v), Ended(v)
        PROVE  (Before(u, v) /\ Ended(v))'
    <3>1. v # t
      BY <2>1, <2>4, OrderKept, ReportsNone DEF Ended, Waiting
    <3> QED
      BY <2>1, <2>4, <3>1, OrderKept DEF Ended
  <2> QED
    BY <2>1, <2>2, <2>3, <2>4 DEF InOrder, OpensInv
<1> QED
  BY <1>2, <1>3 DEF InOrder, OpensInv

(* A report is made, when no pass waits for the state, perhaps beside a move *)
(* of t that waits for nothing; if it ends the session, those before it are  *)
(* before it in the queue.                                                   *)
LEMMA TellOrder ==
  ASSUME TypeInv, InOrder, NEW t \in Tasks, NEW u \in Tasks,
         task[t].report = "none", task[u].at \notin Waiting, task[u].report = "none",
         replies' = Append(replies, u),
         t # u => task'[t].report = "none" /\ task'[t].at # "reading",
         task'[u].at = "reporting",
         \A v \in Tasks \ {t, u} : task'[v] = task[v] /\ task[v].at # "reading",
         task'[u].report \in {"connected", "opened"} => active',
         active => active' \/ task'[u].report = "ended",
         \A v \in {t, u} : task[v].at \in Passing => task'[v].at \in Passing
  PROVE  InOrder'
<1>1. InTurn(u, replies')
  BY DEF InTurn
<1>2. ReadInv'
  BY DEF ReadInv, At
<1>3. ASSUME NEW w \in Tasks, Opens(w)'
      PROVE  (active \/ Some(Passing))' \/ \E v \in Tasks : (Before(w, v) /\ Ended(v))'
  <2>1. CASE w = u
    BY <1>3, <2>1 DEF Opens
  <2>2. CASE w # u
    <3>1. w # t /\ Opens(w) /\ task[w].at = "reporting"
      BY <1>3, <2>2, ReportsNone DEF Opens
    <3>2. CASE active'
      BY <3>2
    <3>3. CASE active /\ task'[u].report = "ended"
      <4>1. PICK i \in 1..Len(replies) : replies[i] = w
        BY <3>1, Typing DEF Tidy, Owes, Waiting
      <4>2. /\ Len(replies) \in Nat /\ Len(replies') = Len(replies) + 1
            /\ replies'[Len(replies) + 1] = u /\ replies'[i] = w
        BY <4>1, Typing
      <4>3. Before(w, u)'
        BY <4>1, <4>2 DEF Before
      <4> QED
        BY <3>3, <4>3 DEF Ended
    <3>4. CASE Some(Passing)
      BY <3>4 DEF Some, At
    <3>5. ASSUME NEW v \in Tasks, Before(w, v), Ended(v)
          PROVE  (Before(w, v) /\ Ended(v))'
      <4>1. v \notin {t, u}
        BY <3>5 DEF Ended
      <4> QED
        BY <1>1, <2>2, <3>5, <4>1, OrderKept DEF Ended
    <3> QED
      BY <3>1, <3>2, <3>3, <3>4, <3>5 DEF InOrder, OpensInv
  <2> QED
    BY <2>1, <2>2
<1> QED
  BY <1>2, <1>3 DEF InOrder, OpensInv

LEMMA RestOrder ==
  ASSUME TypeInv, InOrder, TypeInv', NEW t \in Tasks, NEW at, NEW q, InTurn(t, q),
         Moves(t, Resting(at), q), at # "reading",
         active => active' \/ at \in Passing,
         task[t].at \in Passing => at \in Passing \/ ~Some({"reporting"})
  PROVE  InOrder'
<1>1. /\ task'[t].at = at /\ task'[t].report = "none" /\ replies' = q
      /\ \A u \in Tasks \ {t} : task'[u] = task[u]
  BY RestAt DEF Moves
<1> QED
  BY <1>1, MoveOrder

LEMMA AskOrder ==
  ASSUME TypeInv, InOrder, TypeInv', NEW t \in Tasks, NEW at, NEW s, NEW q, InTurn(t, q),
         Moves(t, Asking(at, s), q), at # "reading",
         active => active' \/ at \in Passing,
         task[t].at \in Passing => at \in Passing \/ ~Some({"reporting"})
  PROVE  InOrder'
<1>1. /\ task'[t].at = at /\ task'[t].report = "none" /\ replies' = q
      /\ \A u \in Tasks \ {t} : task'[u] = task[u]
  BY AskAt DEF Moves
<1> QED
  BY <1>1, MoveOrder

LEMMA StopOrder ==
  ASSUME TypeInv, InOrder, TypeInv', NEW t \in Tasks, NEW q, InTurn(t, q), Stops(t, q),
         active => active', task[t].at \notin Passing
  PROVE  InOrder'
<1>1. /\ task'[t].at \in {"none", "detaching"} /\ task'[t].report = "none" /\ replies' = q
      /\ \A u \in Tasks \ {t} : task'[u] = task[u]
  BY StopAt DEF Stops, Moves
<1> QED
  BY <1>1, MoveOrder

LEMMA NothingOrder ==
  ASSUME InOrder, UNCHANGED <<task, replies>>, active => active'
  PROVE  InOrder'
BY DEF InOrder, ReadInv, OpensInv, Before, Opens, Ended, Some, At

LEMMA TellsOrder ==
  ASSUME TypeInv, InOrder, NEW r \in DOMAIN Reports, Tells(r), UNCHANGED active,
         \A v \in Tasks : task[v].at # "reading",
         r \in {"connected", "opened"} => active
  PROVE  InOrder'
<1>1. CASE ~Matters(r)
  BY <1>1, NothingOrder DEF Tells
<1>2. CASE Matters(r)
  <2>1. PICK u \in Tasks : task[u] = NoTask /\ Moves(u, Reporting(r), Append(replies, u))
    BY <1>2 DEF Tells
  <2>2. /\ task[u].at = "none" /\ task[u].report = "none" /\ replies' = Append(replies, u)
        /\ task'[u].at = "reporting" /\ task'[u].report = r
        /\ \A v \in Tasks \ {u} : task'[v] = task[v]
    <3>1. task'[u] = Reporting(r) /\ \A v \in Tasks \ {u} : task'[v] = task[v]
      BY <2>1, MoveAt
    <3>2. replies' = Append(replies, u)
      BY <2>1 DEF Moves
    <3> QED
      BY <2>1, <3>1, <3>2, FreeAt DEF Reporting
  <2>3. "none" \notin Waiting \cup Passing
    BY DEF Waiting, Passing
  <2> QED
    BY <2>2, <2>3, TellOrder
<1> QED
  BY <1>1, <1>2

LEMMA MoveAndTellOrder ==
  ASSUME TypeInv, InOrder, TypeInv', NEW t \in Tasks, task[t].at \notin Waiting,
         NEW at \in Places \ {"reading"}, NEW r \in {"away", "ended"}, MovesAndTells(t, Resting(at), r),
         active => active' \/ (r = "ended" /\ Matters(r)),
         \A v \in Tasks : task[v].at # "reading",
         task[t].at \in Passing => at \in Passing
  PROVE  InOrder'
<1>1. CASE ~Matters(r)
  <2>1. InTurn(t, replies)
    BY DEF InTurn
  <2> QED
    BY <1>1, <2>1, RestOrder DEF MovesAndTells
<1>2. CASE Matters(r)
  <2>1. PICK u \in Tasks :
          /\ [task EXCEPT ![t] = Resting(at)][u] = NoTask
          /\ task' = [task EXCEPT ![t] = Resting(at), ![u] = Reporting(r)]
          /\ replies' = Append(replies, u)
    BY <1>2 DEF MovesAndTells
  <2>2. /\ task'[u] = Reporting(r)
        /\ u = t => Resting(at) = NoTask
        /\ u # t => task[u] = NoTask /\ task'[t] = Resting(at)
        /\ \A v \in Tasks \ {t, u} : task'[v] = task[v]
    BY <2>1, Typing
  <2>3. u = t => at = "none"
    BY <2>2 DEF Resting, NoTask
  <2>4. "none" \notin Waiting \cup Passing /\ "reporting" \in Waiting
    BY DEF Waiting, Passing
  <2>5. /\ task'[u].at = "reporting" /\ task'[u].report = r
        /\ u # t => task'[t].at = at /\ task'[t].report = "none"
        /\ u # t => task[u].at = "none" /\ task[u].report = "none"
        /\ task[t].report = "none"
    BY <2>2, <2>4, FreeAt, ReportsNone DEF Reporting, Resting
  <2>6. task[u].at \notin Waiting /\ task[u].report = "none"
    BY <2>4, <2>5
  <2>7. \A v \in {t, u} : task[v].at \in Passing => task'[v].at \in Passing
    BY <2>3, <2>4, <2>5
  <2>8. \A v \in Tasks \ {t, u} : task'[v] = task[v] /\ task[v].at # "reading"
    BY <2>2
  <2>9. /\ task'[u].report \in {"connected", "opened"} => active'
        /\ active => active' \/ task'[u].report = "ended"
        /\ t # u => task'[t].report = "none" /\ task'[t].at # "reading"
    BY <2>5
  <2> QED
    BY <2>1, <2>5, <2>6, <2>7, <2>8, <2>9, TellOrder
<1> QED
  BY <1>1, <1>2

(* Where the tasks that are not part of a pass are.                          *)
LEMMA NotPassing ==
  /\ Passing \cap (Enabling \cup Verifying \cup Ending \cup Waking
                     \cup {"none", "reporting", "requesting", "noticing"}) = {}
  /\ {"detaching", "hangingUp", "uncapturing", "closing", "reading", "stopping"} = Passing
BY DEF Passing, Enabling, Verifying, Ending, Waking

(* Every action keeps both orders.                                           *)
LEMMA EnableOrder ==
  ASSUME TypeInv, Still, InOrder, TypeInv', NEW t \in Tasks,
         \/ EnableLoaded(t) \/ TabRefused(t) \/ TabFound(t) \/ EnableSaved(t) \/ CheckDocument(t)
         \/ CreateDocument(t) \/ CreateFails(t) \/ CaptureTimesOut(t) \/ FailCapture(t)
         \/ CaptureActive(t) \/ Activated(t) \/ StartSignaling(t)
  PROVE  InOrder'
<1>1. task[t].at \in Enabling /\ task[t].at \notin Passing
  BY NotPassing
     DEF EnableLoaded, TabRefused, TabFound, EnableSaved, CheckDocument, CreateDocument, CreateFails,
         CaptureTimesOut, Timed, FailCapture, CaptureActive, Activated, StartSignaling, Answered, At, Enabling
<1>2. active => active'
  BY DEF EnableLoaded, TabRefused, TabFound, EnableSaved, CheckDocument, CreateDocument, CreateFails,
         CaptureTimesOut, FailCapture, CaptureActive, Activated, StartSignaling
<1>3. CASE EnableLoaded(t) \/ EnableSaved(t) \/ Activated(t)
  <2>1. InTurn(t, Tail(replies))
    BY <1>3 DEF EnableLoaded, EnableSaved, Activated, Answered, InTurn
  <2> QED
    BY <1>1, <1>2, <1>3, <2>1, EnableEffects, RestOrder
<1>4. CASE \/ TabRefused(t) \/ TabFound(t) \/ CheckDocument(t) \/ CreateDocument(t) \/ CreateFails(t)
           \/ CaptureTimesOut(t) \/ FailCapture(t) \/ CaptureActive(t) \/ StartSignaling(t)
  <2>1. task[t].at \notin Waiting
    BY <1>4
       DEF TabRefused, TabFound, CheckDocument, CreateDocument, CreateFails, CaptureTimesOut, Timed,
           FailCapture, CaptureActive, StartSignaling, At, Waiting
  <2>2. InTurn(t, replies) /\ InTurn(t, Append(replies, t))
    BY <2>1 DEF InTurn
  <2>3. CASE TabFound(t) \/ CaptureActive(t)
    BY <1>1, <1>2, <2>2, <2>3, EnableEffects, AskOrder
  <2>4. CASE CreateFails(t) \/ FailCapture(t)
    BY <1>1, <1>2, <2>2, <2>4, EnableEffects, StopOrder
  <2>5. CASE StartSignaling(t)
    <3>1. \A v \in Tasks : task[v].at # "reading"
      BY <1>1 DEF Still, Alone, Clash, Passing, Enabling
    <3> QED
      BY <1>1, <1>2, <2>1, <2>5, <3>1, EnableEffects, MoveAndTellOrder, PlacesAre
  <2>6. CASE TabRefused(t) \/ CheckDocument(t) \/ CreateDocument(t) \/ CaptureTimesOut(t)
    <3>1. PICK at : Moves(t, Resting(at), replies) /\ at # "reading"
      BY <2>6, EnableEffects
    <3> QED
      BY <1>1, <1>2, <2>2, <3>1, RestOrder
  <2> QED
    BY <1>4, <2>3, <2>4, <2>5, <2>6
<1> QED
  BY <1>3, <1>4

LEMMA PassOrder ==
  ASSUME TypeInv, Still, InOrder, TypeInv', NEW t \in Tasks,
         \/ InputStops(t) \/ PeerStops(t) \/ CaptureStops(t) \/ DocumentCloses(t) \/ StateStops(t)
         \/ PassFinished(t) \/ Noticed(t) \/ Reconciled(t) \/ LeftoversClose(t)
  PROVE  InOrder'
<1>1. CASE InputStops(t) \/ CaptureStops(t)
  <2>1. InTurn(t, replies) /\ active' = active
    BY <1>1 DEF InputStops, CaptureStops, At, InTurn, Waiting
  <2>2. PICK at \in {"hangingUp", "closing"} : Moves(t, Resting(at), replies)
    BY <1>1, PassEffects
  <2> QED
    BY <2>1, <2>2, RestOrder, NotPassing
<1>2. CASE PeerStops(t)
  <2>1. /\ task[t].at = "hangingUp" /\ task[t].at \notin Waiting /\ active' = active
        /\ InTurn(t, replies)
    BY <1>2 DEF PeerStops, At, Waiting, InTurn
  <2>2. \A v \in Tasks : task[v].at # "reading"
    BY <2>1, NotPassing DEF Still, PassInv, At
  <2>3. CASE MovesAndTells(t, Resting("uncapturing"), "away")
    BY <2>1, <2>2, <2>3, MoveAndTellOrder, NotPassing, PlacesAre, PlacesRest
  <2>4. CASE Moves(t, Resting("uncapturing"), replies)
    BY <2>1, <2>4, RestOrder, NotPassing
  <2> QED
    BY <1>2, <2>3, <2>4, PassEffects
<1>3. CASE DocumentCloses(t)
  <2>1. /\ task[t].at = "closing" /\ task[t].at \notin Waiting /\ task[t].at \in Passing
        /\ Alone
    BY <1>3, NotPassing DEF DocumentCloses, At, Waiting, Still
  <2>2. MovesDropping(t, Asking("reading", Off), Append(replies, t))
    BY <1>3, PassEffects
  <2>3. /\ task'[t].at = "reading" /\ task'[t].report = "none" /\ replies' = Append(replies, t)
        /\ \A u \in Tasks \ {t} : task'[u] = task[u]
    BY <2>1, <2>2, DropAt DEF MovesDropping, Asking
  <2>4. InTurn(t, replies') /\ "reading" \in Passing
    BY <2>1, <2>3, NotPassing DEF InTurn
  <2> QED
    BY <2>1, <2>3, <2>4, MoveOrder
<1>4. CASE StateStops(t)
  <2>1. InTurn(t, Append(Tail(replies), t)) /\ active' = active
    BY <1>4 DEF StateStops, Answered, InTurn
  <2> QED
    BY <1>4, <2>1, PassEffects, AskOrder, NotPassing
<1>5. CASE PassFinished(t)
  <2>1. /\ InTurn(t, Tail(replies)) /\ active' = active
        /\ task[t].at = "stopping"
    BY <1>5 DEF PassFinished, Answered, InTurn
  <2>2. ~Some({"reporting"})
    BY <2>1 DEF Still, PassInv, IdleInv, Some, At, Late
  <2> QED
    BY <1>5, <2>1, <2>2, PassEffects, RestOrder
<1>6. CASE Noticed(t)
  <2>1. /\ InTurn(t, Tail(replies)) /\ active' = active
        /\ task[t].at \notin Passing
    BY <1>6, NotPassing DEF Noticed, Answered, InTurn
  <2> QED
    BY <1>6, <2>1, PassEffects, StopOrder
<1>7. CASE Reconciled(t)
  <2>1. /\ InTurn(t, Tail(replies)) /\ active' = active
        /\ task[t].at \notin Passing
    BY <1>7, NotPassing DEF Reconciled, Answered, InTurn, Waking
  <2> QED
    BY <1>7, <2>1, PassEffects, RestOrder
<1>8. CASE LeftoversClose(t)
  <2>1. /\ task[t].at = "sweeping" /\ task[t].at \notin Waiting /\ task[t].at \in Waking
        /\ task[t].at \notin Passing /\ Alone /\ active' = active
    BY <1>8, NotPassing DEF LeftoversClose, At, Waiting, Waking, Still
  <2>2. MovesDropping(t, Resting("none"), replies)
    BY <1>8, PassEffects
  <2>3. /\ task'[t].at = "none" /\ task'[t].report = "none" /\ replies' = replies
        /\ \A u \in Tasks \ {t} : task'[u] = task[u]
    BY <2>1, <2>2, DropAt DEF MovesDropping, Resting
  <2> QED
    BY <2>1, <2>3, MoveOrder DEF InTurn
<1> QED
  BY <1>1, <1>2, <1>3, <1>4, <1>5, <1>6, <1>7, <1>8

LEMMA SessionOrder ==
  ASSUME TypeInv, Still, InOrder, TypeInv', NEW t \in Tasks,
         \/ RequestLoaded(t) \/ ReportLoaded(t) \/ ProofVerified(t) \/ onPeerVerified(t)
         \/ InputAttached(t) \/ AttachFails(t) \/ SessionEnds(t)
  PROVE  InOrder'
<1>1. task[t].at \in Verifying \cup Ending \cup {"requesting", "reporting"} /\ task[t].at \notin Passing
  BY NotPassing
     DEF RequestLoaded, ReportLoaded, ProofVerified, onPeerVerified, InputAttached, AttachFails,
         SessionEnds, Answered, At, Verifying, Ending
<1>2. ~SessionEnds(t) => (active => active')
  BY DEF RequestLoaded, ReportLoaded, ProofVerified, onPeerVerified, InputAttached, AttachFails
<1>3. CASE RequestLoaded(t) \/ ReportLoaded(t) \/ onPeerVerified(t)
  <2>1. /\ InTurn(t, Tail(replies)) /\ InTurn(t, Append(Tail(replies), t))
        /\ active => active'
    BY <1>3 DEF RequestLoaded, ReportLoaded, onPeerVerified, Answered, InTurn
  <2>2. CASE \E at \in {"none", "attaching"} : Moves(t, Resting(at), Tail(replies))
    BY <1>1, <2>1, <2>2, RestOrder
  <2>3. CASE Moves(t, Asking("noticing", Off), Append(Tail(replies), t))
    BY <1>1, <2>1, <2>3, AskOrder
  <2> QED
    BY <1>3, <2>2, <2>3, SessionEffects
<1>4. CASE ProofVerified(t) \/ InputAttached(t) \/ AttachFails(t)
  <2>1. task[t].at \notin Waiting
    BY <1>4 DEF ProofVerified, InputAttached, AttachFails, At, Waiting
  <2>2. InTurn(t, replies) /\ InTurn(t, Append(replies, t)) /\ active' = active
    BY <1>4, <2>1 DEF ProofVerified, InputAttached, AttachFails, InTurn
  <2> QED
    BY <1>1, <1>4, <2>2, SessionEffects, RestOrder, AskOrder, StopOrder
<1>5. CASE SessionEnds(t)
  <2>1. task[t].at = "ending" /\ task[t].at \notin Waiting /\ task[t].at \in Ending
    BY <1>5 DEF SessionEnds, At, Waiting, Ending
  <2>2. \A v \in Tasks : task[v].at # "reading"
    BY <2>1 DEF Still, Alone, Clash, Enders, Passing
  <2>3. active => Matters("ended")
    BY ReportsAre, Typing DEF Still, SessionInv, Matters, SessionStates
  <2> QED
    BY <1>1, <1>5, <2>1, <2>2, <2>3, SessionEffects, MoveAndTellOrder, PlacesAre
<1> QED
  BY <1>3, <1>4, <1>5

LEMMA OutsideOrder ==
  ASSUME TypeInv, Still, InOrder, TypeInv', Outside
  PROVE  InOrder'
<1>1. ASSUME NEW t \in Tasks, task[t] = NoTask
      PROVE  InTurn(t, replies) /\ InTurn(t, Append(replies, t)) /\ task[t].at \notin Passing
  BY <1>1, FreeAt DEF InTurn, Waiting, Passing
<1>2. CASE EnableClicked \/ SessionRequested
  <2>1. active' = active
    BY <1>2 DEF EnableClicked, SessionRequested
  <2>2. PICK t \in Tasks :
          task[t] = NoTask /\ \E at \in {"enabling", "requesting"} :
                                Moves(t, Asking(at, state), Append(replies, t))
    BY <1>2, OutsideEffects DEF StartsAsking
  <2> QED
    BY <1>1, <2>1, <2>2, AskOrder
<1>3. CASE StopClicked \/ RevokeClicked
  <2>1. active' = active
    BY <1>3 DEF StopClicked, RevokeClicked
  <2>2. PICK t \in Tasks : task[t] = NoTask /\ Stops(t, replies)
    BY <1>3, OutsideEffects
  <2> QED
    BY <1>1, <2>1, <2>2, StopOrder
<1>4. ASSUME NEW r \in DOMAIN Reports,
             \/ ClientOnline /\ r = "online"
             \/ ClientLost /\ r = "away"
             \/ r \in SenderReports /\ SenderEvent(r)
      PROVE  InOrder'
  <2>1. /\ UNCHANGED active
        /\ client # "none" \/ active
        /\ r \in {"connected", "opened"} => active
    BY <1>4 DEF ClientOnline, ClientLost, SenderEvent
  <2>2. \A v \in Tasks : task[v].at # "reading"
    BY <2>1 DEF Still, PassInv, At, Passing
  <2> QED
    BY <1>4, <2>1, <2>2, OutsideEffects, TellsOrder
<1>5. CASE ProofArrives \/ SessionFails \/ DebuggerDetached \/ TabCloses
  <2>1. active' = active
    BY <1>5 DEF ProofArrives, SessionFails, DebuggerDetached, TabCloses
  <2>2. PICK t \in Tasks, at \in {"verifying", "ending", "noticing"} :
          task[t] = NoTask /\ \E q \in {replies, Append(replies, t)} : Moves(t, Resting(at), q)
    BY <1>5, OutsideEffects DEF Starts, StartsAsking
  <2> QED
    BY <1>1, <2>1, <2>2, RestOrder
<1>6. CASE TrackEnds
  <2>1. active' = active
    BY <1>6 DEF TrackEnds
  <2>2. CASE LossMatters(state)
    <3>1. PICK t \in Tasks : task[t] = NoTask /\ Moves(t, Resting("noticing"), Append(replies, t))
      BY <1>6, <2>2, OutsideEffects DEF StartsAsking
    <3> QED
      BY <1>1, <2>1, <3>1, RestOrder
  <2>3. CASE ~LossMatters(state)
    BY <1>6, <2>1, <2>3, OutsideEffects, NothingOrder
  <2> QED
    BY <2>2, <2>3
<1>7. CASE Restart
  <2> DEFINE first == CHOOSE u \in Tasks : TRUE
  <2>1. \A t \in Tasks : task'[t] = IF state.phase # "idle" /\ t = first THEN Resting("waking") ELSE NoTask
    BY <1>7, RestartEffect DEF Woken
  <2> HIDE DEF first
  <2>2. \A t \in Tasks : task'[t].report = "none" /\ task'[t].at # "reading"
    BY <2>1 DEF NoTask, Resting
  <2> QED
    BY <2>2 DEF InOrder, ReadInv, OpensInv, Opens, At
<1>8. ASSUME NEW g \in Tasks \cup {Orphan}, CaptureGranted(g) \/ CaptureRefused(g)
      PROVE  InOrder'
  <2>1. active' = active
    BY <1>8 DEF CaptureGranted, CaptureRefused
  <2>2. CASE g = Orphan
    BY <1>8, <2>1, <2>2, CaptureEffects, NothingOrder
  <2>3. CASE g # Orphan
    <3>1. PICK at \in {"granted", "refused"} : task[g].at = "capturing" /\ Moves(g, Resting(at), replies)
      BY <1>8, <2>3, CaptureEffects
    <3>2. InTurn(g, replies) /\ task[g].at \notin Passing
      BY <3>1 DEF InTurn, Waiting, Passing
    <3> QED
      BY <2>1, <2>3, <3>1, <3>2, RestOrder
  <2> QED
    BY <2>2, <2>3
<1> QED
  BY <1>2, <1>3, <1>4, <1>5, <1>6, <1>7, <1>8, ReportsAre DEF Outside
-----------------------------------------------------------------------------
(* The inductive invariant                                                   *)
LEMMA InitInv == Init => IInv
<1> SUFFICES ASSUME Init PROVE IInv
  OBVIOUS
<1>1. \A t \in Tasks : task[t].at = "none" /\ task[t].report = "none"
  BY DEF Init, NoTask
<1>2. /\ state.phase = "idle" /\ state.capture = "idle" /\ client = "none" /\ teardown = "null"
      /\ doc = NoDoc /\ ~power /\ ~debugger /\ ~active
  BY DEF Init, Off
<1>3. Still
  BY <1>1, <1>2, TasksAssumption
     DEF Still, Alone, Clash, Enders, IdleInv, WakeInv, PassInv, ArmedInv, EnableInv, OnInv, SeenInv,
         SessionInv, Some, At, Late, Stopped, SomeEnded, Ended, PeerPhases,
         Enabling, Verifying, Ending, Passing, Waking
<1>4. InOrder
  BY <1>1 DEF InOrder, ReadInv, OpensInv, Opens, At
<1> QED
  BY <1>3, <1>4, InitTypes DEF IInv, Sound

LEMMA NextInv ==
  ASSUME IInv, [Next]_vars
  PROVE  IInv'
<1>1. TypeInv /\ TypeInv'
  BY NextTypes DEF IInv
<1>2. CASE UNCHANGED vars
  <2>1. UNCHANGED Still /\ UNCHANGED InOrder /\ UNCHANGED raced
    BY <1>2
       DEF vars, Still, Alone, Clash, Enders, IdleInv, WakeInv, PassInv, ArmedInv, EnableInv, OnInv,
           SeenInv, SessionInv, Some, At, Late, Stopped, Streaming, SomeEnded, Ended,
           InOrder, ReadInv, OpensInv, Opens, Before
  <2> QED
    BY <1>1, <2>1 DEF IInv, Sound
<1>3. ASSUME Next, ~raced'
      PROVE  Still' /\ InOrder'
  <2>1. Still /\ InOrder /\ Alone'
    BY <1>1, <1>3, NextAlone DEF IInv, Sound
  <2>2. CASE Outside
    BY <1>1, <1>3, <2>1, <2>2, OutsideStill, OutsideOrder
  <2>3. ASSUME NEW t \in Tasks, Worker(t)
        PROVE  Still' /\ InOrder'
    <3>1. ReadInv /\ OpensInv
      BY <2>1 DEF InOrder
    <3> QED
      BY <1>1, <2>1, <2>3, <3>1, EnableStill, EnableOrder, PassStill, PassOrder, SessionStill, SessionOrder
         DEF Worker
  <2> QED
    BY <1>3, <2>2, <2>3 DEF Next
<1> QED
  BY <1>1, <1>2, <1>3 DEF IInv, Sound

LEMMA InvHolds == Spec => []IInv
<1>1. IInv /\ [Next]_vars => IInv'
  BY NextInv
<1> QED
  BY <1>1, InitInv, PTL DEF Spec

(* At rest no task is anywhere.                                              *)
LEMMA AtRest ==
  ASSUME IInv, Quiet, ~raced
  PROVE  /\ Still /\ \A t \in Tasks : task[t].at = "none" /\ task[t].report = "none"
         /\ ~Some(Passing \cup Enabling \cup {"waking"}) /\ ~Some(Passing \cup {"waking"})
         /\ ~Some(Passing \cup {"waking", "attaching", "ending"})
         /\ ~Some({"sweeping"}) /\ ~Some({"noticing"}) /\ ~Some({"enabled"}) /\ ~SomeEnded
<1>1. \A t \in Tasks : task[t].at = "none" /\ task[t].report = "none"
  BY FreeAt DEF Quiet
<1> QED
  BY <1>1 DEF IInv, Sound, Some, At, SomeEnded, Ended, Passing, Enabling
-----------------------------------------------------------------------------
(* Every variable keeps its type, and only tasks that rest at an access to   *)
(* the storage are owed an answer, whatever races.                           *)
THEOREM LifecycleTypeCorrect == Spec => []TypeOK
<1>1. TypeInv => TypeOK
  BY DEF TypeInv
<1> QED
  BY <1>1, TypesHold, PTL

(* When everything is at rest and the popup shows that Remote Mode is off,   *)
(* there is no document, no keep-awake, no debugger, no client and no        *)
(* session: whatever passes, restarts, lost captures, closed tabs, reports   *)
(* and requests there have been, in any number and order, as long as no task *)
(* that stops things has met one that starts things (buildTeardown,          *)
(* reconcileAfterRestart).                                                   *)
THEOREM OffAlwaysMeansOff == Spec => []OffMeansOff
<1>1. IInv => OffMeansOff
  BY AtRest DEF OffMeansOff, Still, IdleInv, Stopped, AllOff, NoDoc
<1> QED
  BY <1>1, InvHolds, PTL

(* When everything is at rest and the popup shows that Remote Mode is on,    *)
(* the tab is captured with a stream that runs, the system is kept awake and *)
(* the client is at the server or trying, unless tasks have raced            *)
(* (enableRemote, startSignaling).                                           *)
THEOREM OnAlwaysMeansOn == Spec => []OnMeansOn
<1>1. IInv => OnMeansOn
  BY AtRest DEF OnMeansOn, Still, OnInv, Streaming
<1> QED
  BY <1>1, InvHolds, PTL

(* When everything is at rest a phase with a peer means a session, and       *)
(* remote-active that the debugger is on the tab, which it is for no other   *)
(* reason, in whatever order the reports have loaded and saved the phase,    *)
(* unless tasks have raced (updateSignalingPhase, handleSenderEvent,         *)
(* onPeerVerified).                                                          *)
THEOREM ControlAlwaysMeansSession == Spec => []ControlMeansSession
<1>1. IInv => ControlMeansSession
  BY AtRest DEF ControlMeansSession, Still, SessionInv, PeerPhases
<1> QED
  BY <1>1, InvHolds, PTL

(* While Remote Mode is shown as on and everything is at rest, a Stop finds  *)
(* no orchestrator that is running or has run, unless tasks have raced       *)
(* (stopRemoteSession).                                                      *)
THEOREM StopAlwaysArmed == Spec => []StopIsArmed
<1>1. IInv => StopIsArmed
  <2>1. ASSUME IInv, Quiet, ~raced, state.phase # "idle"
        PROVE  teardown = "null"
    <3>1. /\ Still /\ ~Some({"enabled"}) /\ \A t \in Tasks : task[t].at = "none"
          /\ teardown \in Tasks \cup {"null", "finished"}
      BY <2>1, AtRest DEF IInv, TypeInv, TypeOK
    <3>2. teardown \notin Tasks
      BY <3>1 DEF Still, PassInv, At, Passing
    <3> QED
      BY <2>1, <3>1, <3>2 DEF Still, ArmedInv
  <2> QED
    BY <2>1 DEF StopIsArmed
<1> QED
  BY <1>1, InvHolds, PTL
-----------------------------------------------------------------------------
(* That Remote Mode is on only at the user's wish: the abstract RemoteMode.  *)

(* A task that still waits for its tab was asked for last.                   *)
Beginning == {"enabling", "looking"}
AskedInv == \A t \in Tasks : At(t, Beginning) => asked = "enable"
ConsentInv == IInv /\ (~raced => AskedInv)

(* A step that does not begin anything.                                      *)
BeginsNone == \A u \in Tasks : task'[u].at \in Beginning => task[u].at \in Beginning
LEMMA BeginNot == {"none", "reporting", "refused", "detaching", "waking", "uncapturing"} \cap Beginning = {}
BY DEF Beginning

LEMMA MovesBegin ==
  ASSUME TypeInv
  PROVE  /\ \A t \in Tasks : \A at, q : Moves(t, Resting(at), q) /\ (at \in Beginning => task[t].at \in Beginning) => BeginsNone
         /\ \A t \in Tasks : \A at, s, q : Moves(t, Asking(at, s), q) /\ at \notin Beginning => BeginsNone
         /\ \A t \in Tasks : \A q : Stops(t, q) => BeginsNone
         /\ \A t \in Tasks : \A at, r : MovesAndTells(t, Resting(at), r) /\ task[t].at # "none" /\ at \notin Beginning => BeginsNone
         /\ \A r : Tells(r) => BeginsNone
<1>1. ASSUME NEW t \in Tasks, NEW at, NEW q, Moves(t, Resting(at), q), at \in Beginning => task[t].at \in Beginning
      PROVE  BeginsNone
  BY <1>1, RestAt DEF BeginsNone
<1>2. ASSUME NEW t \in Tasks, NEW at, NEW s, NEW q, Moves(t, Asking(at, s), q), at \notin Beginning
      PROVE  BeginsNone
  BY <1>2, AskAt DEF BeginsNone
<1>3. ASSUME NEW t \in Tasks, NEW q, Stops(t, q)
      PROVE  BeginsNone
  BY <1>3, StopAt, BeginNot DEF BeginsNone
<1>4. ASSUME NEW t \in Tasks, NEW at, NEW r, MovesAndTells(t, Resting(at), r), task[t].at # "none",
             at \notin Beginning
      PROVE  BeginsNone
  BY <1>4, MoveAndTellAt, BeginNot DEF BeginsNone
<1>5. ASSUME NEW r, Tells(r)
      PROVE  BeginsNone
  BY <1>5, TellAt, BeginNot DEF BeginsNone
<1> QED
  BY <1>1, <1>2, <1>3, <1>4, <1>5

LEMMA WorkerBegins ==
  ASSUME TypeInv, NEW t \in Tasks, Worker(t)
  PROVE  BeginsNone
<1>1. CASE EnableLoaded(t)
  <2>1. task[t].at \in Beginning /\ Moves(t, Resting("looking"), Tail(replies))
    BY <1>1, EnableEffects DEF EnableLoaded, Answered, Beginning
  <2> QED
    BY <2>1, MovesBegin
<1>2. CASE \/ TabRefused(t) \/ TabFound(t) \/ EnableSaved(t) \/ CheckDocument(t)
           \/ CreateDocument(t) \/ CaptureTimesOut(t) \/ CaptureActive(t) \/ Activated(t)
  <2>1. \E at, q : at \notin Beginning /\ (Moves(t, Resting(at), q) \/ Moves(t, Asking(at, Off), q))
    BY <1>2, EnableEffects DEF Beginning
  <2> QED
    BY <2>1, MovesBegin
<1>3. CASE InputStops(t) \/ CaptureStops(t) \/ StateStops(t) \/ PassFinished(t) \/ Reconciled(t)
  <2>1. \E at, q : at \notin Beginning /\ (Moves(t, Resting(at), q) \/ Moves(t, Asking(at, Off), q))
    BY <1>3, PassEffects DEF Beginning
  <2> QED
    BY <2>1, MovesBegin
<1>4. CASE RequestLoaded(t) \/ ReportLoaded(t) \/ ProofVerified(t) \/ onPeerVerified(t) \/ InputAttached(t)
  <2>1. \E at, s, q : at \notin Beginning /\ (Moves(t, Resting(at), q) \/ Moves(t, Asking(at, s), q))
    BY <1>4, SessionEffects DEF Beginning
  <2> QED
    BY <2>1, MovesBegin
<1>5. CASE CreateFails(t) \/ FailCapture(t) \/ Noticed(t) \/ AttachFails(t)
  BY <1>5, EnableEffects, PassEffects, SessionEffects, MovesBegin
<1>6. CASE StartSignaling(t) \/ SessionEnds(t)
  <2>1. task[t].at # "none" /\ \E r : MovesAndTells(t, Resting("none"), r)
    BY <1>6, EnableEffects, SessionEffects DEF StartSignaling, SessionEnds, At
  <2> QED
    BY <2>1, MovesBegin, BeginNot
<1>7. CASE PeerStops(t)
  <2>1. task[t].at # "none"
    BY <1>7 DEF PeerStops, At
  <2> QED
    BY <1>7, <2>1, PassEffects, MovesBegin, BeginNot
<1>8. CASE DocumentCloses(t) \/ LeftoversClose(t)
  <2>1. PICK x, q : MovesDropping(t, x, q) /\ x.at \notin Beginning
    BY <1>8, PassEffects DEF Asking, Resting, Beginning
  <2>2. \A u \in Tasks : task'[u].at \in {x.at, "refused", task[u].at}
    BY <2>1, Typing DEF MovesDropping, Resting
  <2>3. \A u \in Tasks : u # t => task'[u].at \in {"refused", task[u].at}
    BY <2>1, Typing DEF MovesDropping, Resting
  <2> QED
    BY <2>1, <2>2, <2>3, BeginNot DEF BeginsNone
<1> QED
  BY <1>1, <1>2, <1>3, <1>4, <1>5, <1>6, <1>7, <1>8 DEF Worker

LEMMA OutsideBegins ==
  ASSUME TypeInv, Outside, ~EnableClicked
  PROVE  BeginsNone
<1>1. CASE StopClicked \/ RevokeClicked
  BY <1>1, OutsideEffects, MovesBegin
<1>2. CASE ClientOnline \/ ClientLost \/ \E r \in SenderReports : SenderEvent(r)
  BY <1>2, OutsideEffects, MovesBegin
<1>3. CASE SessionRequested \/ ProofArrives \/ SessionFails \/ DebuggerDetached \/ TabCloses
  <2>1. \E t \in Tasks : \E at, s, q : at \notin Beginning /\ (Moves(t, Resting(at), q) \/ Moves(t, Asking(at, s), q))
    BY <1>3, OutsideEffects DEF Starts, StartsAsking, Beginning
  <2> QED
    BY <2>1, MovesBegin
<1>4. CASE TrackEnds
  <2>1. CASE LossMatters(state)
    <3>1. PICK t \in Tasks : Moves(t, Resting("noticing"), Append(replies, t))
      BY <1>4, <2>1, OutsideEffects DEF StartsAsking
    <3>2. "noticing" \notin Beginning
      BY DEF Beginning
    <3> QED
      BY <3>1, <3>2, MovesBegin
  <2>2. CASE ~LossMatters(state)
    BY <1>4, <2>2, OutsideEffects DEF BeginsNone
  <2> QED
    BY <2>1, <2>2
<1>5. CASE Restart
  BY <1>5, RestartEffect, BeginNot DEF Woken, BeginsNone, Resting, NoTask
<1>6. ASSUME NEW g \in Tasks \cup {Orphan}, CaptureGranted(g) \/ CaptureRefused(g)
      PROVE  BeginsNone
  <2>1. CASE g = Orphan
    BY <1>6, <2>1, CaptureEffects DEF BeginsNone
  <2>2. CASE g # Orphan
    <3>1. PICK at \in {"granted", "refused"} : Moves(g, Resting(at), replies)
      BY <1>6, <2>2, CaptureEffects
    <3>2. at \notin Beginning
      BY DEF Beginning
    <3> QED
      BY <2>2, <3>1, <3>2, MovesBegin
  <2> QED
    BY <2>1, <2>2
<1> QED
  BY <1>1, <1>2, <1>3, <1>4, <1>5, <1>6 DEF Outside

(* Only the popup asks. *)
LEMMA AskedKept ==
  ASSUME Next, ~EnableClicked, ~StopClicked
  PROVE  UNCHANGED asked
BY DEF Next, Outside, Worker, Quietly, RevokeClicked, ClientOnline, ClientLost, SessionRequested,
       SenderEvent, ProofArrives, SessionFails, DebuggerDetached, TrackEnds, TabCloses, Restart,
       CaptureGranted, CaptureRefused,
       EnableLoaded, TabRefused, TabFound, EnableSaved, CheckDocument, CreateDocument, CreateFails,
       CaptureTimesOut, FailCapture, CaptureActive, Activated, StartSignaling, InputStops, PeerStops,
       CaptureStops, DocumentCloses, StateStops, PassFinished, RequestLoaded, ReportLoaded,
       ProofVerified, onPeerVerified, InputAttached, AttachFails, SessionEnds, Noticed, Reconciled,
       LeftoversClose

LEMMA AskedHolds ==
  ASSUME IInv, IInv', Next, ~raced', AskedInv
  PROVE  AskedInv'
<1> SUFFICES ASSUME NEW t \in Tasks, At(t, Beginning)' PROVE asked' = "enable"
  BY DEF AskedInv
<1>1. TypeInv /\ Still'
  BY DEF IInv, Sound
<1>2. CASE EnableClicked
  BY <1>2 DEF EnableClicked
<1>3. CASE StopClicked
  <2>1. task'[t].at \in Enabling /\ state'.phase = "idle"
    BY <1>1 DEF Still, EnableInv, At, Beginning, Enabling
  <2> QED
    BY <1>3, <2>1 DEF StopClicked
<1>4. CASE ~EnableClicked /\ ~StopClicked
  <2>1. BeginsNone
    BY <1>1, <1>4, OutsideBegins, WorkerBegins DEF Next
  <2> QED
    BY <1>4, <2>1, AskedKept DEF BeginsNone, At, AskedInv
<1> QED
  BY <1>2, <1>3, <1>4

(* Who turns Remote Mode on, and who turns it off                            *)
LEMMA TurnedOn ==
  ASSUME TypeInv, Still, Next, ~raced', state.phase = "idle", state'.phase # "idle"
  PROVE  \E t \in Tasks : TabFound(t)
<1>1. \A t \in Tasks : task[t].at \notin Late
  BY DEF Still, IdleInv, Some, At
<1>2. ASSUME NEW t \in Tasks, \/ RequestLoaded(t) \/ ReportLoaded(t) \/ onPeerVerified(t) \/ CaptureActive(t)
      PROVE  FALSE
  BY <1>1, <1>2
     DEF RequestLoaded, ReportLoaded, onPeerVerified, CaptureActive, Answered, At, Late, Enabling, Verifying
<1>3. ASSUME NEW t \in Tasks, StateStops(t) \/ Reconciled(t)
      PROVE  FALSE
  BY <1>3 DEF StateStops, Reconciled, Off
<1>4. CASE UNCHANGED state
  BY <1>4
<1> QED
  BY <1>2, <1>3, <1>4
     DEF Next, Outside, Worker, EnableClicked, StopClicked, RevokeClicked, ClientOnline, ClientLost,
         SessionRequested, SenderEvent, ProofArrives, SessionFails, DebuggerDetached, TrackEnds,
         TabCloses, Restart, CaptureGranted, CaptureRefused,
         EnableLoaded, TabRefused, EnableSaved, CheckDocument, CreateDocument, CreateFails,
         CaptureTimesOut, FailCapture, Activated, StartSignaling, InputStops, PeerStops,
         CaptureStops, DocumentCloses, PassFinished, ProofVerified, InputAttached, AttachFails,
         SessionEnds, Noticed, LeftoversClose

LEMMA TurnedOff ==
  ASSUME TypeInv, Next, state.phase # "idle", state'.phase = "idle"
  PROVE  \E t \in Tasks : StateStops(t) \/ Reconciled(t)
<1>1. ASSUME NEW t \in Tasks, TabFound(t) \/ CaptureActive(t)
      PROVE  FALSE
  BY <1>1 DEF TabFound, CaptureActive
<1>2. ASSUME NEW t \in Tasks, RequestLoaded(t) \/ onPeerVerified(t), ~UNCHANGED state
      PROVE  FALSE
  BY <1>2, Typing DEF RequestLoaded, onPeerVerified, TaskType, SessionStates
<1>3. ASSUME NEW t \in Tasks, ReportLoaded(t)
      PROVE  FALSE
  <2>1. task[t].seen \in SessionStates /\ task[t].report \in DOMAIN Reports
    BY <1>3, Typing, ReportsNone DEF ReportLoaded, Answered, TaskType
  <2> QED
    BY <1>3, <2>1, ReportsAre DEF ReportLoaded, SessionStates
<1>4. ~UNCHANGED state
  OBVIOUS
<1> QED
  BY <1>1, <1>2, <1>3, <1>4
     DEF Next, Outside, Worker, EnableClicked, StopClicked, RevokeClicked, ClientOnline, ClientLost,
         SessionRequested, SenderEvent, ProofArrives, SessionFails, DebuggerDetached, TrackEnds,
         TabCloses, Restart, CaptureGranted, CaptureRefused,
         EnableLoaded, TabRefused, EnableSaved, CheckDocument, CreateDocument, CreateFails,
         CaptureTimesOut, FailCapture, Activated, StartSignaling, InputStops, PeerStops,
         CaptureStops, DocumentCloses, PassFinished, ProofVerified, InputAttached, AttachFails,
         SessionEnds, Noticed, LeftoversClose

(* While Remote Mode is off no document comes to be.                         *)
LEMMA IdleDoc ==
  ASSUME TypeInv, Still, Next, state.phase = "idle", doc = NoDoc
  PROVE  doc' = NoDoc
<1>1. \A t \in Tasks : task[t].at \notin Late
  BY DEF Still, IdleInv, Some, At
<1>2. ~doc.open /\ ~doc.stream /\ doc.getting = {} /\ doc = [doc EXCEPT !.getting = {}]
  BY DEF NoDoc
<1>3. ASSUME NEW t \in Tasks, \/ CheckDocument(t) \/ CreateDocument(t) \/ CaptureTimesOut(t)
      PROVE  FALSE
  BY <1>1, <1>3 DEF CheckDocument, CreateDocument, CaptureTimesOut, Timed, At, Late, Enabling
<1>4. ASSUME NEW g \in Tasks \cup {Orphan}, CaptureGranted(g) \/ CaptureRefused(g)
      PROVE  FALSE
  BY <1>2, <1>4 DEF CaptureGranted, CaptureRefused
<1>5. CASE Restart
  BY <1>2, <1>5 DEF Restart
<1>6. ASSUME NEW t \in Tasks, PeerStops(t) \/ DocumentCloses(t) \/ LeftoversClose(t)
      PROVE  doc' = NoDoc
  BY <1>2, <1>6 DEF PeerStops, DocumentCloses, LeftoversClose
<1> QED
  BY <1>2, <1>3, <1>4, <1>5, <1>6
     DEF Next, Outside, Worker, EnableClicked, StopClicked, RevokeClicked, ClientOnline, ClientLost,
         SessionRequested, SenderEvent, ProofArrives, SessionFails, DebuggerDetached, TrackEnds,
         TabCloses, EnableLoaded, TabRefused, TabFound, EnableSaved, CreateFails, FailCapture,
         CaptureActive, Activated, StartSignaling, InputStops, CaptureStops, StateStops, PassFinished,
         RequestLoaded, ReportLoaded, ProofVerified, onPeerVerified, InputAttached, AttachFails,
         SessionEnds, Noticed, Reconciled

(* What the promise sees                                                     *)
Mode == IF state.phase # "idle" THEN "on" ELSE IF doc = NoDoc THEN "off" ELSE "left"
Rewoken == state.phase # "idle" /\ Some({"waking"})
Seen == <<Mode, InUse, asked, Rewoken, raced>>

LEMMA InUseOff ==
  ASSUME Still, state.phase = "idle"
  PROVE  InUse = IF doc = NoDoc THEN {} ELSE {"document"}
BY DEF InUse, Still, IdleInv, Stopped

LEMMA InUseSame ==
  ASSUME UNCHANGED <<doc, power, debugger, client, active>>
  PROVE  UNCHANGED InUse
BY DEF InUse

LEMMA WakingSame ==
  ASSUME TypeInv, NEW t \in Tasks, task[t] = NoTask, \E q : Stops(t, q)
  PROVE  UNCHANGED Some({"waking"})
BY StopAt, FreeAt DEF Some, At

(* A request of the user changes nothing but what was asked for.             *)
LEMMA AskStep ==
  ASSUME TypeInv, EnableClicked \/ StopClicked
  PROVE  Promise!Ask
<1>1. asked' \in {"enable", "stop"} /\ UNCHANGED <<state, doc, power, debugger, client, active>>
  BY DEF EnableClicked, StopClicked
<1>2. UNCHANGED Rewoken
  <2>1. CASE EnableClicked
    BY <2>1 DEF EnableClicked, Rewoken
  <2>2. CASE StopClicked
    BY <1>1, <2>2, OutsideEffects, WakingSame DEF Rewoken
  <2> QED
    BY <2>1, <2>2
<1> QED
  BY <1>1, <1>2, InUseSame DEF Promise!Ask, Rewoken

(* Remote Mode comes on with nothing in use and Enable asked for last.       *)
LEMMA BeginStep ==
  ASSUME TypeInv, Still, Still', AskedInv, NEW t \in Tasks, TabFound(t)
  PROVE  Promise!Begin
<1>1. /\ task[t].at = "looking" /\ UNCHANGED <<doc, power, debugger, client, active, asked>>
      /\ state'.phase = "enabled"
  BY DEF TabFound, At, Quietly
<1>2. task'[t].at = "enabled"
  BY EnableEffects, AskAt
<1>3. state.phase = "idle" /\ asked = "enable"
  BY <1>1 DEF Still, EnableInv, At, Enabling, AskedInv, Beginning
<1>4. ~Some({"sweeping"})
  BY <1>1 DEF Still, Alone, Clash, Some, At, Enabling, Waking
<1>5. doc = NoDoc
  BY <1>3, <1>4 DEF Still, IdleInv
<1>6. ~Some({"waking"})'
  BY <1>2 DEF Still, WakeInv, Some, At, Late, Enabling
<1>7. UNCHANGED InUse
  BY <1>1, InUseSame
<1> QED
  BY <1>1, <1>3, <1>5, <1>6, <1>7 DEF Promise!Begin

(* While it is on, the debugger is on the tab for a session only.            *)
LEMMA WorkStep ==
  ASSUME Still', state.phase # "idle", state'.phase # "idle", UNCHANGED asked
  PROVE  Promise!Work
<1>1. debugger' => active'
  BY DEF Still, SessionInv
<1>2. "debugger" \in InUse' => "session" \in InUse'
  BY <1>1 DEF InUse
<1> QED
  BY <1>2 DEF Promise!Work

(* It goes off with nothing in use, or as what a dead worker has left.       *)
LEMMA OffStep ==
  ASSUME TypeInv, Still, Still', NEW t \in Tasks, StateStops(t) \/ Reconciled(t),
         state.phase # "idle", state'.phase = "idle"
  PROVE  Promise!End \/ Promise!GiveUp
<1>1. UNCHANGED <<doc, asked>>
  BY DEF StateStops, Reconciled, Quietly
<1>2. InUse' = IF doc' = NoDoc THEN {} ELSE {"document"}
  BY InUseOff DEF InUse, Still, IdleInv, Stopped
<1>3. CASE doc' = NoDoc
  BY <1>1, <1>2, <1>3 DEF Promise!End
<1>4. CASE doc' # NoDoc
  <2>1. ~StateStops(t)
    BY <1>1, <1>4 DEF StateStops, Answered, Still, PassInv, At
  <2>2. Some({"waking"})
    BY <2>1 DEF Reconciled, Answered, Some, At
  <2> QED
    BY <1>1, <1>2, <1>4, <2>2 DEF Promise!GiveUp
<1> QED
  BY <1>3, <1>4

(* While it is off, at most what was left is closed.                         *)
LEMMA IdleStep ==
  ASSUME TypeInv, Still, Still', Next, UNCHANGED <<asked, raced>>,
         state.phase = "idle", state'.phase = "idle"
  PROVE  Promise!Close \/ UNCHANGED Seen
<1>1. InUse = IF doc = NoDoc THEN {} ELSE {"document"}
  BY InUseOff
<1>2. InUse' = IF doc' = NoDoc THEN {} ELSE {"document"}
  BY DEF InUse, Still, IdleInv, Stopped
<1>3. doc = NoDoc => doc' = NoDoc
  BY IdleDoc
<1>4. ~Rewoken /\ ~Rewoken'
  BY DEF Rewoken
<1>5. CASE doc # NoDoc /\ doc' = NoDoc
  BY <1>1, <1>2, <1>5 DEF Promise!Close
<1>6. CASE doc = NoDoc \/ doc' # NoDoc
  <2>1. (doc = NoDoc) <=> (doc' = NoDoc)
    BY <1>3, <1>6
  <2>2. Mode' = Mode /\ InUse' = InUse
    BY <1>1, <1>2, <2>1 DEF Mode
  <2>3. Rewoken' = Rewoken
    BY <1>4 DEF Rewoken
  <2> QED
    BY <2>2, <2>3 DEF Seen
<1> QED
  BY <1>5, <1>6

LEMMA PromiseStep ==
  ASSUME ConsentInv, ConsentInv', [Next]_vars
  PROVE  [Promise!PNext]_Seen
<1>1. CASE UNCHANGED vars
  BY <1>1 DEF vars, Seen, Mode, InUse, Rewoken, Some, At
<1>2. CASE raced'
  BY <1>2 DEF Promise!PNext
<1>3. CASE Next /\ ~raced'
  <2>1. TypeInv /\ ~raced /\ Still /\ Still' /\ AskedInv
    BY <1>3, NextAlone DEF ConsentInv, IInv, Sound
  <2>2. UNCHANGED raced
    BY <1>3, <2>1 DEF ConsentInv, IInv, TypeInv, TypeOK
  <2> SUFFICES \/ Promise!Ask \/ Promise!Begin \/ Promise!Work \/ Promise!End \/ Promise!GiveUp
               \/ Promise!Close \/ UNCHANGED Seen
    BY <1>3, <2>1 DEF Promise!PNext
  <2>3. CASE EnableClicked \/ StopClicked
    BY <2>1, <2>3, AskStep
  <2>4. CASE UNCHANGED asked
    <3>1. CASE state.phase = "idle" /\ state'.phase # "idle"
      BY <1>3, <2>1, <3>1, TurnedOn, BeginStep
    <3>2. CASE state.phase # "idle" /\ state'.phase # "idle"
      BY <2>1, <2>4, <3>2, WorkStep
    <3>3. CASE state.phase # "idle" /\ state'.phase = "idle"
      BY <1>3, <2>1, <3>3, TurnedOff, OffStep
    <3>4. CASE state.phase = "idle" /\ state'.phase = "idle"
      BY <1>3, <2>1, <2>2, <2>4, <3>4, IdleStep
    <3> QED
      BY <3>1, <3>2, <3>3, <3>4
  <2> QED
    BY <1>3, <2>3, <2>4, AskedKept
<1> QED
  BY <1>1, <1>2, <1>3

LEMMA ConsentInvHolds == Spec => []ConsentInv
<1>1. Init => ConsentInv
  BY InitInv DEF ConsentInv, AskedInv, Init, At, NoTask, Beginning
<1>2. ASSUME ConsentInv, [Next]_vars
      PROVE  ConsentInv'
  <2>1. IInv /\ IInv' /\ TypeInv
    BY <1>2, NextInv DEF ConsentInv, IInv
  <2>2. CASE UNCHANGED vars
    BY <1>2, <2>1, <2>2 DEF ConsentInv, vars, AskedInv, At
  <2>3. CASE Next /\ ~raced'
    BY <1>2, <2>1, <2>3, NextAlone, AskedHolds DEF ConsentInv
  <2> QED
    BY <1>2, <2>1, <2>2, <2>3 DEF ConsentInv
<1> QED
  BY <1>1, <1>2, PTL DEF Spec

(* Remote Mode keeps its promise to the user of the laptop (RemoteMode), as  *)
(* long as nothing has raced: it comes on only when that user has asked for  *)
(* it last, nothing is in use while it is off, at any moment and not only at *)
(* rest, the debugger is on the tab for a session only, and only a worker    *)
(* that died leaves a document, for the next one to close (enableRemote,     *)
(* buildTeardown, reconcileAfterRestart).                                    *)
THEOREM ConsentIsKept == Spec => LocalConsent
<1>1. Init => Promise!PInit
  BY DEF Init, Promise!PInit, InUse, NoDoc, Off
<1>2. ConsentInv /\ ConsentInv' /\ [Next]_vars => [Promise!PNext]_(Promise!pvars)
  BY PromiseStep DEF Promise!pvars, Seen, Mode, Rewoken
<1> QED
  BY <1>1, <1>2, ConsentInvHolds, PTL DEF Spec, LocalConsent, Promise!PSpec

(* What a teardown pass has stopped stays stopped until it ends, whatever    *)
(* arrives meanwhile: past its first step there is no debugger, then no      *)
(* client, then no keep-awake, then neither document nor session; and the    *)
(* orchestrator knows exactly the one pass there is (buildTeardown,          *)
(* TeardownOrchestrator.execute).                                            *)
THEOREM StoppedStaysStopped == Spec => [](~raced => PassInv)
<1>1. IInv => (~raced => PassInv)
  BY DEF IInv, Sound, Still
<1> QED
  BY <1>1, InvHolds, PTL
=============================================================================
