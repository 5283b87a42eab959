---------------------------- MODULE PairingProofs ----------------------------
(* Theorems about Pairing, for any number of phones, codes and scans.        *)
EXTENDS Pairing, FiniteSetTheorems, TLAPS

USE OriginAssumption, CreatesAssumption, JoinsAssumption
-----------------------------------------------------------------------------
Statuses == {"unknown", "active", "revoked"}
Checks == [session : Joins, of : Pairs, id : Pairs]
ServerFrames == [type : {"pair.create", "pair.accept", "pair.reject"}, id : Pairs]
DesktopFrames ==
  [type : {"pair.created"}, id : Pairs, session : {0}]
    \cup [type : {"pair.join"}, id : Pairs, session : Joins]
Mails == {"pair.accepted", "pair.rejected"}
Windows ==
  [state : {"none", "CREATED", "JOINED", "CONSUMED", "REJECTED", "CANCELLED", "EXPIRED"},
   session : Joins \cup {0}]
Sessions ==
  [st : {"none", "opening", "joined", "settled", "gone"}, phone : Phones \cup {"none"},
   code : Codes \cup {NoCodeYet}, mail : Seq(Mails), storing : BOOLEAN]
Histories ==
  [verified : [Pairs -> SUBSET Joins], contested : SUBSET Pairs, gone : SUBSET Pairs,
   late : [Pairs -> SUBSET Joins], rejoined : SUBSET Pairs, crossed : BOOLEAN,
   disturbed : SUBSET Pairs, overlapped : BOOLEAN, wish : [Phones -> Statuses]]

(* The full types: TypeOK and what it leaves to the frames and the history.  *)
DesktopTyped ==
  /\ pending \in Pairs \cup {0} /\ pairId \in [Pairs -> Pairs \cup {0}] /\ checks \subseteq Checks
  /\ paired \in [Phones -> Statuses] /\ saves \subseteq [Phones -> Statuses]
PopupTyped ==
  /\ made \in 0..MaxCreates /\ asked \in [Pairs -> {"no", "waiting", "answered"}]
  /\ waiter \in Pairs \cup {0} /\ timers \subseteq Pairs /\ codes \subseteq Codes
FramesTyped == toServer \in Seq(ServerFrames) /\ toDesktop \in Seq(DesktopFrames)
PhonesTyped ==
  /\ window \in [Pairs -> Windows]
  /\ session \in [Joins -> Sessions] /\ stored \subseteq Joins
  /\ \A j \in Joins : session[j] = NoSession \/ (session[j].st # "none" /\ session[j].code \in Codes)
Typed ==
  DesktopTyped /\ PopupTyped /\ FramesTyped /\ PhonesTyped /\ history \in Histories

(* What a secret's history says of it: nothing that was made is above the    *)
(* last number; what is being verified is of the pending secret, or was      *)
(* under way when its own secret went; what has been accepted was too, and a *)
(* secret that went does not come back; and unless it is contested, one      *)
(* proof of it at most is being verified, and none once one was accepted.    *)
SpentInv ==
  /\ \A c \in checks : c.of <= made /\ (c.of = pending \/ c.session \in history.late[c.of])
  /\ \A n \in history.gone : n <= made /\ n # pending
  /\ \A n \in Pairs :
       /\ history.verified[n] \subseteq history.late[n]
       /\ history.late[n] # {} => n \in history.gone
  /\ \A n \in Pairs \ history.contested :
       /\ \A c, d \in checks : c.of = n /\ d.of = n => c = d
       /\ history.verified[n] = {} \/ \E j \in Joins : history.verified[n] = {j}
       /\ history.verified[n] # {} => n \notin Checked

(* Whoever waits undisturbed is the one that will be told, or time out.      *)
WaitInv == \A n \in Waiting \ history.disturbed : waiter = n /\ n \in timers

(* The creates and confirmations under way are the last pairStart's.         *)
CodeInv ==
  /\ pending \in {0, made}
  /\ ~history.crossed =>
       /\ \A i \in 1..Len(toServer) : toServer[i].type = "pair.create" => toServer[i].id = made
       /\ \A i \in 1..Len(toDesktop) : toDesktop[i].type = "pair.created" => toDesktop[i].id = made
       /\ \A code \in codes : code.secret = code.id

(* The list about to be written is what the user wishes. *)
StoreInv ==
  ~history.overlapped =>
    (saves = {} /\ paired = history.wish) \/ (saves = {history.wish})

(* Session j is the only one that has ever joined window id, or two have.    *)
OnlyJoiner(j, id) ==
  /\ j \in Joins /\ session[j].st # "none" /\ session[j].code.id = id
  /\ id \in history.rejoined \/ window[id].session = j
(* The desktop has accepted the proof of j itself, or two have joined.       *)
Proven(j) ==
  /\ session[j].st # "none"
  /\ session[j].code.id \in history.rejoined \/ \E n \in Pairs : j \in history.verified[n]
Told(j) ==
  (\E i \in 1..Len(session[j].mail) : session[j].mail[i] = "pair.accepted")
    \/ session[j].storing \/ j \in stored
IsCreate(f) == f.type = "pair.create"

WindowsKnown ==
  \A n \in Pairs :
    /\ window[n] # NoWindow => n <= made
    /\ window[n].state = "CREATED" => window[n].session = 0
    /\ window[n].session # 0 =>
         session[window[n].session].st # "none" /\ session[window[n].session].code.id = n
CreatesNew ==
  /\ \A i \in 1..Len(toServer) : IsCreate(toServer[i]) =>
       window[toServer[i].id] = NoWindow /\ toServer[i].id <= made
  /\ \A i, k \in 1..Len(toServer) :
       i < k /\ IsCreate(toServer[i]) /\ IsCreate(toServer[k]) => toServer[i].id # toServer[k].id
AcceptProven(f) ==
  f.type = "pair.accept" =>
    f.id \in history.rejoined
      \/ \E n \in Pairs : \E j \in history.verified[n] : session[j].code.id = f.id
JoinersKnown ==
  /\ \A i \in 1..Len(toDesktop) : toDesktop[i].type = "pair.join" =>
       OnlyJoiner(toDesktop[i].session, toDesktop[i].id)
  /\ \A c \in checks : OnlyJoiner(c.session, c.id)
  /\ \A n \in Pairs : \A j \in history.verified[n] :
       OnlyJoiner(j, session[j].code.id) /\ session[j].code.secret = n
TellsProven ==
  /\ \A i \in 1..Len(toServer) : AcceptProven(toServer[i])
  /\ \A j \in Joins : Told(j) => Proven(j)

(* From the scan to the stored desktop the evidence is of one session: the   *)
(* join, the check, the acceptance and what the server makes of it.          *)
MutualInv == WindowsKnown /\ CreatesNew /\ JoinersKnown /\ TellsProven
-----------------------------------------------------------------------------
LEMMA AppendShape ==
  ASSUME NEW S, NEW q \in Seq(S), NEW e \in S
  PROVE  /\ Append(q, e) \in Seq(S) /\ Len(Append(q, e)) = Len(q) + 1 /\ Len(q) \in Nat
         /\ Append(q, e)[Len(q) + 1] = e
         /\ \A i \in 1..Len(q) : Append(q, e)[i] = q[i]
         /\ \A i \in 1..Len(Append(q, e)) : i \in 1..Len(q) \/ i = Len(q) + 1
OBVIOUS

LEMMA TailShape ==
  ASSUME NEW S, NEW q \in Seq(S), q # <<>>
  PROVE  /\ Head(q) = q[1] /\ Head(q) \in S /\ 1 \in 1..Len(q)
         /\ Tail(q) \in Seq(S) /\ Len(q) \in Nat /\ Len(Tail(q)) = Len(q) - 1
         /\ \A i \in 1..Len(Tail(q)) : Tail(q)[i] = q[i + 1] /\ i + 1 \in 1..Len(q)
OBVIOUS

(* The frame that Sent appends to what the server has yet to read.           *)
LEMMA SentType ==
  ASSUME toServer \in Seq(ServerFrames), NEW type \in {"pair.create", "pair.accept", "pair.reject"},
         NEW n \in Pairs
  PROVE  /\ Sent(type, n) \in Seq(ServerFrames)
         /\ \A i \in 1..Len(Sent(type, n)) :
              \/ i \in 1..Len(toServer) /\ Sent(type, n)[i] = toServer[i]
              \/ i = Len(toServer) + 1 /\ Sent(type, n)[i] = [type |-> type, id |-> n]
<1>1. [type |-> type, id |-> n] \in ServerFrames
  BY DEF ServerFrames
<1>2. QED BY <1>1, AppendShape DEF Sent

LEMMA CheckedArePairs ==
  ASSUME checks \subseteq Checks
  PROVE  Checked \subseteq Pairs /\ \A c \in checks : c.of \in Pairs /\ c.of \in Checked
                                                   /\ c.session \in Joins /\ c.id \in Pairs
BY DEF Checked, Checks

(* What PendingGone makes of the history. *)
LEMMA GoneShape ==
  ASSUME Typed
  PROVE  /\ PendingGone \in Histories /\ history \in Histories
         /\ PendingGone.verified = history.verified /\ PendingGone.contested = history.contested
         /\ PendingGone.rejoined = history.rejoined /\ PendingGone.crossed = history.crossed
         /\ PendingGone.disturbed = history.disturbed /\ PendingGone.wish = history.wish
         /\ PendingGone.overlapped = history.overlapped
         /\ PendingGone.gone = history.gone \cup ({pending} \ {0})
         /\ \A n \in Pairs : n # pending \/ n \in history.gone => PendingGone.late[n] = history.late[n]
         /\ \A n \in Pairs : n = pending /\ n \notin history.gone =>
              \A c \in checks : c.of = n => c.session \in PendingGone.late[n]
<1> DEFINE now == {c.session : c \in {d \in checks : d.of = pending}}
<1>1. history \in Histories /\ pending \in Pairs \cup {0} /\ now \subseteq Joins
  BY DEF Typed, DesktopTyped, Checks
<1>2. CASE pending \in history.gone \cup {0}
  <2>1. PendingGone = history
    BY <1>2 DEF PendingGone
  <2>2. QED BY <1>1, <1>2, <2>1 DEF Pairs
<1>3. CASE pending \notin history.gone \cup {0}
  <2>1. PICK l \in [Pairs -> SUBSET Joins] : l = [history.late EXCEPT ![pending] = now]
    BY <1>1, <1>3 DEF Histories
  <2>2. PICK g \in SUBSET Pairs : g = history.gone \cup {pending}
    BY <1>1, <1>3 DEF Histories
  <2>3. PendingGone = [history EXCEPT !.gone = g, !.late = l]
    BY <1>1, <1>3, <2>1, <2>2 DEF PendingGone, Histories
  <2>4. /\ l[pending] = now /\ \A n \in Pairs : n # pending => l[n] = history.late[n]
        /\ pending \in Pairs
    BY <1>1, <1>3, <2>1 DEF Histories
  <2>5. PendingGone.late = l /\ PendingGone.gone = g
    BY <1>1, <2>3 DEF Histories
  <2>6. PendingGone \in Histories
    BY <1>1, <2>1, <2>2, <2>3 DEF Histories
  <2>7. /\ PendingGone.verified = history.verified /\ PendingGone.contested = history.contested
        /\ PendingGone.rejoined = history.rejoined /\ PendingGone.crossed = history.crossed
        /\ PendingGone.disturbed = history.disturbed /\ PendingGone.wish = history.wish
        /\ PendingGone.overlapped = history.overlapped
    BY <1>1, <2>3 DEF Histories
  <2>8. QED BY <1>1, <1>3, <2>2, <2>4, <2>5, <2>6, <2>7
<1>4. QED BY <1>2, <1>3
-----------------------------------------------------------------------------
(* The requests of the popup, timers and the link. *)
LEMMA RequestTypes ==
  ASSUME Typed, \/ pairStart \/ pairCancel \/ Saved \/ LinkBack \/ UNCHANGED vars
                \/ \E n \in Pairs : Unconfirmed5s(n) \/ Lapses(n)
                \/ \E p \in Phones : revoke(p)
  PROVE  Typed'
<1> USE DEF Typed
<1>1. CASE pairStart
  <2>1. /\ made + 1 \in Pairs /\ made' \in 0..MaxCreates /\ pending' \in Pairs \cup {0}
        /\ waiter' \in Pairs \cup {0} /\ timers' \subseteq Pairs
        /\ asked' \in [Pairs -> {"no", "waiting", "answered"}]
    BY <1>1 DEF pairStart, PopupTyped, Pairs
  <2>2. toServer' \in Seq(ServerFrames)
    BY <1>1, <2>1, SentType DEF pairStart, FramesTyped
  <2>3. history' \in Histories
    <3>1. Waiting \subseteq Pairs /\ Unconfirmed \in BOOLEAN
      BY DEF Waiting, Unconfirmed
    <3>2. PICK w \in SUBSET Pairs, u \in BOOLEAN, h \in Histories :
            w = Waiting /\ u = Unconfirmed /\ h = PendingGone
      BY <3>1, GoneShape
    <3>3. history' = [h EXCEPT !.crossed = @ \/ u, !.disturbed = @ \cup w]
      BY <1>1, <3>2 DEF pairStart
    <3>4. QED BY <3>3 DEF Histories
  <2>4. UNCHANGED <<pairId, checks, list, codes, toDesktop, window, phones>>
    BY <1>1 DEF pairStart
  <2>5. QED BY <2>1, <2>2, <2>3, <2>4 DEF DesktopTyped, PopupTyped, FramesTyped, PhonesTyped, list, phones
<1>2. CASE pairCancel
  <2>1. history' \in Histories
    <3>1. PICK w \in SUBSET Pairs, h \in Histories : w = Waiting /\ h = PendingGone
      BY GoneShape DEF Waiting
    <3>2. history' = [h EXCEPT !.disturbed = @ \cup w]
      BY <1>2, <3>1 DEF pairCancel
    <3>3. QED BY <3>2 DEF Histories
  <2>2. /\ pending' = 0 /\ waiter' = 0
        /\ UNCHANGED <<pairId, checks, list, made, asked, timers, codes, frames, window, phones>>
    BY <1>2 DEF pairCancel
  <2>3. QED BY <2>1, <2>2
            DEF DesktopTyped, PopupTyped, FramesTyped, PhonesTyped, list, frames, phones
<1>3. CASE \E n \in Pairs : Unconfirmed5s(n)
  <2>1. PICK n \in Pairs : Unconfirmed5s(n)
    BY <1>3
  <2>2. history' \in Histories
    <3>1. PICK d \in SUBSET Pairs : waiter # 0 => d = {waiter} \ {n}
      BY DEF PopupTyped
    <3>2. history' = history \/ history' = [history EXCEPT !.disturbed = @ \cup d]
      BY <2>1, <3>1 DEF Unconfirmed5s
    <3>3. QED BY <3>2 DEF Histories
  <2>3. /\ waiter' \in {0, waiter} /\ timers' = timers \ {n}
        /\ asked' = asked \/ asked' = [asked EXCEPT ![n] = "answered"]
        /\ UNCHANGED <<desktop, list, made, codes, frames, window, phones>>
    BY <2>1 DEF Unconfirmed5s
  <2>4. QED BY <2>2, <2>3
            DEF DesktopTyped, PopupTyped, FramesTyped, PhonesTyped, desktop, list, frames, phones
<1>4. CASE \E p \in Phones : revoke(p)
  <2>1. PICK p \in Phones : revoke(p)
    BY <1>4
  <2>2. [paired EXCEPT ![p] = "revoked"] \in [Phones -> Statuses]
    BY DEF DesktopTyped, Statuses
  <2>3. /\ saves' = saves \cup {[paired EXCEPT ![p] = "revoked"]}
        /\ history' = [history EXCEPT !.wish[p] = "revoked", !.overlapped = @ \/ saves # {}]
        /\ UNCHANGED <<desktop, paired, popup, frames, window, phones>>
    BY <2>1 DEF revoke, Saves
  <2>4. history' \in Histories
    <3>1. PICK w \in [Phones -> Statuses] : w = [history.wish EXCEPT ![p] = "revoked"]
      BY DEF Histories, Statuses
    <3>2. history' = [history EXCEPT !.wish = w, !.overlapped = @ \/ saves # {}]
      BY <2>3, <3>1 DEF Histories
    <3>3. QED BY <3>2 DEF Histories
  <2>5. QED BY <2>2, <2>3, <2>4
            DEF DesktopTyped, PopupTyped, FramesTyped, PhonesTyped, desktop, popup, frames, phones
<1>5. CASE Saved
  BY <1>5 DEF Saved, DesktopTyped, PopupTyped, FramesTyped, PhonesTyped, desktop, popup, frames, phones
<1>6. CASE LinkBack \/ UNCHANGED vars \/ \E n \in Pairs : Lapses(n)
  <2>1. UNCHANGED <<desktop, list, popup, frames, window, phones, history>>
    BY <1>6 DEF LinkBack, Lapses, vars
  <2>2. QED BY <2>1
            DEF DesktopTyped, PopupTyped, FramesTyped, PhonesTyped, desktop, list, popup, frames, phones
<1>7. QED BY <1>1, <1>2, <1>3, <1>4, <1>5, <1>6

(* The desktop: frames, and the verifications that end. *)
LEMMA DesktopTypes ==
  ASSUME Typed, \/ DesktopReceives \/ \E c \in checks : ProofRefused(c) \/ ProofAccepted(c)
  PROVE  Typed'
<1> USE DEF Typed
<1>1. CASE DesktopReceives
  <2>1. PICK f \in DesktopFrames :
          /\ f = Head(toDesktop) /\ toDesktop' \in Seq(DesktopFrames)
          /\ IF f.type = "pair.created" THEN onPairCreated(f.id) ELSE onPairJoin(f.session, f.id)
    BY <1>1, TailShape DEF DesktopReceives, FramesTyped
  <2>2. /\ UNCHANGED <<list, made, timers, window, phones>> /\ f.id \in Pairs
        /\ f.type # "pair.created" => f.session \in Joins
    BY <1>1 DEF DesktopReceives, DesktopFrames
  <2>3. CASE f.type = "pair.created"
    <3>1. onPairCreated(f.id)
      BY <2>1, <2>3
    <3>2. /\ pairId' \in [Pairs -> Pairs \cup {0}] /\ waiter' \in Pairs \cup {0}
          /\ asked' \in [Pairs -> {"no", "waiting", "answered"}]
      BY <2>2, <3>1 DEF onPairCreated, NoCode, DesktopTyped, PopupTyped
    <3>3. codes' \subseteq Codes
      <4>1. pending # 0 => Code(f.id) \in Codes
        BY <2>2 DEF Code, Codes, DesktopTyped
      <4>2. QED BY <3>1, <4>1 DEF onPairCreated, NoCode, PopupTyped
    <3>4. UNCHANGED <<pending, checks, toServer, history>>
      BY <3>1 DEF onPairCreated
    <3>5. QED BY <2>1, <2>2, <3>2, <3>3, <3>4
              DEF DesktopTyped, PopupTyped, FramesTyped, PhonesTyped, list, phones
  <2>4. CASE f.type # "pair.created"
    <3>1. onPairJoin(f.session, f.id) /\ f.session \in Joins
      BY <2>1, <2>2, <2>4
    <3>2. pending' \in Pairs \cup {0} /\ checks' \subseteq Checks
      <4>1. pending # 0 => [session |-> f.session, of |-> pending, id |-> f.id] \in Checks
        BY <2>2, <3>1 DEF Checks, DesktopTyped
      <4>2. QED BY <3>1, <4>1 DEF onPairJoin, DesktopTyped
    <3>3. toServer' \in Seq(ServerFrames)
      BY <2>2, <3>1, SentType DEF onPairJoin, FramesTyped
    <3>4. history' \in Histories
      <4>1. PICK e \in SUBSET Pairs : pending # 0 => e = {pending}
        BY DEF DesktopTyped
      <4>2. \/ history' = history \/ history' = PendingGone
            \/ history' = [history EXCEPT !.contested = @ \cup e]
            \/ history' = [history EXCEPT !.contested = @]
        BY <3>1, <4>1 DEF onPairJoin
      <4>3. QED BY <4>2, GoneShape DEF Histories
    <3>5. UNCHANGED <<pairId, asked, waiter, codes>>
      BY <3>1 DEF onPairJoin
    <3>6. QED BY <2>1, <2>2, <3>2, <3>3, <3>4, <3>5
              DEF DesktopTyped, PopupTyped, FramesTyped, PhonesTyped, list, phones
  <2>5. QED BY <2>3, <2>4
<1>2. ASSUME NEW c \in checks, ProofRefused(c) PROVE Typed'
  <2>1. checks' = checks \ {c} /\ toServer' = Sent("pair.reject", c.id) /\ c.id \in Pairs
    BY <1>2, CheckedArePairs DEF ProofRefused, DesktopTyped
  <2>2. toServer' \in Seq(ServerFrames)
    BY <2>1, SentType DEF FramesTyped
  <2>3. UNCHANGED <<pending, pairId, list, popup, toDesktop, window, phones, history>>
    BY <1>2 DEF ProofRefused
  <2>4. QED BY <2>1, <2>2, <2>3
            DEF DesktopTyped, PopupTyped, FramesTyped, PhonesTyped, list, popup, phones
<1>3. ASSUME NEW c \in checks, ProofAccepted(c) PROVE Typed'
  <2> DEFINE p == session[c.session].phone
             new == [paired EXCEPT ![p] = "active"]
  <2>1. /\ checks' = checks \ {c} /\ pending' = 0 /\ toServer' = Sent("pair.accept", c.id)
        /\ saves' = saves \cup {new}
        /\ c.id \in Pairs /\ c.of \in Pairs /\ c.session \in Joins
    BY <1>3, CheckedArePairs DEF ProofAccepted, consume, upsert, DesktopTyped
  <2>2. toServer' \in Seq(ServerFrames)
    BY <2>1, SentType DEF FramesTyped
  <2>3. new \in [Phones -> Statuses]
    BY DEF DesktopTyped, Statuses
  <2>4. history' \in Histories
    <3>1. PICK w \in [Phones -> Statuses] : w = [history.wish EXCEPT ![p] = "active"]
      BY DEF Histories, Statuses
    <3>2. PICK v \in [Pairs -> SUBSET Joins] :
            v = [history.verified EXCEPT ![c.of] = @ \cup {c.session}]
      BY <2>1 DEF Histories
    <3>3. PICK h \in Histories : h = PendingGone /\ h.verified = history.verified /\ h.wish = history.wish
      BY GoneShape
    <3>4. history' = [h EXCEPT !.verified = v, !.wish = w, !.overlapped = @ \/ saves # {}]
      BY <1>3, <3>1, <3>2, <3>3 DEF ProofAccepted, Histories, upsert
    <3>5. QED BY <3>4 DEF Histories
  <2>5. UNCHANGED <<pairId, paired, popup, toDesktop, window, phones>>
    BY <1>3 DEF ProofAccepted
  <2> HIDE DEF new
  <2>6. QED BY <2>1, <2>2, <2>3, <2>4, <2>5
            DEF DesktopTyped, PopupTyped, FramesTyped, PhonesTyped, popup, phones
<1>4. QED BY <1>1, <1>2, <1>3

(* One more mail for a session leaves it what it was. *)
LEMMA MailType ==
  ASSUME NEW r \in Sessions, NEW m \in Mails
  PROVE  /\ [r EXCEPT !.mail = Append(@, m)] \in Sessions
         /\ [r EXCEPT !.mail = Append(@, m)].st = r.st
         /\ [r EXCEPT !.mail = Append(@, m)].phone = r.phone
         /\ [r EXCEPT !.mail = Append(@, m)].code = r.code
         /\ [r EXCEPT !.mail = Append(@, m)].storing = r.storing
         /\ [r EXCEPT !.mail = Append(@, m)].mail = Append(r.mail, m)
<1>1. Append(r.mail, m) \in Seq(Mails)
  BY AppendShape DEF Sessions
<1>2. QED BY <1>1 DEF Sessions

LEMMA TellsType ==
  ASSUME session \in [Joins -> Sessions], NEW k \in Joins \cup {0}, NEW m \in Mails, Tells(k, m)
  PROVE  /\ session' \in [Joins -> Sessions]
         /\ \A j \in Joins :
              \/ session'[j] = session[j]
              \/ /\ j = k /\ session[j].st = "joined"
                 /\ session'[j] = [session[j] EXCEPT !.mail = Append(@, m)]
<1>1. CASE k # 0 /\ session[k].st = "joined"
  <2>1. PICK r \in Sessions : r = [session[k] EXCEPT !.mail = Append(@, m)]
    BY <1>1, MailType
  <2>2. session' = [session EXCEPT ![k] = r]
    BY <1>1, <2>1 DEF Tells
  <2>3. QED BY <1>1, <2>1, <2>2
<1>2. CASE ~(k # 0 /\ session[k].st = "joined")
  BY <1>2 DEF Tells
<1>3. QED BY <1>1, <1>2

(* What a step keeps of the sessions that exist. *)
SessionsKept ==
  \A j \in Joins : session[j].st # "none" =>
    session'[j].st # "none" /\ session'[j].code = session[j].code /\ session'[j].phone = session[j].phone

SameSession(j) ==
  /\ session'[j].st = session[j].st /\ session'[j].code = session[j].code
  /\ session'[j].phone = session[j].phone
  /\ session[j].st = "joined" \/ session'[j] = session[j]

LEMMA ServerTypes ==
  ASSUME Typed, ServerReceives \/ LinkLost
  PROVE  Typed' /\ SessionsKept
<1> USE DEF Typed
<1>1. CASE ServerReceives
  <2>1. PICK f \in ServerFrames :
          /\ f = Head(toServer) /\ toServer' \in Seq(ServerFrames)
          /\ IF f.type = "pair.create" THEN onPairCreate(f.id)
                                       ELSE decidePairing(f.id, f.type = "pair.accept")
    BY <1>1, TailShape DEF ServerReceives, FramesTyped
  <2>2. UNCHANGED <<desktop, list, popup, stored, history>> /\ f.id \in Pairs
    BY <1>1 DEF ServerReceives, ServerFrames
  <2>3. /\ window' \in [Pairs -> Windows] /\ session' \in [Joins -> Sessions]
        /\ \A j \in Joins : SameSession(j)
        /\ toDesktop' \in Seq(DesktopFrames)
    <3>1. CASE f.type = "pair.create"
      <4>1. onPairCreate(f.id)
        BY <2>1, <3>1
      <4>2. window' \in [Pairs -> Windows]
        <5>1. ASSUME NEW n \in Pairs
              PROVE  /\ window[n] \in Windows /\ [window[n] EXCEPT !.state = "CANCELLED"] \in Windows
                     /\ [state |-> "CREATED", session |-> 0] \in Windows
          BY DEF PhonesTyped, Windows
        <5>2. QED BY <4>1, <5>1 DEF onPairCreate
      <4>3. [type |-> "pair.created", id |-> f.id, session |-> 0] \in DesktopFrames
        BY <2>2 DEF DesktopFrames
      <4>4. toDesktop' \in Seq(DesktopFrames)
        BY <4>1, <4>3, AppendShape DEF onPairCreate, FramesTyped
      <4>5. QED BY <4>1, <4>2, <4>4 DEF onPairCreate, PhonesTyped, SameSession
    <3>2. CASE f.type # "pair.create"
      <4>1. decidePairing(f.id, f.type = "pair.accept")
        BY <2>1, <3>2
      <4>2. CASE window[f.id].state = "JOINED"
        <5>1. PICK m \in Mails : Tells(window[f.id].session, m)
          BY <4>1, <4>2 DEF decidePairing, Mails
        <5>2. window[f.id].session \in Joins \cup {0}
          BY <2>2 DEF PhonesTyped, Windows
        <5>3. /\ session' \in [Joins -> Sessions]
              /\ \A j \in Joins : SameSession(j)
          <6>1. session \in [Joins -> Sessions]
            BY DEF PhonesTyped
          <6>2. /\ session' \in [Joins -> Sessions]
                /\ \A j \in Joins :
                     \/ session'[j] = session[j]
                     \/ /\ session[j].st = "joined"
                        /\ session'[j] = [session[j] EXCEPT !.mail = Append(@, m)]
            BY <5>1, <5>2, <6>1, TellsType
          <6>3. \A j \in Joins : session[j] \in Sessions
            BY <6>1
          <6>4. ASSUME NEW j \in Joins PROVE SameSession(j)
            <7>1. CASE session'[j] = session[j]
              BY <7>1 DEF SameSession
            <7>2. CASE session'[j] = [session[j] EXCEPT !.mail = Append(@, m)] /\ session[j].st = "joined"
              <8>1. PICK r \in Sessions : r = session[j]
                BY <6>3
              <8>2. QED BY <7>2, <8>1, MailType DEF SameSession
            <7>3. QED BY <6>2, <7>1, <7>2
          <6>5. QED BY <6>2, <6>4
        <5>4. window' \in [Pairs -> Windows]
          BY <2>2, <4>1, <4>2 DEF decidePairing, PhonesTyped, Windows
        <5>5. QED BY <4>1, <5>3, <5>4 DEF decidePairing, FramesTyped
      <4>3. CASE window[f.id].state # "JOINED"
        BY <4>1, <4>3 DEF decidePairing, FramesTyped, PhonesTyped, SameSession
      <4>4. QED BY <4>2, <4>3
    <3>3. QED BY <3>1, <3>2 DEF SameSession
  <2>4. /\ SessionsKept
        /\ \A j \in Joins :
             session'[j] = NoSession \/ (session'[j].st # "none" /\ session'[j].code \in Codes)
    BY <2>3 DEF PhonesTyped, SameSession, SessionsKept, NoSession
  <2>5. QED BY <2>1, <2>2, <2>3, <2>4
            DEF DesktopTyped, PopupTyped, FramesTyped, PhonesTyped, desktop, list, popup
<1>2. CASE LinkLost
  <2>1. /\ toServer' = <<>> /\ toDesktop' = <<>>
        /\ UNCHANGED <<desktop, list, popup, stored, history>>
    BY <1>2 DEF LinkLost
  <2>2. window' \in [Pairs -> Windows]
    <3>1. ASSUME NEW n \in Pairs
          PROVE  window[n] \in Windows /\ [window[n] EXCEPT !.state = "CANCELLED"] \in Windows
      BY DEF PhonesTyped, Windows
    <3>2. QED BY <1>2, <3>1 DEF LinkLost
  <2>3. /\ session' \in [Joins -> Sessions]
        /\ \A j \in Joins : SameSession(j)
    <3>1. ASSUME NEW j \in Joins
          PROVE  LET r == [session[j] EXCEPT !.mail = Append(@, "pair.rejected")]
                 IN /\ session[j] \in Sessions /\ r \in Sessions
                    /\ r.st = session[j].st /\ r.code = session[j].code /\ r.phone = session[j].phone
      BY MailType DEF PhonesTyped, Mails
    <3>2. session' \in [Joins -> Sessions]
                /\ \A j \in Joins :
                     \/ session'[j] = session[j]
                     \/ /\ session[j].st = "joined"
                        /\ session'[j] = [session[j] EXCEPT !.mail = Append(@, "pair.rejected")]
      <4> DEFINE r(j) == [session[j] EXCEPT !.mail = Append(@, "pair.rejected")]
                 hit(j) == /\ session[j].st = "joined"
                           /\ \E n \in Pairs : window[n].state = "JOINED" /\ window[n].session = j
      <4>1. session' = [j \in Joins |-> IF hit(j) THEN r(j) ELSE session[j]]
        BY <1>2 DEF LinkLost
      <4>2. \A j \in Joins : session[j] \in Sessions /\ r(j) \in Sessions
        BY <3>1
      <4> HIDE DEF r, hit
      <4>3. /\ session' \in [Joins -> Sessions]
            /\ \A j \in Joins : session'[j] = session[j] \/ (hit(j) /\ session'[j] = r(j))
        BY <4>1, <4>2
      <4>4. QED BY <4>3 DEF r, hit
    <3>3. QED BY <3>1, <3>2 DEF SameSession
  <2>4. /\ SessionsKept
        /\ \A j \in Joins :
             session'[j] = NoSession \/ (session'[j].st # "none" /\ session'[j].code \in Codes)
    BY <2>3 DEF PhonesTyped, SameSession, SessionsKept, NoSession
  <2>5. QED BY <2>1, <2>2, <2>3, <2>4
            DEF DesktopTyped, PopupTyped, FramesTyped, PhonesTyped, desktop, list, popup
<1>3. QED BY <1>1, <1>2

LEMMA NoSessionType ==
  NoSession \in Sessions /\ NoSession.st = "none" /\ NoSession.mail = <<>> /\ ~NoSession.storing
<1>1. <<>> \in Seq(Mails)
  OBVIOUS
<1>2. QED BY <1>1 DEF NoSession, NoCodeYet, Sessions

LEMMA SessionUpdates ==
  ASSUME NEW r \in Sessions
  PROVE  /\ \A p \in Phones, code \in Codes :
              LET s == [NoSession EXCEPT !.st = "opening", !.phone = p, !.code = code]
              IN s \in Sessions /\ s.st # "none" /\ s.code = code
         /\ LET s == [r EXCEPT !.storing = FALSE, !.st = "settled"]
            IN s \in Sessions /\ s.st # "none" /\ s.code = r.code /\ s.phone = r.phone
         /\ LET s == [r EXCEPT !.st = "gone", !.mail = <<>>]
            IN s \in Sessions /\ s.st # "none" /\ s.code = r.code /\ s.phone = r.phone
<1>1. <<>> \in Seq(Mails)
  OBVIOUS
<1>2. ASSUME NEW p \in Phones, NEW code \in Codes
      PROVE  LET s == [NoSession EXCEPT !.st = "opening", !.phone = p, !.code = code]
             IN s \in Sessions /\ s.st # "none" /\ s.code = code
  BY NoSessionType DEF Sessions
<1>3. LET s == [r EXCEPT !.storing = FALSE, !.st = "settled"]
      IN s \in Sessions /\ s.st # "none" /\ s.code = r.code /\ s.phone = r.phone
  BY DEF Sessions
<1>4. LET s == [r EXCEPT !.st = "gone", !.mail = <<>>]
      IN s \in Sessions /\ s.st # "none" /\ s.code = r.code /\ s.phone = r.phone
  BY <1>1 DEF Sessions
<1>5. QED BY <1>2, <1>3, <1>4

(* A scan, a join, what a phone is told and what it stores. *)
LEMMA PhoneTypes ==
  ASSUME Typed, NEW j \in Joins, PhoneSteps(j)
  PROVE  Typed' /\ SessionsKept
<1> USE DEF Typed
<1>1. /\ UNCHANGED <<desktop, list, popup, toServer>>
      /\ toDesktop' = toDesktop \/ Join(j)
      /\ window' = window \/ Join(j) \/ SocketGone(j)
      /\ history' = history \/ Join(j)
  BY DEF PhoneSteps, Scan, Join, PhoneReceives, storeDesktop, SocketGone, frames
<1>2. /\ window \in [Pairs -> Windows] /\ session \in [Joins -> Sessions]
      /\ session[j] \in Sessions /\ stored \subseteq Joins
      /\ \A i \in Joins : session[i] = NoSession \/ (session[i].st # "none" /\ session[i].code \in Codes)
  BY DEF PhonesTyped
<1>3. ASSUME NEW r \in Sessions, session' = [session EXCEPT ![j] = r],
             \/ session[j].st # "none" /\ r.st # "none"
                  /\ r.code = session[j].code /\ r.phone = session[j].phone
             \/ session[j].st = "none" /\ r.st # "none" /\ r.code \in Codes
      PROVE  /\ session' \in [Joins -> Sessions] /\ SessionsKept
             /\ \A i \in Joins :
                  session'[i] = NoSession \/ (session'[i].st # "none" /\ session'[i].code \in Codes)
  <2>1. session' \in [Joins -> Sessions] /\ session'[j] = r
        /\ \A i \in Joins : i # j => session'[i] = session[i]
    BY <1>2, <1>3
  <2>2. session[j].st = "none" \/ session[j].code \in Codes
    BY <1>2, NoSessionType
  <2>3. SessionsKept
    BY <1>3, <2>1 DEF SessionsKept
  <2>4. r.st # "none" /\ r.code \in Codes
    BY <1>3, <2>2
  <2>5. QED BY <1>2, <2>1, <2>3, <2>4
<1>4. /\ session' \in [Joins -> Sessions] /\ SessionsKept
      /\ \A i \in Joins :
                  session'[i] = NoSession \/ (session'[i].st # "none" /\ session'[i].code \in Codes)
  <2>1. CASE \E p \in Phones : Scan(j, p)
    <3>1. PICK p \in Phones : Scan(j, p)
      BY <2>1
    <3>2. codes \cup Unseen \subseteq Codes
      <4>1. \A c \in codes : [secret |-> 0, id |-> c.id, origin |-> TRUE] \in Codes
        BY DEF PopupTyped, Codes
      <4>2. QED BY <4>1 DEF Unseen, PopupTyped
    <3>3. PICK code \in Codes :
            session' = [session EXCEPT ![j] = [NoSession EXCEPT !.st = "opening", !.phone = p, !.code = code]]
      BY <3>1, <3>2 DEF Scan
    <3> DEFINE r == [NoSession EXCEPT !.st = "opening", !.phone = p, !.code = code]
    <3>4. r \in Sessions /\ r.code = code /\ r.st # "none"
      BY NoSessionType, SessionUpdates
    <3>5. session' = [session EXCEPT ![j] = r] /\ session[j].st = "none"
      BY <3>1, <3>3 DEF Scan
    <3> HIDE DEF r
    <3>6. QED BY <1>3, <3>4, <3>5
  <2>2. CASE Join(j)
    <3>1. <<"pair.rejected">> \in Seq(Mails)
      BY DEF Mails
    <3>2. PICK r \in Sessions :
            /\ session' = [session EXCEPT ![j] = r] /\ r.st # "none"
            /\ r.code = session[j].code /\ r.phone = session[j].phone
      BY <1>2, <2>2, <3>1 DEF Join, Sessions
    <3>3. QED BY <1>3, <2>2, <3>2 DEF Join
  <2>3. CASE PhoneReceives(j)
    <3>1. Tail(session[j].mail) \in Seq(Mails) /\ session[j].storing \in BOOLEAN
      BY <1>2, <2>3, TailShape DEF PhoneReceives, Sessions
    <3>2. PICK r \in Sessions :
            /\ session' = [session EXCEPT ![j] = r] /\ r.st # "none"
            /\ r.code = session[j].code /\ r.phone = session[j].phone
      <4> DEFINE st2 == IF Head(session[j].mail) = "pair.rejected" THEN "settled" ELSE session[j].st
                 storing2 == session[j].storing \/ Head(session[j].mail) = "pair.accepted"
                 r == [session[j] EXCEPT !.mail = Tail(@), !.st = st2, !.storing = storing2]
      <4>1. session' = [session EXCEPT ![j] = r]
        BY <1>2, <2>3 DEF PhoneReceives
      <4>2. st2 \in {"joined", "settled"} /\ storing2 \in BOOLEAN
        BY <2>3, <3>1 DEF PhoneReceives
      <4> HIDE DEF st2, storing2
      <4>3. r \in Sessions /\ r.st # "none" /\ r.code = session[j].code /\ r.phone = session[j].phone
        BY <1>2, <3>1, <4>2 DEF Sessions
      <4>4. QED BY <4>1, <4>3
    <3>3. QED BY <1>3, <2>3, <3>2 DEF PhoneReceives
  <2>4. CASE storeDesktop(j)
    <3>1. PICK r \in Sessions :
            /\ session' = [session EXCEPT ![j] = r] /\ r.st # "none"
            /\ r.code = session[j].code /\ r.phone = session[j].phone
      <4> DEFINE r == [session[j] EXCEPT !.storing = FALSE, !.st = "settled"]
      <4>1. session' = [session EXCEPT ![j] = r]
        BY <1>2, <2>4 DEF storeDesktop
      <4>2. r \in Sessions /\ r.st # "none" /\ r.code = session[j].code /\ r.phone = session[j].phone
        BY <1>2, SessionUpdates
      <4>3. QED BY <4>1, <4>2
    <3>2. session[j].st # "none"
      BY <1>2, <2>4 DEF storeDesktop, NoSession
    <3>3. QED BY <1>3, <3>1, <3>2
  <2>5. CASE SocketGone(j)
    <3>1. PICK r \in Sessions :
            /\ session' = [session EXCEPT ![j] = r] /\ r.st # "none"
            /\ r.code = session[j].code /\ r.phone = session[j].phone
      <4> DEFINE r == [session[j] EXCEPT !.st = "gone", !.mail = <<>>]
      <4>1. session' = [session EXCEPT ![j] = r]
        BY <1>2, <2>5 DEF SocketGone
      <4>2. r \in Sessions /\ r.st # "none" /\ r.code = session[j].code /\ r.phone = session[j].phone
        BY <1>2, SessionUpdates
      <4>3. QED BY <4>1, <4>2
    <3>2. QED BY <1>3, <2>5, <3>1 DEF SocketGone
  <2>6. QED BY <2>1, <2>2, <2>3, <2>4, <2>5 DEF PhoneSteps
<1>5. toDesktop' \in Seq(DesktopFrames)
  <2>1. CASE Join(j)
    <3>1. session[j].code \in Codes
      BY <1>2, <2>1 DEF Join, NoSession
    <3>2. [type |-> "pair.join", id |-> session[j].code.id, session |-> j] \in DesktopFrames
      BY <3>1 DEF DesktopFrames, Codes
    <3>3. PICK g \in DesktopFrames :
            g = [type |-> "pair.join", id |-> session[j].code.id, session |-> j]
      BY <3>2
    <3>4. toDesktop' = Append(toDesktop, g) \/ toDesktop' = toDesktop
      BY <2>1, <3>3 DEF Join
    <3>5. QED BY <3>4, AppendShape DEF FramesTyped
  <2>2. QED BY <1>1, <2>1 DEF FramesTyped
<1>6. window' \in [Pairs -> Windows]
  <2>1. CASE Join(j)
    BY <1>2, <2>1 DEF Join, Windows
  <2>2. CASE SocketGone(j)
    <3>1. ASSUME NEW n \in Pairs
          PROVE  window[n] \in Windows /\ [window[n] EXCEPT !.state = "CANCELLED"] \in Windows
      BY <1>2 DEF Windows
    <3>2. QED BY <2>2, <3>1 DEF SocketGone
  <2>3. QED BY <1>1, <1>2, <2>1, <2>2
<1>7. history' \in Histories
  <2>1. CASE Join(j)
    <3>1. session[j].code.id \in Pairs
      BY <1>2, <2>1 DEF Join, NoSession, Codes
    <3>2. PICK d \in SUBSET Pairs : d = {session[j].code.id}
      BY <3>1
    <3>3. \/ history' = history \/ history' = [history EXCEPT !.rejoined = @ \cup d]
          \/ history' = [history EXCEPT !.rejoined = @]
      BY <2>1, <3>2 DEF Join
    <3>4. QED BY <3>3 DEF Histories
  <2>2. QED BY <1>1, <2>1
<1>8. stored' \subseteq Joins
  BY <1>2 DEF PhoneSteps, Scan, Join, PhoneReceives, storeDesktop, SocketGone
<1>9. QED BY <1>1, <1>4, <1>5, <1>6, <1>7, <1>8
          DEF DesktopTyped, PopupTyped, FramesTyped, PhonesTyped, desktop, list, popup

LEMMA InitTypes == Init => Typed
<1> SUFFICES ASSUME Init PROVE Typed
  OBVIOUS
<1>1. NoSession \in Sessions /\ NoWindow \in Windows
  BY DEF NoSession, NoCodeYet, Sessions, NoWindow, Windows
<1>2. History \in Histories
  BY DEF History, Histories, Statuses
<1>3. 0 \in 0..MaxCreates
  OBVIOUS
<1>4. QED BY <1>1, <1>2, <1>3
          DEF Init, Typed, DesktopTyped, PopupTyped, FramesTyped, PhonesTyped, Statuses

LEMMA AlwaysTyped == Spec => []Typed
<1>1. Typed /\ [Next]_vars => Typed'
  BY RequestTypes, DesktopTypes, ServerTypes, PhoneTypes DEF Next
<1>2. QED BY <1>1, InitTypes, PTL DEF Spec

(* Every variable keeps its type, for any number of phones, pairStarts and   *)
(* scans: numbers of pairings stay those of pairStarts, and what a frame, a  *)
(* code or a join refers to exists (PairingManager, handlePairCreate).       *)
THEOREM PairingTypeCorrect == Spec => []TypeOK
<1>1. Typed => TypeOK
  <2> SUFFICES ASSUME Typed PROVE TypeOK
    OBVIOUS
  <2>1. \A c \in checks : c.session \in Joins /\ c.of \in Pairs /\ c.id \in Pairs
    BY CheckedArePairs DEF Typed, DesktopTyped
  <2>2. /\ \A n \in Pairs : window[n].session \in Joins \cup {0}
        /\ \A j \in Joins : session[j].st \in {"none", "opening", "joined", "settled", "gone"}
    BY DEF Typed, PhonesTyped, Windows, Sessions
  <2>3. QED BY <2>1, <2>2 DEF Typed, DesktopTyped, PopupTyped, TypeOK, Statuses
<1>2. QED BY <1>1, AlwaysTyped, PTL
-----------------------------------------------------------------------------
(* The stored list.  Updates of it are requests of the user or verifications *)
(* that end; nothing else touches it.                                        *)
ListStep == (\E p \in Phones : revoke(p)) \/ Saved \/ \E c \in checks : ProofAccepted(c)

LEMMA ListUntouched ==
  ASSUME Typed, [Next]_vars, ~ListStep
  PROVE  /\ UNCHANGED list
         /\ history'.overlapped = history.overlapped /\ history'.wish = history.wish
<1>1. UNCHANGED list
  <2>1. CASE \E j \in Joins : PhoneSteps(j)
    BY <2>1 DEF PhoneSteps, Scan, Join, PhoneReceives, storeDesktop, SocketGone
  <2>2. CASE ~\E j \in Joins : PhoneSteps(j)
    BY <2>2 DEF Next, ListStep, vars, pairStart, pairCancel, Unconfirmed5s, Lapses, DesktopReceives,
                ServerReceives, LinkLost, LinkBack, ProofRefused
  <2>3. QED BY <2>1, <2>2
<1>2. history \in Histories
  BY DEF Typed
<1>3. CASE history' = history
  BY <1>1, <1>3
<1>4. CASE pairStart
  BY <1>1, <1>2, <1>4, GoneShape DEF pairStart, Histories
<1>5. CASE pairCancel
  BY <1>1, <1>2, <1>5, GoneShape DEF pairCancel, Histories
<1>6. ASSUME NEW n \in Pairs, Unconfirmed5s(n)
      PROVE  history'.overlapped = history.overlapped /\ history'.wish = history.wish
  BY <1>2, <1>6 DEF Unconfirmed5s, Histories
<1>7. CASE DesktopReceives
  BY <1>1, <1>2, <1>7, GoneShape DEF DesktopReceives, onPairCreated, onPairJoin, Histories
<1>8. ASSUME NEW j \in Joins, Join(j)
      PROVE  history'.overlapped = history.overlapped /\ history'.wish = history.wish
  BY <1>2, <1>8 DEF Join, Histories
<1>9. \/ history' = history \/ pairStart \/ pairCancel \/ (\E n \in Pairs : Unconfirmed5s(n))
      \/ DesktopReceives \/ \E j \in Joins : Join(j)
  <2>1. ASSUME NEW j \in Joins, PhoneSteps(j)
        PROVE  history' = history \/ Join(j)
    BY <2>1 DEF PhoneSteps, Scan, PhoneReceives, storeDesktop, SocketGone
  <2>2. CASE ~\E j \in Joins : PhoneSteps(j)
    BY <2>2 DEF Next, ListStep, vars, Lapses, ServerReceives, LinkLost, LinkBack, ProofRefused
  <2>3. QED BY <2>1, <2>2
<1>10. QED BY <1>1, <1>3, <1>4, <1>5, <1>6, <1>7, <1>8, <1>9

LEMMA StoreStep ==
  ASSUME Typed, StoreInv, [Next]_vars
  PROVE  StoreInv'
<1>1. history \in Histories
  BY DEF Typed
<1>2. ASSUME NEW p, NEW status, saves' = saves \cup {[paired EXCEPT ![p] = status]},
             history'.overlapped = (history.overlapped \/ saves # {}),
             history'.wish = [history.wish EXCEPT ![p] = status]
      PROVE  StoreInv'
  <2>1. ASSUME ~history'.overlapped PROVE saves' = {history'.wish}
    <3>1. saves = {} /\ paired = history.wish
      BY <1>2, <2>1 DEF StoreInv
    <3>2. QED BY <1>2, <3>1
  <2>2. QED BY <2>1 DEF StoreInv
<1>3. CASE \E p \in Phones : revoke(p)
  <2>1. PICK p \in Phones : revoke(p)
    BY <1>3
  <2>2. /\ history'.overlapped = (history.overlapped \/ saves # {})
        /\ history'.wish = [history.wish EXCEPT ![p] = "revoked"]
    BY <1>1, <2>1 DEF revoke, Saves, Histories
  <2>3. QED BY <1>2, <2>1, <2>2 DEF revoke, Saves
<1>4. CASE Saved
  <2>1. PICK l \in saves : paired' = l /\ saves' = saves \ {l} /\ history' = history
    BY <1>4 DEF Saved
  <2>2. QED BY <2>1 DEF StoreInv
<1>5. CASE \E c \in checks : ProofAccepted(c)
  <2>1. PICK c \in checks : ProofAccepted(c)
    BY <1>5
  <2>2. PICK p : p = session[c.session].phone
    OBVIOUS
  <2>3. /\ saves' = saves \cup {[paired EXCEPT ![p] = "active"]}
        /\ history'.overlapped = (history.overlapped \/ saves # {})
        /\ history'.wish = [history.wish EXCEPT ![p] = "active"]
    BY <1>1, <2>1, <2>2, GoneShape DEF ProofAccepted, upsert, Histories
  <2>4. QED BY <1>2, <2>3
<1>6. CASE ~ListStep
  BY <1>6, ListUntouched DEF StoreInv, list
<1>7. QED BY <1>3, <1>4, <1>5, <1>6 DEF ListStep

(* The list says of each phone what the user last wanted, whatever pairings  *)
(* and revocations come in whichever order, unless two updates have          *)
(* overlapped (PairedDeviceStore.upsert, revoke).                            *)
THEOREM StoreAlwaysFollowsWishes == Spec => []StoreFollowsWishes
<1>1. Init => StoreInv
  BY DEF Init, StoreInv, History
<1>2. Typed /\ StoreInv /\ [Next]_vars => StoreInv'
  BY StoreStep
<1>3. StoreInv => StoreFollowsWishes
  BY DEF StoreInv, StoreFollowsWishes
<1>4. QED BY <1>1, <1>2, <1>3, AlwaysTyped, PTL DEF Spec
-----------------------------------------------------------------------------
(* The popup that waits. *)
LEMMA WaitStep ==
  ASSUME Typed, WaitInv, [Next]_vars
  PROVE  WaitInv'
<1>1. /\ history \in Histories /\ asked \in [Pairs -> {"no", "waiting", "answered"}]
      /\ waiter \in Pairs \cup {0} /\ timers \subseteq Pairs
  BY DEF Typed, PopupTyped
<1>2. CASE pairStart
  <2>1. /\ made + 1 \in Pairs /\ waiter' = made + 1 /\ timers' = timers \cup {made + 1}
        /\ asked' = [asked EXCEPT ![made + 1] = "waiting"]
    BY <1>2 DEF pairStart, Typed, PopupTyped, Pairs
  <2>2. history'.disturbed = history.disturbed \cup Waiting
    BY <1>1, <1>2, GoneShape DEF pairStart, Histories
  <2>3. \A n \in Pairs : asked'[n] = "waiting" => n \in Waiting \/ n = made + 1
    BY <1>1, <2>1 DEF Waiting
  <2>4. QED BY <2>1, <2>2, <2>3 DEF WaitInv, Waiting
<1>3. CASE pairCancel
  <2>1. history'.disturbed = history.disturbed \cup Waiting /\ asked' = asked
    BY <1>1, <1>3, GoneShape DEF pairCancel, Histories
  <2>2. QED BY <2>1 DEF WaitInv, Waiting
<1>4. CASE \E n \in Pairs : Unconfirmed5s(n)
  <2>1. PICK n \in Pairs : Unconfirmed5s(n)
    BY <1>4
  <2>2. CASE waiter = 0
    <3>1. Waiting \ history.disturbed = {}
      BY <2>2 DEF WaitInv, Waiting, Pairs
    <3>2. asked' = asked /\ history' = history
      BY <2>1, <2>2 DEF Unconfirmed5s
    <3>3. QED BY <3>1, <3>2 DEF WaitInv, Waiting
  <2>3. CASE waiter # 0
    <3>1. /\ asked' = [asked EXCEPT ![n] = "answered"]
          /\ history'.disturbed = history.disturbed \cup ({waiter} \ {n})
      BY <1>1, <2>1, <2>3 DEF Unconfirmed5s, Histories
    <3>2. QED BY <1>1, <3>1 DEF WaitInv, Waiting
  <2>4. QED BY <2>2, <2>3
<1>5. CASE DesktopReceives
  <2>1. PICK id : onPairCreated(id) \/ \E j : onPairJoin(j, id)
    BY <1>5 DEF DesktopReceives
  <2>2. timers' = timers
    BY <1>5 DEF DesktopReceives
  <2>3. history'.disturbed = history.disturbed
    BY <1>1, <2>1, GoneShape DEF onPairCreated, onPairJoin, Histories
  <2>4. CASE UNCHANGED <<asked, waiter>>
    BY <2>2, <2>3, <2>4 DEF WaitInv, Waiting
  <2>5. CASE waiter # 0 /\ asked' = [asked EXCEPT ![waiter] = "answered"]
    BY <1>1, <2>3, <2>5 DEF WaitInv, Waiting
  <2>6. QED BY <2>1, <2>4, <2>5 DEF onPairCreated, onPairJoin, NoCode
<1>6. CASE UNCHANGED <<asked, waiter, timers>> /\ history'.disturbed = history.disturbed
  BY <1>6 DEF WaitInv, Waiting
<1>7. ASSUME NEW c \in checks, ProofRefused(c) \/ ProofAccepted(c)
      PROVE  UNCHANGED <<asked, waiter, timers>> /\ history'.disturbed = history.disturbed
  BY <1>1, <1>7, GoneShape DEF ProofRefused, ProofAccepted, Histories, popup
<1>8. ASSUME NEW j \in Joins, PhoneSteps(j)
      PROVE  UNCHANGED <<asked, waiter, timers>> /\ history'.disturbed = history.disturbed
  BY <1>1, <1>8 DEF PhoneSteps, Scan, Join, PhoneReceives, storeDesktop, SocketGone, Histories, popup
<1>9. ASSUME NEW p \in Phones, revoke(p)
      PROVE  UNCHANGED <<asked, waiter, timers>> /\ history'.disturbed = history.disturbed
  BY <1>1, <1>9 DEF revoke, Saves, Histories, popup
<1>10. Saved \/ ServerReceives \/ LinkLost \/ LinkBack \/ UNCHANGED vars \/ (\E n \in Pairs : Lapses(n))
       => UNCHANGED <<asked, waiter, timers>> /\ history'.disturbed = history.disturbed
  BY DEF Saved, ServerReceives, LinkLost, LinkBack, vars, Lapses, popup
<1>11. QED BY <1>2, <1>3, <1>4, <1>5, <1>6, <1>7, <1>8, <1>9, <1>10 DEF Next

(* A step in which no pairing is begun and no code shown. *)
LEMMA CodeKept ==
  ASSUME CodeInv, pending' \in {pending, 0}, made' = made, codes' = codes,
         history'.crossed = history.crossed,
         \A i \in 1..Len(toServer') :
           toServer'[i].type = "pair.create" => \E k \in 1..Len(toServer) : toServer'[i] = toServer[k],
         \A i \in 1..Len(toDesktop') :
           toDesktop'[i].type = "pair.created" =>
             \/ \E k \in 1..Len(toDesktop) : toDesktop'[i] = toDesktop[k]
             \/ \E k \in 1..Len(toServer) :
                  toServer[k].type = "pair.create" /\ toServer[k].id = toDesktop'[i].id
  PROVE  CodeInv'
<1>1. pending' \in {0, made'}
  BY DEF CodeInv
<1>2. ASSUME ~history'.crossed
      PROVE  /\ \A i \in 1..Len(toServer') : toServer'[i].type = "pair.create" => toServer'[i].id = made'
             /\ \A i \in 1..Len(toDesktop') : toDesktop'[i].type = "pair.created" => toDesktop'[i].id = made'
             /\ \A code \in codes' : code.secret = code.id
  BY <1>2 DEF CodeInv
<1>3. QED BY <1>1, <1>2 DEF CodeInv

(* A frame that is sent, when it begins no pairing. *)
LEMMA SentCreates ==
  ASSUME FramesTyped, NEW type \in {"pair.accept", "pair.reject"}, NEW n \in Pairs,
         toServer' = Sent(type, n)
  PROVE  \A i \in 1..Len(toServer') :
           toServer'[i].type = "pair.create" => \E k \in 1..Len(toServer) : toServer'[i] = toServer[k]
<1>1. type \in {"pair.create", "pair.accept", "pair.reject"} /\ type # "pair.create"
  OBVIOUS
<1>2. \A i \in 1..Len(toServer') :
        \/ i \in 1..Len(toServer) /\ toServer'[i] = toServer[i]
        \/ toServer'[i] = [type |-> type, id |-> n]
  BY <1>1, SentType DEF FramesTyped
<1>3. [type |-> type, id |-> n].type = type
  OBVIOUS
<1>4. QED BY <1>1, <1>2, <1>3

LEMMA CodeStep ==
  ASSUME Typed, CodeInv, [Next]_vars
  PROVE  CodeInv'
<1>1. /\ history \in Histories /\ FramesTyped /\ DesktopTyped /\ PopupTyped
      /\ toServer \in Seq(ServerFrames) /\ toDesktop \in Seq(DesktopFrames)
  BY DEF Typed, FramesTyped
<1>2. CASE pairStart
  <2>1. /\ made' = made + 1 /\ pending' = made + 1 /\ made + 1 \in Pairs
        /\ toServer' = Sent("pair.create", made + 1)
        /\ UNCHANGED <<codes, toDesktop>>
    BY <1>1, <1>2 DEF pairStart, PopupTyped, Pairs
  <2>2. history'.crossed = (history.crossed \/ Unconfirmed)
    BY <1>1, <1>2, GoneShape DEF pairStart, Histories
  <2>3. \A i \in 1..Len(toServer') :
          (i \in 1..Len(toServer) /\ toServer'[i] = toServer[i]) \/ toServer'[i].id = made + 1
    <3>1. PICK n \in Pairs : n = made + 1
      BY <2>1
    <3>2. \A i \in 1..Len(toServer') :
            \/ i \in 1..Len(toServer) /\ toServer'[i] = toServer[i]
            \/ toServer'[i] = [type |-> "pair.create", id |-> n]
      BY <1>1, <2>1, <3>1, SentType
    <3>3. QED BY <3>1, <3>2
  <2>4. ~Unconfirmed => /\ \A i \in 1..Len(toServer) : toServer[i].type # "pair.create"
                        /\ \A i \in 1..Len(toDesktop) : toDesktop[i].type # "pair.created"
    BY <1>1 DEF Unconfirmed
  <2>5. QED BY <2>1, <2>2, <2>3, <2>4 DEF CodeInv
<1>3. CASE pairCancel
  <2>1. /\ pending' = 0 /\ UNCHANGED <<made, codes, toServer, toDesktop>>
        /\ history'.crossed = history.crossed
    BY <1>1, <1>3, GoneShape DEF pairCancel, frames, Histories
  <2>2. QED BY <2>1 DEF CodeInv
<1>4. CASE DesktopReceives
  <2>1. PICK f \in DesktopFrames :
          /\ f = Head(toDesktop)
          /\ IF f.type = "pair.created" THEN onPairCreated(f.id) ELSE onPairJoin(f.session, f.id)
    BY <1>1, <1>4, TailShape DEF DesktopReceives
  <2>2. /\ f = toDesktop[1] /\ 1 \in 1..Len(toDesktop) /\ f.id \in Pairs
        /\ \A i \in 1..Len(toDesktop') : \E k \in 1..Len(toDesktop) : toDesktop'[i] = toDesktop[k]
    BY <1>1, <1>4, <2>1, TailShape DEF DesktopReceives, DesktopFrames
  <2>3. made' = made
    BY <1>4 DEF DesktopReceives
  <2>4. CASE f.type = "pair.created"
    <3>1. /\ UNCHANGED <<pending, toServer, history>>
          /\ \A code \in codes' : code \in codes \/ (pending # 0 /\ code = Code(f.id))
      BY <2>1, <2>4 DEF onPairCreated, NoCode
    <3>2. ~history.crossed => f.id = made
      BY <2>2, <2>4 DEF CodeInv
    <3>3. ~history.crossed => \A code \in codes' : code.secret = code.id
      BY <3>1, <3>2 DEF CodeInv, Code
    <3>4. QED BY <2>2, <2>3, <3>1, <3>3 DEF CodeInv
  <2>5. CASE f.type # "pair.created"
    <3>1. onPairJoin(f.session, f.id)
      BY <2>1, <2>5
    <3>2. history'.crossed = history.crossed /\ pending' \in {pending, 0} /\ codes' = codes
      BY <1>1, <3>1, GoneShape DEF onPairJoin, Histories
    <3>3. toServer' = toServer \/ toServer' = Sent("pair.reject", f.id)
      BY <3>1 DEF onPairJoin
    <3>4. \A i \in 1..Len(toServer') :
            toServer'[i].type = "pair.create" => \E k \in 1..Len(toServer) : toServer'[i] = toServer[k]
      BY <1>1, <2>2, <3>3, SentCreates
    <3>5. QED BY <2>2, <2>3, <3>2, <3>4, CodeKept
  <2>6. QED BY <2>4, <2>5
<1>5. ASSUME NEW c \in checks, ProofRefused(c) \/ ProofAccepted(c) PROVE CodeInv'
  <2>1. /\ pending' \in {pending, 0} /\ UNCHANGED <<made, codes, toDesktop>>
        /\ history'.crossed = history.crossed
    BY <1>1, <1>5, GoneShape DEF ProofRefused, ProofAccepted, consume, popup, Histories
  <2>2. c.id \in Pairs /\ (toServer' = Sent("pair.reject", c.id) \/ toServer' = Sent("pair.accept", c.id))
    BY <1>1, <1>5, CheckedArePairs DEF ProofRefused, ProofAccepted, DesktopTyped
  <2>3. \A i \in 1..Len(toServer') :
          toServer'[i].type = "pair.create" => \E k \in 1..Len(toServer) : toServer'[i] = toServer[k]
    BY <1>1, <2>2, SentCreates
  <2>4. QED BY <2>1, <2>3, CodeKept
<1>6. CASE ServerReceives
  <2>1. PICK f \in ServerFrames :
          /\ f = Head(toServer)
          /\ IF f.type = "pair.create" THEN onPairCreate(f.id)
                                       ELSE decidePairing(f.id, f.type = "pair.accept")
    BY <1>1, <1>6, TailShape DEF ServerReceives
  <2>2. /\ f = toServer[1] /\ 1 \in 1..Len(toServer) /\ f.id \in Pairs
        /\ \A i \in 1..Len(toServer') : \E k \in 1..Len(toServer) : toServer'[i] = toServer[k]
    BY <1>1, <1>6, <2>1, TailShape DEF ServerReceives, ServerFrames
  <2>3. UNCHANGED <<pending, made, codes, history>>
    BY <1>6 DEF ServerReceives, desktop, popup
  <2>4. \A i \in 1..Len(toDesktop') :
          \/ \E k \in 1..Len(toDesktop) : toDesktop'[i] = toDesktop[k]
          \/ f.type = "pair.create" /\ toDesktop'[i].id = f.id
    <3>1. CASE f.type = "pair.create"
      <4>1. PICK g \in DesktopFrames : g = [type |-> "pair.created", id |-> f.id, session |-> 0]
        BY <2>2 DEF DesktopFrames
      <4>2. toDesktop' = Append(toDesktop, g)
        BY <2>1, <3>1, <4>1 DEF onPairCreate
      <4>3. QED BY <1>1, <3>1, <4>1, <4>2, AppendShape
    <3>2. CASE f.type # "pair.create"
      BY <2>1, <3>2 DEF decidePairing
    <3>3. QED BY <3>1, <3>2
  <2>5. QED BY <2>2, <2>3, <2>4, CodeKept
<1>7. CASE LinkLost
  BY <1>7, CodeKept DEF LinkLost, desktop, popup
<1>8. ASSUME NEW j \in Joins, PhoneSteps(j) PROVE CodeInv'
  <2>1. UNCHANGED <<pending, made, codes, toServer>> /\ history'.crossed = history.crossed
    BY <1>1, <1>8 DEF PhoneSteps, Scan, Join, PhoneReceives, storeDesktop, SocketGone, Histories,
                      desktop, popup, frames
  <2>2. \A i \in 1..Len(toDesktop') :
          toDesktop'[i].type = "pair.created" => \E k \in 1..Len(toDesktop) : toDesktop'[i] = toDesktop[k]
    <3>1. CASE toDesktop' = toDesktop
      BY <3>1
    <3>2. CASE Join(j) /\ toDesktop' # toDesktop
      <4>1. PICK id : id = session[j].code.id
        OBVIOUS
      <4>2. toDesktop' = Append(toDesktop, [type |-> "pair.join", id |-> id, session |-> j])
        BY <3>2, <4>1 DEF Join
      <4>3. toDesktop' \in Seq(DesktopFrames)
        BY <1>8, PhoneTypes DEF Typed, FramesTyped
      <4>4. \A i \in 1..Len(toDesktop') :
              (i \in 1..Len(toDesktop) /\ toDesktop'[i] = toDesktop[i])
                \/ toDesktop'[i] = [type |-> "pair.join", id |-> id, session |-> j]
        BY <1>1, <4>2
      <4>5. QED BY <4>4
    <3>3. QED BY <1>8, <3>1, <3>2 DEF PhoneSteps, Scan, PhoneReceives, storeDesktop, SocketGone, frames
  <2>3. QED BY <2>1, <2>2, CodeKept
<1>9. CASE UNCHANGED <<pending, made, codes, toServer, toDesktop>> /\ history'.crossed = history.crossed
  BY <1>9 DEF CodeInv
<1>10. ASSUME NEW n \in Pairs, Unconfirmed5s(n) \/ Lapses(n)
       PROVE  UNCHANGED <<pending, made, codes, toServer, toDesktop>> /\ history'.crossed = history.crossed
  BY <1>1, <1>10 DEF Unconfirmed5s, Lapses, Histories, desktop, popup, frames
<1>11. ASSUME NEW p \in Phones, revoke(p)
       PROVE  UNCHANGED <<pending, made, codes, toServer, toDesktop>> /\ history'.crossed = history.crossed
  BY <1>1, <1>11 DEF revoke, Saves, Histories, desktop, popup, frames
<1>12. Saved \/ LinkBack \/ UNCHANGED vars
       => UNCHANGED <<pending, made, codes, toServer, toDesktop>> /\ history'.crossed = history.crossed
  BY DEF Saved, LinkBack, vars, desktop, popup, frames
<1>13. QED BY <1>2, <1>3, <1>4, <1>5, <1>6, <1>7, <1>8, <1>9, <1>10, <1>11, <1>12 DEF Next

LEMMA CodesAlwaysLast == Spec => []CodeInv
<1>1. Init => CodeInv
  BY DEF Init, CodeInv
<1>2. Typed /\ CodeInv /\ [Next]_vars => CodeInv'
  BY CodeStep
<1>3. QED BY <1>1, <1>2, AlwaysTyped, PTL DEF Spec

(* The popup that waits is the one that will be told, with its timer         *)
(* running, and its code is one that server and manager agree on, for any    *)
(* number of starts, unless they cross (pairPayloadWaiter, onPairCreated).   *)
THEOREM StartsAlwaysAnswered == Spec => []StartIsAnswered
<1>1. Init => WaitInv
  BY DEF Init, WaitInv, Waiting
<1>2. Typed /\ WaitInv /\ [Next]_vars => WaitInv'
  BY WaitStep
<1>3. WaitInv /\ CodeInv => StartIsAnswered
  BY DEF WaitInv, CodeInv, StartIsAnswered
<1>4. QED BY <1>1, <1>2, <1>3, AlwaysTyped, CodesAlwaysLast, PTL DEF Spec
-----------------------------------------------------------------------------
(* The secrets.  A pending pairing goes: for good, or for a new one. *)
LEMMA PendingGoes ==
  ASSUME Typed, CodeInv, SpentInv,
         \/ pending' = 0 /\ made' = made
         \/ pending' = made + 1 /\ made' = made + 1,
         checks' = checks,
         history'.verified = history.verified, history'.contested = history.contested,
         history'.gone = PendingGone.gone, history'.late = PendingGone.late
  PROVE  SpentInv'
<1>1. /\ made \in Nat /\ made' \in Nat /\ made <= made' /\ pending \in {0, made} /\ Checked' = Checked
      /\ \A n \in Pairs : n \in Nat /\ n # 0
      /\ pending \in Pairs \cup {0} /\ history.gone \subseteq Pairs
  BY DEF Typed, PopupTyped, DesktopTyped, CodeInv, Checked, Histories, Pairs
<1>2. /\ \A c \in checks : c.of \in Pairs
      /\ \A n \in Pairs : n <= made => n <= made' /\ n # made + 1
  BY <1>1, CheckedArePairs DEF Typed, DesktopTyped
<1>3. /\ history'.gone = history.gone \cup ({pending} \ {0})
      /\ \A n \in Pairs : n # pending => history'.late[n] = history.late[n]
  BY GoneShape
<1>4. pending \notin history.gone
  BY <1>1 DEF SpentInv
<1>5. ASSUME pending \in Pairs
      PROVE  /\ history.late[pending] = {} /\ history.verified[pending] = {}
             /\ \A c \in checks : c.of = pending => c.session \in history'.late[pending]
  <2>1. history.late[pending] = {} /\ history.verified[pending] = {}
    BY <1>4, <1>5 DEF SpentInv
  <2>2. \A c \in checks : c.of = pending => c.session \in history'.late[pending]
    BY <1>4, <1>5, GoneShape
  <2>3. QED BY <2>1, <2>2
<1>6. ASSUME NEW c \in checks
      PROVE  c.of <= made' /\ (c.of = pending' \/ c.session \in history'.late[c.of])
  <2>1. c.of <= made /\ (c.of = pending \/ c.session \in history.late[c.of]) /\ c.of \in Pairs
    BY <1>2 DEF SpentInv
  <2>2. c.of <= made'
    BY <1>2, <2>1
  <2>3. CASE c.of = pending
    BY <1>5, <2>1, <2>2, <2>3
  <2>4. CASE c.of # pending
    BY <1>3, <2>1, <2>2, <2>4
  <2>5. QED BY <2>3, <2>4
<1>7. \A n \in history'.gone : n <= made' /\ n # pending'
  <2>1. SUFFICES ASSUME NEW n \in history'.gone
                 PROVE  n <= made' /\ n # pending'
    OBVIOUS
  <2>2. n \in Pairs /\ (n \in history.gone \/ n = made)
    BY <1>1, <1>3
  <2>3. n <= made
    BY <1>1, <2>2 DEF SpentInv
  <2>4. n <= made' /\ n # made + 1 /\ n # 0
    BY <1>1, <1>2, <2>2, <2>3
  <2>5. QED BY <2>4
<1>8. ASSUME NEW n \in Pairs
      PROVE  /\ history'.verified[n] \subseteq history'.late[n]
             /\ history'.late[n] # {} => n \in history'.gone
  <2>1. /\ history.verified[n] \subseteq history.late[n]
        /\ history.late[n] # {} => n \in history.gone
    BY DEF SpentInv
  <2>2. CASE n = pending
    BY <1>1, <1>3, <1>5, <2>2
  <2>3. CASE n # pending
    BY <1>3, <2>1, <2>3
  <2>4. QED BY <2>2, <2>3
<1>9. \A n \in Pairs \ history'.contested :
        /\ \A c, d \in checks' : c.of = n /\ d.of = n => c = d
        /\ history'.verified[n] = {} \/ \E j \in Joins : history'.verified[n] = {j}
        /\ history'.verified[n] # {} => n \notin Checked'
  BY <1>1 DEF SpentInv
<1>10. QED BY <1>6, <1>7, <1>8, <1>9 DEF SpentInv

LEMMA SpentKept ==
  ASSUME SpentInv, UNCHANGED <<pending, made>>, checks' \subseteq checks,
         history'.verified = history.verified, history'.contested = history.contested,
         history'.gone = history.gone, history'.late = history.late
  PROVE  SpentInv'
<1>1. \A n \in Checked' : n \in Checked
  BY DEF Checked
<1>2. QED BY <1>1 DEF SpentInv

(* A join of the pending pairing whose proof begins to be verified. *)
LEMMA CheckBegins ==
  ASSUME Typed, CodeInv, SpentInv, pending # 0, UNCHANGED <<pending, made>>,
         NEW c \in Checks, c.of = pending, checks' = checks \cup {c},
         history'.verified = history.verified,
         history'.gone = history.gone, history'.late = history.late,
         history'.contested =
           IF pending \in Checked THEN history.contested \cup {pending} ELSE history.contested
  PROVE  SpentInv'
<1>1. Checked' = Checked \cup {pending}
  BY DEF Checked
<1>2. made \in Nat /\ pending = made
  BY DEF Typed, PopupTyped, CodeInv
<1>3. \A d \in checks' : d.of <= made' /\ (d.of = pending' \/ d.session \in history'.late[d.of])
  BY <1>2 DEF SpentInv
<1>4. ASSUME NEW n \in Pairs \ history'.contested
      PROVE  /\ \A d, e \in checks' : d.of = n /\ e.of = n => d = e
             /\ history'.verified[n] = {} \/ \E j \in Joins : history'.verified[n] = {j}
             /\ history'.verified[n] # {} => n \notin Checked'
  <2>1. n \notin history.contested /\ (n = pending => n \notin Checked)
    BY <1>4
  <2>2. \A d, e \in checks' : d.of = n /\ e.of = n => d = e
    BY <2>1 DEF SpentInv, Checked
  <2>3. n = pending => history.verified[n] = {}
    BY DEF SpentInv
  <2>4. /\ history.verified[n] = {} \/ \E j \in Joins : history.verified[n] = {j}
        /\ history.verified[n] # {} => n \notin Checked
    BY <2>1 DEF SpentInv
  <2>5. QED BY <1>1, <2>2, <2>3, <2>4
<1>5. QED BY <1>3, <1>4 DEF SpentInv

(* A proof is accepted: its secret is used, and what is pending goes too. *)
LEMMA SecretSpent ==
  ASSUME Typed, CodeInv, SpentInv, NEW c \in checks, ProofAccepted(c)
  PROVE  SpentInv'
<1>1. /\ made \in Nat /\ pending \in Pairs \cup {0} /\ history.gone \subseteq Pairs
      /\ c.of \in Pairs /\ c.of \in Checked /\ c.session \in Joins
      /\ history.verified \in [Pairs -> SUBSET Joins] /\ pending \in {0, made}
      /\ \A n \in Pairs : n # 0
  BY CheckedArePairs DEF Typed, DesktopTyped, PopupTyped, Histories, CodeInv, Pairs
<1>2. pending' = 0 /\ made' = made /\ checks' = checks \ {c}
  BY <1>1 DEF ProofAccepted, consume, popup
<1>3. /\ history'.verified = [history.verified EXCEPT ![c.of] = @ \cup {c.session}]
      /\ history'.contested = history.contested
      /\ history'.gone = PendingGone.gone /\ history'.late = PendingGone.late
  BY GoneShape DEF ProofAccepted, Histories
<1>4. /\ history'.gone = history.gone \cup ({pending} \ {0})
      /\ \A n \in Pairs : n # pending => history'.late[n] = history.late[n]
  BY <1>3, GoneShape
<1>5. /\ Checked' \subseteq Checked
      /\ \A n \in Pairs : (\A d, e \in checks : d.of = n /\ e.of = n => d = e) /\ n = c.of => n \notin Checked'
  BY <1>2 DEF Checked
<1>6. /\ history'.verified[c.of] = history.verified[c.of] \cup {c.session}
      /\ \A n \in Pairs : n # c.of => history'.verified[n] = history.verified[n]
  BY <1>1, <1>3
<1>7. pending \notin history.gone /\ (pending # 0 => history.late[pending] = {})
  BY <1>1 DEF SpentInv
<1>8. \A d \in checks : d.of \in Pairs /\ d.session \in history'.late[d.of]
  <2>1. SUFFICES ASSUME NEW d \in checks
                 PROVE  d.of \in Pairs /\ d.session \in history'.late[d.of]
    OBVIOUS
  <2>2. d.of \in Pairs /\ d.of <= made /\ (d.of = pending \/ d.session \in history.late[d.of])
    BY CheckedArePairs DEF SpentInv, Typed, DesktopTyped
  <2>3. CASE d.of = pending
    BY <1>3, <1>7, <2>2, <2>3, GoneShape
  <2>4. CASE d.of # pending
    BY <1>4, <2>2, <2>4
  <2>5. QED BY <2>3, <2>4
<1>9. \A d \in checks' : d.of <= made' /\ (d.of = pending' \/ d.session \in history'.late[d.of])
  BY <1>2, <1>8 DEF SpentInv
<1>10. \A n \in history'.gone : n <= made' /\ n # pending'
  BY <1>1, <1>2, <1>4 DEF SpentInv
<1>11. ASSUME NEW n \in Pairs
       PROVE  /\ history'.verified[n] \subseteq history'.late[n]
              /\ history'.late[n] # {} => n \in history'.gone
  <2>1. /\ history.verified[n] \subseteq history.late[n]
        /\ history.late[n] # {} => n \in history.gone
    BY DEF SpentInv
  <2>2. history.late[n] \subseteq history'.late[n] /\ (history'.late[n] # {} => n \in history'.gone)
    BY <1>1, <1>4, <1>7, <2>1
  <2>3. n = c.of => c.session \in history'.late[n]
    BY <1>8
  <2>4. QED BY <1>6, <2>1, <2>2, <2>3
<1>12. ASSUME NEW n \in Pairs \ history'.contested
       PROVE  /\ \A d, e \in checks' : d.of = n /\ e.of = n => d = e
              /\ history'.verified[n] = {} \/ \E j \in Joins : history'.verified[n] = {j}
              /\ history'.verified[n] # {} => n \notin Checked'
  <2>1. n \in Pairs \ history.contested
    BY <1>3, <1>12
  <2>2. /\ \A d, e \in checks : d.of = n /\ e.of = n => d = e
        /\ history.verified[n] = {} \/ \E j \in Joins : history.verified[n] = {j}
        /\ history.verified[n] # {} => n \notin Checked
    BY <2>1 DEF SpentInv
  <2>3. CASE n = c.of
    <3>1. history.verified[n] = {} /\ n \notin Checked'
      BY <1>1, <1>5, <2>2, <2>3
    <3>2. history'.verified[n] = {c.session}
      BY <1>6, <2>3, <3>1
    <3>3. QED BY <1>1, <1>2, <2>2, <3>1, <3>2
  <2>4. CASE n # c.of
    <3>1. history'.verified[n] = history.verified[n]
      BY <1>6, <2>4
    <3>2. QED BY <1>2, <1>5, <2>2, <3>1
  <2>5. QED BY <2>3, <2>4
<1>13. QED BY <1>9, <1>10, <1>11, <1>12 DEF SpentInv

LEMMA SpentStep ==
  ASSUME Typed, CodeInv, SpentInv, [Next]_vars
  PROVE  SpentInv'
<1> DEFINE Lost == /\ history'.verified = history.verified /\ history'.contested = history.contested
                   /\ history'.gone = PendingGone.gone /\ history'.late = PendingGone.late
           Same == /\ history'.verified = history.verified /\ history'.contested = history.contested
                   /\ history'.gone = history.gone /\ history'.late = history.late
<1>1. history \in Histories /\ DesktopTyped /\ FramesTyped
  BY DEF Typed
<1>2. CASE pairStart
  <2>1. Lost
    BY <1>2, GoneShape DEF pairStart, Histories
  <2>2. pending' = made + 1 /\ made' = made + 1 /\ checks' = checks
    BY <1>2 DEF pairStart
  <2>3. QED BY <2>1, <2>2, PendingGoes
<1>3. CASE pairCancel
  <2>1. Lost
    BY <1>3, GoneShape DEF pairCancel, Histories
  <2>2. pending' = 0 /\ made' = made /\ checks' = checks
    BY <1>3 DEF pairCancel
  <2>3. QED BY <2>1, <2>2, PendingGoes
<1>4. CASE DesktopReceives
  <2>1. PICK f \in DesktopFrames :
          IF f.type = "pair.created" THEN onPairCreated(f.id) ELSE onPairJoin(f.session, f.id)
    BY <1>1, <1>4, TailShape DEF DesktopReceives, FramesTyped
  <2>2. made' = made
    BY <1>4 DEF DesktopReceives
  <2>3. CASE UNCHANGED <<pending, checks, history>>
    BY <2>2, <2>3, SpentKept
  <2>4. CASE f.type # "pair.created" /\ pending # 0 /\ (f.id \in lapsed \/ pairId[pending] # f.id)
    <3>1. pending' = 0 /\ checks' = checks /\ history' = PendingGone
      BY <2>1, <2>4 DEF onPairJoin
    <3>2. Lost
      BY <3>1, GoneShape
    <3>3. QED BY <2>2, <3>1, <3>2, PendingGoes
  <2>5. CASE f.type # "pair.created" /\ pending # 0 /\ ~(f.id \in lapsed \/ pairId[pending] # f.id)
    <3>1. PICK c \in Checks : c = [session |-> f.session, of |-> pending, id |-> f.id] /\ c.of = pending
      <4>1. f.session \in Joins /\ f.id \in Pairs /\ pending \in Pairs
        BY <1>1, <2>5 DEF DesktopFrames, DesktopTyped
      <4>2. [session |-> f.session, of |-> pending, id |-> f.id] \in Checks
        BY <4>1 DEF Checks
      <4>3. QED BY <4>2
    <3>2. pending' = pending /\ checks' = checks \cup {c}
      BY <2>1, <2>5, <3>1 DEF onPairJoin
    <3>3. /\ history'.verified = history.verified
          /\ history'.gone = history.gone /\ history'.late = history.late
          /\ history'.contested =
               IF pending \in Checked THEN history.contested \cup {pending} ELSE history.contested
      BY <1>1, <2>1, <2>5 DEF onPairJoin, Histories
    <3>4. QED BY <2>2, <2>5, <3>1, <3>2, <3>3, CheckBegins
  <2>6. QED BY <2>1, <2>3, <2>4, <2>5 DEF onPairCreated, onPairJoin
<1>5. ASSUME NEW c \in checks, ProofRefused(c) PROVE SpentInv'
  <2>1. pending' = pending /\ made' = made /\ checks' = checks \ {c} /\ history' = history
    BY <1>5 DEF ProofRefused, popup
  <2>2. QED BY <2>1, SpentKept
<1>6. CASE UNCHANGED <<pending, made, checks>> /\ Same
  BY <1>6, SpentKept
<1>7. ASSUME NEW j \in Joins, PhoneSteps(j)
      PROVE  UNCHANGED <<pending, made, checks>> /\ Same
  BY <1>1, <1>7 DEF PhoneSteps, Scan, Join, PhoneReceives, storeDesktop, SocketGone, Histories,
                    desktop, popup
<1>8. ASSUME NEW n \in Pairs, Unconfirmed5s(n) \/ Lapses(n)
      PROVE  UNCHANGED <<pending, made, checks>> /\ Same
  BY <1>1, <1>8 DEF Unconfirmed5s, Lapses, Histories, desktop, popup
<1>9. ASSUME NEW p \in Phones, revoke(p)
      PROVE  UNCHANGED <<pending, made, checks>> /\ Same
  BY <1>1, <1>9 DEF revoke, Saves, Histories, desktop, popup
<1>10. Saved \/ ServerReceives \/ LinkLost \/ LinkBack \/ UNCHANGED vars
       => UNCHANGED <<pending, made, checks, history>>
  BY DEF Saved, ServerReceives, LinkLost, LinkBack, vars, desktop, popup
<1>11. QED BY <1>2, <1>3, <1>4, <1>5, <1>6, <1>7, <1>8, <1>9, <1>10, SecretSpent DEF Next

(* No join that comes after its secret was used, cancelled, replaced or      *)
(* found to have run out is ever accepted; those that were being verified    *)
(* just then still may be, since onPairJoin looks at `pending' only before   *)
(* its awaits.  A secret pairs one session at most, unless two proofs of it  *)
(* were being verified at once (PairingManager.onPairJoin, consume).         *)
THEOREM SecretsAreSpentOnce == Spec => []SecretIsSpentOnce
<1>1. Init => SpentInv
  BY DEF Init, SpentInv, History, Checked
<1>2. Typed /\ CodeInv /\ SpentInv /\ [Next]_vars => SpentInv'
  BY SpentStep
<1>3. SpentInv => SecretIsSpentOnce
  <2> SUFFICES ASSUME SpentInv, NEW n \in Pairs
               PROVE  /\ history.verified[n] \subseteq history.late[n]
                      /\ n \notin history.contested => Cardinality(history.verified[n]) <= 1
    BY DEF SecretIsSpentOnce
  <2>1. Cardinality({}) = 0 /\ \A j : Cardinality({j}) = 1
    BY FS_EmptySet, FS_Singleton
  <2>2. history.verified[n] \subseteq history.late[n]
    BY DEF SpentInv
  <2>3. CASE n \in history.contested
    BY <2>2, <2>3
  <2>4. CASE n \notin history.contested
    <3>1. history.verified[n] = {} \/ \E j \in Joins : history.verified[n] = {j}
      BY <2>4 DEF SpentInv
    <3>2. Cardinality(history.verified[n]) \in {0, 1}
      BY <2>1, <3>1
    <3>3. QED BY <2>2, <3>2
  <2>5. QED BY <2>3, <2>4
<1>4. QED BY <1>1, <1>2, <1>3, AlwaysTyped, CodesAlwaysLast, PTL DEF Spec
-----------------------------------------------------------------------------
(* What the desktop accepts and what the phone stores.  No step forgets a    *)
(* scan, a second join or an accepted proof.                                 *)
HistoryGrows ==
  /\ history.rejoined \subseteq history'.rejoined
  /\ \A n \in Pairs : history.verified[n] \subseteq history'.verified[n]

LEMMA NothingForgotten ==
  ASSUME Typed, [Next]_vars
  PROVE  Typed' /\ SessionsKept /\ HistoryGrows /\ made \in Nat /\ made' \in Nat /\ made <= made'
<1>1. Typed'
  BY RequestTypes, DesktopTypes, ServerTypes, PhoneTypes DEF Next
<1>2. SessionsKept
  <2>1. CASE session' = session
    BY <2>1 DEF SessionsKept
  <2>2. CASE ServerReceives \/ LinkLost \/ \E j \in Joins : PhoneSteps(j)
    BY <2>2, ServerTypes, PhoneTypes
  <2>3. QED BY <2>1, <2>2
            DEF Next, vars, pairStart, pairCancel, Saved, Unconfirmed5s, Lapses, revoke,
                DesktopReceives, LinkBack, ProofRefused, ProofAccepted, phones
<1>3. HistoryGrows
  <2>1. history \in Histories
    BY DEF Typed
  <2>2. CASE history' = history
    BY <2>2 DEF HistoryGrows
  <2>3. CASE pairStart \/ pairCancel
    BY <2>1, <2>3, GoneShape DEF pairStart, pairCancel, Histories, HistoryGrows
  <2>4. CASE (\E n \in Pairs : Unconfirmed5s(n)) \/ (\E p \in Phones : revoke(p)) \/ DesktopReceives
    BY <2>1, <2>4, GoneShape DEF Unconfirmed5s, revoke, Saves, DesktopReceives, onPairCreated, onPairJoin,
                      Histories, HistoryGrows
  <2>5. CASE \E c \in checks : ProofAccepted(c)
    <3>1. PICK c \in checks : ProofAccepted(c)
      BY <2>5
    <3>2. /\ history'.verified = [history.verified EXCEPT ![c.of] = @ \cup {c.session}]
          /\ history'.rejoined = history.rejoined
          /\ history.verified \in [Pairs -> SUBSET Joins]
      BY <2>1, <3>1, GoneShape DEF ProofAccepted, Histories
    <3>3. QED BY <3>2 DEF HistoryGrows
  <2>6. CASE \E j \in Joins : PhoneSteps(j)
    <3>1. PICK j \in Joins : PhoneSteps(j)
      BY <2>6
    <3>2. CASE Join(j)
      <4>1. PICK id : id = session[j].code.id
        OBVIOUS
      <4>2. \/ history' = history
            \/ history' = [history EXCEPT
                 !.rejoined = IF window[id].state = "JOINED" THEN @ \cup {id} ELSE @]
        BY <3>2, <4>1 DEF Join
      <4>3. QED BY <2>1, <4>2 DEF Histories, HistoryGrows
    <3>3. QED BY <2>2, <3>1, <3>2 DEF PhoneSteps, Scan, PhoneReceives, storeDesktop, SocketGone
  <2>7. QED BY <2>2, <2>3, <2>4, <2>5, <2>6
            DEF Next, vars, Saved, Lapses, ServerReceives, LinkLost, LinkBack, ProofRefused
<1>4. made' = made \/ made' = made + 1
  <2>1. CASE \E j \in Joins : PhoneSteps(j)
    BY <2>1 DEF PhoneSteps, Scan, Join, PhoneReceives, storeDesktop, SocketGone, popup
  <2>2. CASE ~\E j \in Joins : PhoneSteps(j)
    BY <2>2 DEF Next, vars, pairStart, pairCancel, Saved, Unconfirmed5s, Lapses, revoke, DesktopReceives,
                ServerReceives, LinkLost, LinkBack, ProofRefused, ProofAccepted, popup
  <2>3. QED BY <2>1, <2>2
<1>5. made \in Nat
  BY DEF Typed, PopupTyped
<1>6. QED BY <1>1, <1>2, <1>3, <1>4, <1>5

(* The windows: the server opens the one that is asked for, and a join names *)
(* its session in an open one.                                               *)
Opens(n) == ServerReceives /\ toServer # <<>> /\ IsCreate(Head(toServer)) /\ Head(toServer).id = n
Joined(j, n) ==
  /\ Join(j) /\ session[j].st # "none" /\ session[j].code.id = n
  /\ window[n].state \in OpenStates
  /\ window[n].state = "JOINED" => n \in history'.rejoined
WindowMoves(n) ==
  \/ /\ window'[n].session = window[n].session
     /\ window'[n].state = "CREATED" => window[n].state = "CREATED"
     /\ window[n] = NoWindow <=> window'[n] = NoWindow
  \/ Opens(n) /\ window'[n] = [state |-> "CREATED", session |-> 0]
  \/ \E j \in Joins : Joined(j, n) /\ window'[n] = [state |-> "JOINED", session |-> j]

LEMMA WindowEffects ==
  ASSUME Typed, [Next]_vars, NEW n \in Pairs
  PROVE  WindowMoves(n)
<1>1. /\ window \in [Pairs -> Windows] /\ window[n] \in Windows /\ toServer \in Seq(ServerFrames)
      /\ history \in Histories
      /\ \A j \in Joins : session[j] = NoSession \/ (session[j].st # "none" /\ session[j].code \in Codes)
  BY DEF Typed, PhonesTyped, FramesTyped
<1>2. CASE window' = window
  BY <1>2 DEF WindowMoves
<1>3. ASSUME NEW state, window'[n] = [window[n] EXCEPT !.state = state],
             state # "CREATED" /\ state # "none",
             window[n].state # "none"
      PROVE  WindowMoves(n)
  BY <1>1, <1>3 DEF WindowMoves, Windows, NoWindow
<1>4. CASE window'[n] = window[n]
  BY <1>4 DEF WindowMoves
<1>5. CASE ServerReceives
  <2>1. PICK f \in ServerFrames :
          /\ f = Head(toServer) /\ toServer # <<>>
          /\ IF f.type = "pair.create" THEN onPairCreate(f.id)
                                       ELSE decidePairing(f.id, f.type = "pair.accept")
    BY <1>1, <1>5, TailShape DEF ServerReceives
  <2>2. f.id \in Pairs
    BY DEF ServerFrames
  <2>3. CASE f.type = "pair.create"
    <3>1. window'[n] = IF n = f.id THEN [state |-> "CREATED", session |-> 0]
                       ELSE IF window[n].state \in OpenStates THEN [window[n] EXCEPT !.state = "CANCELLED"]
                       ELSE window[n]
      BY <2>1, <2>3 DEF onPairCreate
    <3>2. CASE n = f.id
      BY <1>5, <2>1, <2>3, <3>1, <3>2 DEF WindowMoves, Opens, IsCreate
    <3>3. CASE n # f.id
      BY <1>3, <1>4, <3>1, <3>3 DEF OpenStates
    <3>4. QED BY <3>2, <3>3
  <2>4. CASE f.type # "pair.create"
    <3>1. decidePairing(f.id, f.type = "pair.accept")
      BY <2>1, <2>4
    <3>2. CASE window[f.id].state = "JOINED" /\ n = f.id
      <4>1. PICK state \in {"CONSUMED", "REJECTED"} : window'[n] = [window[n] EXCEPT !.state = state]
        BY <1>1, <2>2, <3>1, <3>2 DEF decidePairing
      <4>2. QED BY <1>3, <3>2, <4>1
    <3>3. CASE window[f.id].state # "JOINED" \/ n # f.id
      BY <1>1, <1>4, <2>2, <3>1, <3>3 DEF decidePairing
    <3>4. QED BY <3>2, <3>3
  <2>5. QED BY <2>3, <2>4
<1>6. CASE LinkLost
  <2>1. window'[n] = IF window[n].state \in OpenStates THEN [window[n] EXCEPT !.state = "CANCELLED"]
                     ELSE window[n]
    BY <1>6 DEF LinkLost
  <2>2. QED BY <1>3, <1>4, <2>1 DEF OpenStates
<1>7. ASSUME NEW j \in Joins, PhoneSteps(j)
      PROVE  WindowMoves(n)
  <2>1. CASE Join(j)
    <3>1. PICK id \in Pairs : id = session[j].code.id /\ session[j].st = "opening"
      BY <1>1, <2>1 DEF Join, NoSession, Codes
    <3>2. CASE window[id].state \in OpenStates /\ id \notin lapsed
      <4>1. /\ window' = [window EXCEPT ![id] = [state |-> "JOINED", session |-> j]]
            /\ history' = [history EXCEPT
                 !.rejoined = IF window[id].state = "JOINED" THEN @ \cup {id} ELSE @]
        BY <2>1, <3>1, <3>2 DEF Join
      <4>2. window[id].state = "JOINED" => id \in history'.rejoined
        BY <1>1, <4>1 DEF Histories
      <4>3. CASE n = id
        <5>1. Joined(j, n) /\ window'[n] = [state |-> "JOINED", session |-> j]
          BY <1>1, <2>1, <3>1, <3>2, <4>1, <4>2, <4>3 DEF Joined
        <5>2. QED BY <5>1 DEF WindowMoves
      <4>4. CASE n # id
        BY <1>1, <1>4, <4>1, <4>4
      <4>5. QED BY <4>3, <4>4
    <3>3. CASE ~(window[id].state \in OpenStates /\ id \notin lapsed)
      <4>1. window' = [window EXCEPT ![id].state = IF @ \in OpenStates THEN "EXPIRED" ELSE @]
        BY <2>1, <3>1, <3>3 DEF Join
      <4>2. CASE n = id /\ window[id].state \in OpenStates
        <5>1. window'[n] = [window[n] EXCEPT !.state = "EXPIRED"]
          BY <1>1, <4>1, <4>2
        <5>2. QED BY <1>3, <4>2, <5>1 DEF OpenStates
      <4>3. CASE n = id /\ window[id].state \notin OpenStates
        <5>1. window'[n] = [window[n] EXCEPT !.state = window[n].state]
          BY <1>1, <4>1, <4>3
        <5>2. window'[n] = window[n]
          BY <1>1, <5>1 DEF Windows
        <5>3. QED BY <1>4, <5>2
      <4>4. CASE n # id
        BY <1>1, <1>4, <4>1, <4>4
      <4>5. QED BY <4>2, <4>3, <4>4
    <3>4. QED BY <3>2, <3>3
  <2>2. CASE SocketGone(j)
    <3>1. window'[n] = IF window[n] = [state |-> "JOINED", session |-> j]
                       THEN [window[n] EXCEPT !.state = "CANCELLED"] ELSE window[n]
      BY <2>2 DEF SocketGone
    <3>2. QED BY <1>3, <1>4, <3>1
  <2>3. QED BY <1>2, <1>7, <2>1, <2>2 DEF PhoneSteps, Scan, PhoneReceives, storeDesktop
<1>8. QED BY <1>2, <1>5, <1>6, <1>7
          DEF Next, vars, pairStart, pairCancel, Saved, Unconfirmed5s, Lapses, revoke, DesktopReceives,
              LinkBack, ProofRefused, ProofAccepted

(* Until a second session joins, a window keeps the session it has.          *)
LEMMA WindowsAreKept ==
  ASSUME Typed, WindowsKnown, CreatesNew, [Next]_vars,
         NEW n \in Pairs, n \notin history'.rejoined, window[n].session # 0
  PROVE  window'[n].session = window[n].session
<1>1. WindowMoves(n)
  BY WindowEffects
<1>2. window[n].state # "CREATED" /\ window[n] # NoWindow
  BY DEF WindowsKnown, NoWindow
<1>3. CASE Opens(n)
  <2>1. Head(toServer) = toServer[1] /\ 1 \in 1..Len(toServer)
    BY <1>3, TailShape DEF Opens, Typed, FramesTyped
  <2>2. QED BY <1>2, <1>3, <2>1 DEF Opens, CreatesNew
<1>4. ASSUME NEW j \in Joins, Joined(j, n)
      PROVE  FALSE
  BY <1>2, <1>4 DEF Joined, OpenStates
<1>5. QED BY <1>1, <1>3, <1>4 DEF WindowMoves

LEMMA WindowsKnownStep ==
  ASSUME Typed, WindowsKnown, CreatesNew, [Next]_vars
  PROVE  WindowsKnown'
<1>1. /\ SessionsKept /\ made \in Nat /\ made' \in Nat /\ made <= made'
      /\ window \in [Pairs -> Windows] /\ \A n \in Pairs : n \in Nat
  BY NothingForgotten DEF Typed, PhonesTyped, Pairs
<1>2. ASSUME NEW n \in Pairs
      PROVE  /\ window'[n] # NoWindow => n <= made'
             /\ window'[n].state = "CREATED" => window'[n].session = 0
             /\ window'[n].session # 0 =>
                  /\ session'[window'[n].session].st # "none"
                  /\ session'[window'[n].session].code.id = n
  <2>1. WindowMoves(n)
    BY WindowEffects
  <2>2. window[n].session \in Joins \cup {0}
    BY <1>1 DEF Windows
  <2>3. CASE /\ window'[n].session = window[n].session
             /\ window'[n].state = "CREATED" => window[n].state = "CREATED"
             /\ window[n] = NoWindow <=> window'[n] = NoWindow
    <3>1. window[n].session # 0 =>
            /\ session'[window[n].session].st # "none"
            /\ session'[window[n].session].code.id = n
      BY <1>1, <2>2 DEF WindowsKnown, SessionsKept
    <3>2. window[n] # NoWindow => n <= made'
      BY <1>1 DEF WindowsKnown
    <3>3. QED BY <2>3, <3>1, <3>2 DEF WindowsKnown
  <2>4. CASE Opens(n) /\ window'[n] = [state |-> "CREATED", session |-> 0]
    <3>1. Head(toServer) = toServer[1] /\ 1 \in 1..Len(toServer)
      BY <2>4, TailShape DEF Opens, Typed, FramesTyped
    <3>2. n <= made
      BY <2>4, <3>1 DEF Opens, CreatesNew
    <3>3. QED BY <1>1, <2>4, <3>2
  <2>5. ASSUME NEW j \in Joins, Joined(j, n), window'[n] = [state |-> "JOINED", session |-> j]
        PROVE  /\ window'[n] # NoWindow => n <= made'
               /\ window'[n].state = "CREATED" => window'[n].session = 0
               /\ window'[n].session # 0 =>
                    /\ session'[window'[n].session].st # "none"
                    /\ session'[window'[n].session].code.id = n
    <3>1. window'[n].state = "JOINED" /\ window'[n].session = j
      BY <2>5
    <3>2. session'[j].st # "none" /\ session'[j].code.id = n
      BY <1>1, <2>5 DEF Joined, SessionsKept
    <3>3. window[n] # NoWindow
      BY <2>5 DEF Joined, OpenStates, NoWindow
    <3>4. n <= made'
      BY <1>1, <3>3 DEF WindowsKnown
    <3>5. QED BY <3>1, <3>2, <3>4
  <2>6. QED BY <2>1, <2>3, <2>4, <2>5 DEF WindowMoves
<1>3. QED BY <1>2 DEF WindowsKnown

(* What a window says of a session that it joined stays true. *)
LEMMA OnlyJoinerKept ==
  ASSUME Typed, WindowsKnown, CreatesNew, [Next]_vars, NEW j, NEW n \in Pairs, OnlyJoiner(j, n)
  PROVE  OnlyJoiner(j, n)' /\ session'[j].code = session[j].code
<1>1. SessionsKept /\ HistoryGrows /\ j \in Joins /\ j # 0
  BY NothingForgotten DEF OnlyJoiner, Joins
<1>2. session'[j].st # "none" /\ session'[j].code = session[j].code
  BY <1>1 DEF OnlyJoiner, SessionsKept
<1>3. n \in history'.rejoined \/ window'[n].session = j
  BY <1>1, WindowsAreKept DEF OnlyJoiner, HistoryGrows
<1>4. QED BY <1>1, <1>2, <1>3 DEF OnlyJoiner

LEMMA ProvenKept ==
  ASSUME Typed, [Next]_vars, NEW j \in Joins, Proven(j)
  PROVE  Proven(j)'
<1>1. SessionsKept /\ HistoryGrows
  BY NothingForgotten
<1>2. session'[j].st # "none" /\ session'[j].code = session[j].code
  BY <1>1 DEF Proven, SessionsKept
<1>3. QED BY <1>1, <1>2 DEF Proven, HistoryGrows
-----------------------------------------------------------------------------
(* What becomes of the frames for the server. *)
Reject(n) == [type |-> "pair.reject", id |-> n]
Accept(n) == [type |-> "pair.accept", id |-> n]
Create(n) == [type |-> "pair.create", id |-> n]
ToServerMoves ==
  \/ toServer' = toServer
  \/ toServer' = <<>>
  \/ ServerReceives /\ toServer # <<>> /\ toServer' = Tail(toServer)
  \/ pairStart /\ made + 1 \in Pairs /\ toServer' = Append(toServer, Create(made + 1))
  \/ window' = window /\ \E n \in Pairs : toServer' = Append(toServer, Reject(n))
  \/ window' = window /\ \E c \in checks : ProofAccepted(c) /\ toServer' = Append(toServer, Accept(c.id))

LEMMA ServerFramesMove ==
  ASSUME Typed, [Next]_vars
  PROVE  ToServerMoves
<1>1. CASE pairStart
  <2>1. made + 1 \in Pairs
    BY <1>1 DEF pairStart, Typed, PopupTyped, Pairs
  <2>2. QED BY <1>1, <2>1 DEF pairStart, Sent, Create, ToServerMoves
<1>2. CASE DesktopReceives
  <2>1. PICK f \in DesktopFrames :
          IF f.type = "pair.created" THEN onPairCreated(f.id) ELSE onPairJoin(f.session, f.id)
    BY <1>2, TailShape DEF DesktopReceives, Typed, FramesTyped
  <2>2. f.id \in Pairs /\ window' = window
    BY <1>2 DEF DesktopReceives, DesktopFrames
  <2>3. toServer' = toServer \/ toServer' = Append(toServer, Reject(f.id))
    BY <2>1 DEF onPairCreated, onPairJoin, Sent, Reject
  <2>4. QED BY <2>2, <2>3 DEF ToServerMoves
<1>3. ASSUME NEW c \in checks, ProofRefused(c)
      PROVE  ToServerMoves
  <2>1. c.id \in Pairs /\ window' = window
    BY <1>3, CheckedArePairs DEF ProofRefused, Typed, DesktopTyped
  <2>2. toServer' = toServer \/ toServer' = Append(toServer, Reject(c.id))
    BY <1>3 DEF ProofRefused, Sent, Reject
  <2>3. QED BY <2>1, <2>2 DEF ToServerMoves
<1>4. ASSUME NEW c \in checks, ProofAccepted(c)
      PROVE  ToServerMoves
  <2>1. window' = window /\ (toServer' = toServer \/ toServer' = Append(toServer, Accept(c.id)))
    BY <1>4 DEF ProofAccepted, Sent, Accept
  <2>2. QED BY <1>4, <2>1 DEF ToServerMoves
<1>5. CASE ServerReceives \/ LinkLost
  BY <1>5 DEF ServerReceives, LinkLost, ToServerMoves
<1>6. ASSUME NEW j \in Joins, PhoneSteps(j)
      PROVE  toServer' = toServer
  BY <1>6 DEF PhoneSteps, Scan, Join, PhoneReceives, storeDesktop, SocketGone, frames
<1>7. CASE toServer' = toServer
  BY <1>7 DEF ToServerMoves
<1>8. QED BY <1>1, <1>2, <1>3, <1>4, <1>5, <1>6, <1>7
          DEF Next, vars, pairCancel, Saved, Unconfirmed5s, Lapses, revoke, LinkBack, frames

LEMMA CreatesNewStep ==
  ASSUME Typed, WindowsKnown, CreatesNew, [Next]_vars
  PROVE  CreatesNew'
<1>1. /\ toServer \in Seq(ServerFrames) /\ made \in Nat /\ made' \in Nat /\ made <= made'
      /\ \A i \in 1..Len(toServer) : toServer[i].id \in Pairs
      /\ \A n \in Pairs : n \in Nat
  <2>1. toServer \in Seq(ServerFrames) /\ made \in Nat /\ made' \in Nat /\ made <= made'
    BY NothingForgotten DEF Typed, FramesTyped
  <2>2. \A i \in 1..Len(toServer) : toServer[i] \in ServerFrames
    BY <2>1
  <2>3. QED BY <2>1, <2>2 DEF ServerFrames, Pairs
<1>2. ASSUME NEW n \in Pairs, window[n] = NoWindow, ~Opens(n)
      PROVE  window'[n] = NoWindow
  <2>1. WindowMoves(n)
    BY WindowEffects
  <2>2. window[n].state \notin OpenStates
    BY <1>2 DEF NoWindow, OpenStates
  <2>3. QED BY <1>2, <2>1, <2>2 DEF WindowMoves, Joined
<1>3. CASE toServer' = <<>>
  BY <1>3 DEF CreatesNew
<1>4. CASE toServer' = toServer
  <2>1. ~ServerReceives
    BY <1>1, <1>4, TailShape DEF ServerReceives
  <2>2. \A i \in 1..Len(toServer) : IsCreate(toServer[i]) =>
          window'[toServer[i].id] = NoWindow /\ toServer[i].id <= made'
    BY <1>1, <1>2, <2>1 DEF CreatesNew, Opens
  <2>3. QED BY <1>4, <2>2 DEF CreatesNew, IsCreate
<1>5. CASE ServerReceives /\ toServer # <<>> /\ toServer' = Tail(toServer)
  <2>1. /\ Head(toServer) = toServer[1] /\ 1 \in 1..Len(toServer) /\ Len(toServer) \in Nat
        /\ Len(toServer') = Len(toServer) - 1
        /\ \A i \in 1..Len(toServer') : toServer'[i] = toServer[i + 1] /\ i + 1 \in 1..Len(toServer)
    BY <1>1, <1>5, TailShape
  <2>2. ASSUME NEW i \in 1..Len(toServer'), IsCreate(toServer[i + 1])
        PROVE  window'[toServer[i + 1].id] = NoWindow /\ toServer[i + 1].id <= made'
    <3>1. i + 1 \in 1..Len(toServer) /\ 1 < i + 1
      BY <2>1
    <3>2. window[toServer[i + 1].id] = NoWindow /\ toServer[i + 1].id <= made
      BY <2>2, <3>1 DEF CreatesNew
    <3>3. ~Opens(toServer[i + 1].id)
      BY <2>1, <2>2, <3>1 DEF CreatesNew, Opens
    <3>4. QED BY <1>1, <1>2, <3>1, <3>2, <3>3
  <2>3. ASSUME NEW i \in 1..Len(toServer'), NEW k \in 1..Len(toServer'), i < k,
               IsCreate(toServer[i + 1]), IsCreate(toServer[k + 1])
        PROVE  toServer[i + 1].id # toServer[k + 1].id
    <3>1. i + 1 < k + 1 /\ i + 1 \in 1..Len(toServer) /\ k + 1 \in 1..Len(toServer)
      BY <2>1, <2>3
    <3>2. QED BY <2>3, <3>1 DEF CreatesNew
  <2>4. \A i \in 1..Len(toServer') : IsCreate(toServer'[i]) =>
          window'[toServer'[i].id] = NoWindow /\ toServer'[i].id <= made'
    BY <2>1, <2>2
  <2>5. \A i, k \in 1..Len(toServer') :
          i < k /\ IsCreate(toServer'[i]) /\ IsCreate(toServer'[k]) => toServer'[i].id # toServer'[k].id
    BY <2>1, <2>3
  <2>6. QED BY <2>4, <2>5 DEF CreatesNew, IsCreate
<1>6. ASSUME NEW f \in ServerFrames, toServer' = Append(toServer, f), window' = window,
             IsCreate(f) => f.id = made + 1 /\ made' = made + 1
      PROVE  CreatesNew'
  <2>1. /\ Len(toServer') = Len(toServer) + 1 /\ Len(toServer) \in Nat /\ toServer'[Len(toServer) + 1] = f
        /\ \A i \in 1..Len(toServer) : toServer'[i] = toServer[i]
        /\ \A i \in 1..Len(toServer') : i \in 1..Len(toServer) \/ i = Len(toServer) + 1
    BY <1>1, <1>6, AppendShape
  <2>2. f.id \in Pairs /\ (IsCreate(f) => window[f.id] = NoWindow /\ f.id <= made')
    BY <1>1, <1>6 DEF WindowsKnown, ServerFrames
  <2>3. ASSUME NEW i \in 1..Len(toServer'), IsCreate(toServer'[i])
        PROVE  window'[toServer'[i].id] = NoWindow /\ toServer'[i].id <= made'
    <3>1. CASE i \in 1..Len(toServer)
      <4>1. window[toServer[i].id] = NoWindow /\ toServer[i].id <= made
        BY <2>1, <2>3, <3>1 DEF CreatesNew
      <4>2. QED BY <1>1, <1>6, <2>1, <3>1, <4>1
    <3>2. CASE i = Len(toServer) + 1
      BY <1>6, <2>1, <2>2, <2>3, <3>2
    <3>3. QED BY <2>1, <3>1, <3>2
  <2>4. ASSUME NEW i \in 1..Len(toServer'), NEW k \in 1..Len(toServer'), i < k,
               IsCreate(toServer'[i]), IsCreate(toServer'[k])
        PROVE  toServer'[i].id # toServer'[k].id
    <3>1. i \in 1..Len(toServer) /\ toServer'[i] = toServer[i]
      BY <2>1, <2>4
    <3>2. CASE k \in 1..Len(toServer)
      BY <2>1, <2>4, <3>1, <3>2 DEF CreatesNew
    <3>3. CASE k = Len(toServer) + 1
      <4>1. toServer[i].id <= made /\ toServer[i].id \in Nat
        BY <1>1, <2>4, <3>1 DEF CreatesNew
      <4>2. toServer'[k].id = made + 1
        BY <1>6, <2>1, <2>4, <3>3
      <4>3. QED BY <1>1, <3>1, <4>1, <4>2
    <3>4. QED BY <2>1, <3>2, <3>3
  <2>5. QED BY <2>3, <2>4 DEF CreatesNew, IsCreate
<1>7. CASE pairStart /\ made + 1 \in Pairs /\ toServer' = Append(toServer, Create(made + 1))
  <2>1. Create(made + 1) \in ServerFrames /\ Create(made + 1).id = made + 1
    BY <1>7 DEF Create, ServerFrames
  <2>2. window' = window /\ made' = made + 1
    BY <1>7 DEF pairStart
  <2>3. QED BY <1>6, <1>7, <2>1, <2>2
<1>8. ASSUME NEW n \in Pairs, window' = window,
             toServer' = Append(toServer, Reject(n)) \/ toServer' = Append(toServer, Accept(n))
      PROVE  CreatesNew'
  <2>1. /\ Reject(n) \in ServerFrames /\ ~IsCreate(Reject(n))
        /\ Accept(n) \in ServerFrames /\ ~IsCreate(Accept(n))
    BY DEF Reject, Accept, ServerFrames, IsCreate
  <2>2. QED BY <1>6, <1>8, <2>1
<1>9. \A c \in checks : c.id \in Pairs
  BY CheckedArePairs DEF Typed, DesktopTyped
<1>10. ToServerMoves
  BY ServerFramesMove
<1>11. QED BY <1>3, <1>4, <1>5, <1>7, <1>8, <1>9, <1>10 DEF ToServerMoves
-----------------------------------------------------------------------------
(* A join that is on its way to the desktop was, or a phone has joined now.  *)
NewJoin(j, f) ==
  /\ Join(j) /\ f.session = j /\ f.id = session[j].code.id /\ f.id \in Pairs
  /\ session'[j].st # "none" /\ session'[j].code.id = f.id /\ window'[f.id].session = j

LEMMA JoinFramesMove ==
  ASSUME Typed, [Next]_vars, NEW i \in 1..Len(toDesktop'), toDesktop'[i].type = "pair.join"
  PROVE  \/ \E k \in 1..Len(toDesktop) : toDesktop'[i] = toDesktop[k]
         \/ \E j \in Joins : NewJoin(j, toDesktop'[i])
<1>1. /\ toDesktop \in Seq(DesktopFrames) /\ window \in [Pairs -> Windows]
      /\ session \in [Joins -> Sessions]
      /\ \A j \in Joins : session[j] = NoSession \/ (session[j].st # "none" /\ session[j].code \in Codes)
  BY DEF Typed, FramesTyped, PhonesTyped
<1> DEFINE Old == \E k \in 1..Len(toDesktop) : toDesktop'[i] = toDesktop[k]
<1>2. CASE toDesktop' = toDesktop
  BY <1>2
<1>3. CASE toDesktop # <<>> /\ toDesktop' = Tail(toDesktop)
  BY <1>1, <1>3, TailShape
<1>4. CASE ServerReceives
  <2>1. PICK f \in ServerFrames :
          IF f.type = "pair.create" THEN onPairCreate(f.id)
                                    ELSE decidePairing(f.id, f.type = "pair.accept")
    BY <1>4, TailShape DEF ServerReceives, Typed, FramesTyped
  <2>2. CASE f.type = "pair.create"
    <3>1. PICK g \in DesktopFrames : g = [type |-> "pair.created", id |-> f.id, session |-> 0]
      <4>1. f.id \in Pairs
        BY DEF ServerFrames
      <4>2. QED BY <4>1 DEF DesktopFrames
    <3>2. toDesktop' = Append(toDesktop, g)
      BY <2>1, <2>2, <3>1 DEF onPairCreate
    <3>3. QED BY <1>1, <3>1, <3>2, AppendShape
  <2>3. CASE f.type # "pair.create"
    BY <1>2, <2>1, <2>3 DEF decidePairing
  <2>4. QED BY <2>2, <2>3
<1>5. CASE LinkLost
  <2>1. toDesktop' = <<>>
    BY <1>5 DEF LinkLost
  <2>2. QED BY <2>1
<1>6. ASSUME NEW j \in Joins, Join(j), toDesktop' # toDesktop
      PROVE  Old \/ NewJoin(j, toDesktop'[i])
  <2>1. PICK id \in Pairs : id = session[j].code.id
    BY <1>1, <1>6 DEF Join, NoSession, Codes
  <2>2. PICK g \in DesktopFrames : g = [type |-> "pair.join", id |-> id, session |-> j]
    BY <2>1 DEF DesktopFrames
  <2>3. /\ toDesktop' = Append(toDesktop, g)
        /\ window' = [window EXCEPT ![id] = [state |-> "JOINED", session |-> j]]
        /\ session' = [session EXCEPT ![j].st = "joined"]
    BY <1>6, <2>1, <2>2 DEF Join
  <2>4. Old \/ toDesktop'[i] = g
    BY <1>1, <2>3, AppendShape
  <2>5. window'[id].session = j
    BY <1>1, <2>3
  <2>6. session'[j].st # "none" /\ session'[j].code.id = id
    BY <1>1, <2>1, <2>3 DEF Sessions
  <2>7. toDesktop'[i] = g => NewJoin(j, toDesktop'[i])
    BY <1>6, <2>1, <2>2, <2>5, <2>6 DEF NewJoin
  <2>8. QED BY <2>4, <2>7
<1>7. ASSUME NEW j \in Joins, PhoneSteps(j), ~Join(j)
      PROVE  toDesktop' = toDesktop
  BY <1>7 DEF PhoneSteps, Scan, PhoneReceives, storeDesktop, SocketGone, frames
<1>8. QED BY <1>2, <1>3, <1>4, <1>5, <1>6, <1>7
          DEF Next, vars, pairStart, pairCancel, Saved, Unconfirmed5s, Lapses, revoke, DesktopReceives,
              LinkBack, ProofRefused, ProofAccepted, frames

(* A proof that is being verified was, or its join has come now. *)
LEMMA ChecksMove ==
  ASSUME Typed, [Next]_vars, NEW c \in checks'
  PROVE  \/ c \in checks
         \/ \E k \in 1..Len(toDesktop) :
              /\ toDesktop[k].type = "pair.join"
              /\ toDesktop[k].session = c.session /\ toDesktop[k].id = c.id
<1>1. CASE checks' \subseteq checks
  BY <1>1
<1>2. CASE DesktopReceives
  <2>1. PICK f \in DesktopFrames :
          /\ f = toDesktop[1] /\ 1 \in 1..Len(toDesktop)
          /\ IF f.type = "pair.created" THEN onPairCreated(f.id) ELSE onPairJoin(f.session, f.id)
    BY <1>2, TailShape DEF DesktopReceives, Typed, FramesTyped
  <2>2. c \in checks \/ (f.type # "pair.created" /\ c.session = f.session /\ c.id = f.id)
    BY <2>1 DEF onPairCreated, onPairJoin
  <2>3. QED BY <2>1, <2>2 DEF DesktopFrames
<1>3. ASSUME NEW j \in Joins, PhoneSteps(j)
      PROVE  checks' = checks
  BY <1>3 DEF PhoneSteps, Scan, Join, PhoneReceives, storeDesktop, SocketGone, desktop
<1>4. QED BY <1>1, <1>2, <1>3
          DEF Next, vars, pairStart, pairCancel, Saved, Unconfirmed5s, Lapses, revoke, ServerReceives,
              LinkLost, LinkBack, ProofRefused, ProofAccepted, desktop

(* A proof that was accepted had been, or is now. *)
LEMMA VerifiedMoves ==
  ASSUME Typed, [Next]_vars, NEW n \in Pairs, NEW j \in history'.verified[n]
  PROVE  j \in history.verified[n] \/ \E c \in checks : ProofAccepted(c) /\ c.of = n /\ c.session = j
<1>1. history \in Histories
  BY DEF Typed
<1>2. CASE history'.verified = history.verified
  BY <1>2
<1>3. ASSUME NEW c \in checks, ProofAccepted(c)
      PROVE  j \in history.verified[n] \/ (c.of = n /\ c.session = j)
  <2>1. /\ history'.verified = [history.verified EXCEPT ![c.of] = @ \cup {c.session}]
        /\ history.verified \in [Pairs -> SUBSET Joins]
    BY <1>1, <1>3, GoneShape DEF ProofAccepted, Histories
  <2>2. QED BY <2>1
<1>4. ASSUME NEW i \in Joins, PhoneSteps(i)
      PROVE  history'.verified = history.verified
  BY <1>1, <1>4 DEF PhoneSteps, Scan, Join, PhoneReceives, storeDesktop, SocketGone, Histories
<1>5. pairStart \/ pairCancel => history'.verified = history.verified
  BY <1>1, GoneShape DEF pairStart, pairCancel, Histories
<1>6. (\E m \in Pairs : Unconfirmed5s(m)) \/ (\E p \in Phones : revoke(p)) \/ DesktopReceives
        => history'.verified = history.verified
  BY <1>1, GoneShape DEF Unconfirmed5s, revoke, Saves, DesktopReceives, onPairCreated, onPairJoin, Histories
<1>7. QED BY <1>2, <1>3, <1>4, <1>5, <1>6
          DEF Next, vars, Saved, Lapses, ServerReceives, LinkLost, LinkBack, ProofRefused

LEMMA JoinersKnownStep ==
  ASSUME Typed, MutualInv, [Next]_vars
  PROVE  JoinersKnown'
<1>1. /\ WindowsKnown /\ CreatesNew /\ JoinersKnown /\ Typed'
      /\ toDesktop \in Seq(DesktopFrames) /\ checks \subseteq Checks
  BY NothingForgotten DEF MutualInv, Typed, FramesTyped, DesktopTyped
<1>2. ASSUME NEW i \in 1..Len(toDesktop'), NEW f, f = toDesktop'[i], f.type = "pair.join"
      PROVE  OnlyJoiner(f.session, f.id)'
  <2>1. ASSUME NEW k \in 1..Len(toDesktop), f = toDesktop[k]
        PROVE  OnlyJoiner(f.session, f.id)'
    <3>1. f \in DesktopFrames
      BY <1>1, <2>1
    <3>2. f.id \in Pairs /\ OnlyJoiner(f.session, f.id)
      BY <1>1, <1>2, <2>1, <3>1 DEF JoinersKnown, DesktopFrames
    <3>3. QED BY <1>1, <3>2, OnlyJoinerKept
  <2>2. ASSUME NEW j \in Joins, NewJoin(j, f)
        PROVE  OnlyJoiner(f.session, f.id)'
    BY <2>2 DEF NewJoin, OnlyJoiner
  <2>3. (\E k \in 1..Len(toDesktop) : f = toDesktop[k]) \/ \E j \in Joins : NewJoin(j, f)
    BY <1>2, JoinFramesMove
  <2>4. QED BY <2>1, <2>2, <2>3
<1>3. ASSUME NEW c \in checks'
      PROVE  OnlyJoiner(c.session, c.id)'
  <2>1. OnlyJoiner(c.session, c.id)
    BY <1>1, ChecksMove DEF JoinersKnown
  <2>2. c.id \in Pairs
    BY <1>1 DEF Typed, DesktopTyped, Checks
  <2>3. QED BY <1>1, <2>1, <2>2, OnlyJoinerKept
<1>4. ASSUME NEW n \in Pairs, NEW j \in history'.verified[n]
      PROVE  OnlyJoiner(j, session[j].code.id)' /\ session'[j].code.secret = n
  <2>1. OnlyJoiner(j, session[j].code.id) /\ session[j].code.secret = n
    <3>1. CASE j \in history.verified[n]
      BY <1>1, <3>1 DEF JoinersKnown
    <3>2. ASSUME NEW c \in checks, ProofAccepted(c), c.of = n, c.session = j
          PROVE  OnlyJoiner(j, session[j].code.id) /\ session[j].code.secret = n
      <4>1. OnlyJoiner(j, c.id)
        BY <1>1, <3>2 DEF JoinersKnown
      <4>2. session[j].code.secret = n /\ session[j].code.id = c.id
        BY <3>2, <4>1 DEF ProofAccepted, ProofRight, OnlyJoiner
      <4>3. QED BY <4>1, <4>2
    <3>3. QED BY <3>1, <3>2, VerifiedMoves
  <2>2. PICK id \in Pairs : id = session[j].code.id
    <3>1. j \in Joins /\ session[j].st # "none"
      BY <2>1 DEF OnlyJoiner
    <3>2. session[j].code \in Codes
      BY <3>1 DEF Typed, PhonesTyped, NoSession
    <3>3. session[j].code.id \in Pairs
      BY <3>2 DEF Codes
    <3>4. QED BY <3>3
  <2>3. OnlyJoiner(j, id)' /\ session'[j].code = session[j].code
    BY <1>1, <2>1, <2>2, OnlyJoinerKept
  <2>4. session'[j].code.id = id
    BY <2>2, <2>3
  <2>5. QED BY <2>1, <2>3, <2>4 DEF OnlyJoiner
<1>5. QED BY <1>2, <1>3, <1>4 DEF JoinersKnown, OnlyJoiner

(* A session that knows it is accepted did, or the server tells it now. *)
Accepts(j) ==
  /\ 1 \in 1..Len(toServer) /\ toServer[1] \in ServerFrames /\ toServer[1].type = "pair.accept"
  /\ window[toServer[1].id].session = j /\ session[j].st = "joined"
Accepted(r) == \E i \in 1..Len(r.mail) : r.mail[i] = "pair.accepted"

LEMMA ToldMoves ==
  ASSUME Typed, [Next]_vars, NEW j \in Joins, Told(j)'
  PROVE  Told(j) \/ Accepts(j)
<1>1. /\ session \in [Joins -> Sessions] /\ session[j] \in Sessions /\ session[j].mail \in Seq(Mails)
      /\ session[j].storing \in BOOLEAN /\ \A i \in Joins : session[i] \in Sessions
  BY DEF Typed, PhonesTyped, Sessions
<1>2. Accepted(session'[j]) \/ session'[j].storing \/ j \in stored'
  BY DEF Told, Accepted
<1>3. ASSUME NEW r \in Sessions, session'[j] = r, stored' = stored,
             Accepted(r) => Accepted(session[j]) \/ Accepts(j),
             r.storing => session[j].storing \/ Accepted(session[j])
      PROVE  Told(j) \/ Accepts(j)
  BY <1>2, <1>3 DEF Told, Accepted
<1>4. CASE session'[j] = session[j] /\ stored' = stored
  BY <1>1, <1>3, <1>4
<1>5. ASSUME NEW m \in Mails, m = "pair.accepted" => Accepts(j), stored' = stored,
             session'[j] = [session[j] EXCEPT !.mail = Append(@, m)]
      PROVE  Told(j) \/ Accepts(j)
  <2> DEFINE r == [session[j] EXCEPT !.mail = Append(@, m)]
  <2>1. r \in Sessions /\ r.storing = session[j].storing /\ r.mail = Append(session[j].mail, m)
    BY <1>1, MailType
  <2>2. session'[j] = r
    BY <1>5
  <2> HIDE DEF r
  <2>3. \A i \in 1..Len(r.mail) :
          (i \in 1..Len(session[j].mail) /\ r.mail[i] = session[j].mail[i]) \/ r.mail[i] = m
    BY <1>1, <2>1, AppendShape
  <2>4. Accepted(r) => Accepted(session[j]) \/ m = "pair.accepted"
    BY <2>3 DEF Accepted
  <2>5. QED BY <1>3, <1>5, <2>1, <2>2, <2>4
<1>6. CASE ServerReceives
  <2>1. PICK f \in ServerFrames :
          /\ f = toServer[1] /\ 1 \in 1..Len(toServer)
          /\ IF f.type = "pair.create" THEN onPairCreate(f.id)
                                       ELSE decidePairing(f.id, f.type = "pair.accept")
    BY <1>6, TailShape DEF ServerReceives, Typed, FramesTyped
  <2>2. stored' = stored /\ window[f.id].session \in Joins \cup {0}
    BY <1>6 DEF ServerReceives, ServerFrames, Typed, PhonesTyped, Windows
  <2>3. CASE session' = session
    BY <1>4, <2>2, <2>3
  <2>4. CASE f.type # "pair.create" /\ session' # session
    <3>1. PICK m \in Mails : m = IF f.type = "pair.accept" THEN "pair.accepted" ELSE "pair.rejected"
      BY DEF Mails
    <3>2. Tells(window[f.id].session, m)
      BY <2>1, <2>4, <3>1 DEF decidePairing
    <3>3. \/ session'[j] = session[j]
          \/ /\ j = window[f.id].session /\ session[j].st = "joined"
             /\ session'[j] = [session[j] EXCEPT !.mail = Append(@, m)]
      BY <1>1, <2>2, <3>2, TellsType
    <3>4. CASE session'[j] = session[j]
      BY <1>4, <2>2, <3>4
    <3>5. CASE /\ j = window[f.id].session /\ session[j].st = "joined"
               /\ session'[j] = [session[j] EXCEPT !.mail = Append(@, m)]
      <4>1. m = "pair.accepted" => Accepts(j)
        BY <2>1, <3>1, <3>5 DEF Accepts
      <4>2. QED BY <1>5, <2>2, <3>5, <4>1
    <3>6. QED BY <3>3, <3>4, <3>5
  <2>5. QED BY <2>1, <2>3, <2>4 DEF onPairCreate
<1>7. CASE LinkLost
  <2>1. "pair.rejected" \in Mails /\ "pair.rejected" # "pair.accepted"
    BY DEF Mails
  <2>2. stored' = stored
    BY <1>7 DEF LinkLost
  <2>3. \/ session'[j] = session[j]
        \/ session'[j] = [session[j] EXCEPT !.mail = Append(@, "pair.rejected")]
    BY <1>7 DEF LinkLost
  <2>4. QED BY <1>4, <1>5, <2>1, <2>2, <2>3
<1>8. ASSUME NEW i \in Joins, PhoneSteps(i)
      PROVE  Told(j) \/ Accepts(j)
  <2>1. CASE i # j
    <3>1. session'[j] = session[j] /\ (j \in stored' => j \in stored)
      BY <1>1, <1>8, <2>1 DEF PhoneSteps, Scan, Join, PhoneReceives, storeDesktop, SocketGone
    <3>2. QED BY <1>2, <3>1 DEF Told, Accepted
  <2>2. CASE (\E p \in Phones : Scan(j, p)) /\ i = j
    <3>1. PICK p : Scan(j, p)
      BY <2>2
    <3>2. PICK code : session' = [session EXCEPT
                        ![j] = [NoSession EXCEPT !.st = "opening", !.phone = p, !.code = code]]
      BY <3>1 DEF Scan
    <3>3. session'[j].mail = <<>> /\ ~session'[j].storing
      BY <1>1, <3>2 DEF NoSession
    <3>4. stored' = stored
      BY <3>1 DEF Scan
    <3>5. QED BY <1>2, <3>3, <3>4 DEF Told, Accepted
  <2>3. CASE Join(j) /\ i = j
    <3>1. \/ session'[j] = [session[j] EXCEPT !.st = "joined"]
          \/ session'[j] = [session[j] EXCEPT !.st = "joined", !.mail = <<"pair.rejected">>]
      BY <1>1, <2>3 DEF Join
    <3>2. /\ session'[j].storing = session[j].storing
          /\ session'[j].mail = session[j].mail \/ session'[j].mail = <<"pair.rejected">>
      BY <1>1, <3>1 DEF Sessions
    <3>3. stored' = stored
      BY <2>3 DEF Join
    <3>4. ~\E n \in 1..Len(<<"pair.rejected">>) : <<"pair.rejected">>[n] = "pair.accepted"
      OBVIOUS
    <3>5. QED BY <1>2, <3>2, <3>3, <3>4 DEF Told, Accepted
  <2>4. CASE PhoneReceives(j) /\ i = j
    <3> DEFINE st2 == IF Head(session[j].mail) = "pair.rejected" THEN "settled" ELSE session[j].st
               storing2 == session[j].storing \/ Head(session[j].mail) = "pair.accepted"
               r == [session[j] EXCEPT !.mail = Tail(@), !.st = st2, !.storing = storing2]
    <3>1. session'[j] = r /\ stored' = stored
      BY <1>1, <2>4 DEF PhoneReceives
    <3>2. /\ \A n \in 1..Len(Tail(session[j].mail)) :
               Tail(session[j].mail)[n] = session[j].mail[n + 1] /\ n + 1 \in 1..Len(session[j].mail)
          /\ Head(session[j].mail) = session[j].mail[1] /\ 1 \in 1..Len(session[j].mail)
      BY <1>1, <2>4, TailShape DEF PhoneReceives
    <3>3. r.mail = Tail(session[j].mail) /\ r.storing = storing2
      <4> HIDE DEF st2, storing2
      <4>1. QED BY <1>1 DEF Sessions
    <3>4. storing2 => session[j].storing \/ Accepted(session[j])
      BY <3>2 DEF Accepted
    <3> HIDE DEF r, storing2
    <3>5. Accepted(r) => Accepted(session[j])
      BY <3>2, <3>3 DEF Accepted
    <3>6. QED BY <1>2, <3>1, <3>3, <3>4, <3>5 DEF Told, Accepted
  <2>5. CASE storeDesktop(j) /\ i = j
    BY <2>5 DEF storeDesktop, Told
  <2>6. CASE SocketGone(j) /\ i = j
    <3>1. session'[j] = [session[j] EXCEPT !.st = "gone", !.mail = <<>>] /\ stored' = stored
      BY <1>1, <2>6 DEF SocketGone
    <3>2. session'[j].mail = <<>> /\ session'[j].storing = session[j].storing
      BY <1>1, <3>1 DEF Sessions
    <3>3. QED BY <1>2, <3>1, <3>2 DEF Told, Accepted
  <2>7. QED BY <1>8, <2>1, <2>2, <2>3, <2>4, <2>5, <2>6 DEF PhoneSteps
<1>9. QED BY <1>4, <1>6, <1>7, <1>8
          DEF Next, vars, pairStart, pairCancel, Saved, Unconfirmed5s, Lapses, revoke, DesktopReceives,
              LinkBack, ProofRefused, ProofAccepted, phones

LEMMA TellsProvenStep ==
  ASSUME Typed, MutualInv, [Next]_vars
  PROVE  TellsProven'
<1>1. /\ WindowsKnown /\ CreatesNew /\ JoinersKnown /\ TellsProven
      /\ SessionsKept /\ HistoryGrows /\ history \in Histories /\ history' \in Histories
      /\ toServer \in Seq(ServerFrames)
  BY NothingForgotten DEF MutualInv, Typed, FramesTyped
<1>2. ASSUME NEW f \in ServerFrames, AcceptProven(f)
      PROVE  AcceptProven(f)'
  <2>1. ASSUME NEW n \in Pairs, NEW j \in history.verified[n]
        PROVE  j \in history'.verified[n] /\ session'[j].code = session[j].code
    BY <1>1, <2>1 DEF JoinersKnown, OnlyJoiner, SessionsKept, HistoryGrows
  <2>2. QED BY <1>1, <1>2, <2>1 DEF AcceptProven, HistoryGrows
<1>3. ASSUME NEW c \in checks, ProofAccepted(c)
      PROVE  AcceptProven(Accept(c.id))'
  <2>1. OnlyJoiner(c.session, c.id) /\ c.of \in Pairs
    BY <1>1, CheckedArePairs DEF JoinersKnown, Typed, DesktopTyped
  <2>2. c.session \in history'.verified[c.of]
    BY <1>1, <1>3, <2>1 DEF ProofAccepted, Histories
  <2>3. session'[c.session].code.id = c.id
    BY <1>1, <2>1 DEF OnlyJoiner, SessionsKept
  <2>4. QED BY <2>1, <2>2, <2>3 DEF AcceptProven, Accept
<1>4. ASSUME NEW i \in 1..Len(toServer'), NEW f, f = toServer'[i]
      PROVE  AcceptProven(f)'
  <2>1. ASSUME NEW k \in 1..Len(toServer), f = toServer[k]
        PROVE  AcceptProven(f)'
    <3>1. f \in ServerFrames /\ AcceptProven(f)
      BY <1>1, <2>1 DEF TellsProven
    <3>2. QED BY <1>2, <3>1
  <2>2. CASE toServer' = toServer \/ toServer' = <<>>
    BY <1>4, <2>1, <2>2
  <2>3. CASE toServer # <<>> /\ toServer' = Tail(toServer)
    BY <1>1, <1>4, <2>1, <2>3, TailShape
  <2>4. ASSUME NEW g \in ServerFrames, toServer' = Append(toServer, g), AcceptProven(g)'
        PROVE  AcceptProven(f)'
    <3>1. (\E k \in 1..Len(toServer) : f = toServer[k]) \/ f = g
      BY <1>1, <1>4, <2>4, AppendShape
    <3>2. QED BY <2>1, <2>4, <3>1
  <2>5. ASSUME NEW n \in Pairs
        PROVE  /\ Create(n) \in ServerFrames /\ AcceptProven(Create(n))'
               /\ Reject(n) \in ServerFrames /\ AcceptProven(Reject(n))'
               /\ Accept(n) \in ServerFrames
    BY DEF Create, Reject, Accept, ServerFrames, AcceptProven
  <2>6. \A c \in checks : c.id \in Pairs
    BY CheckedArePairs DEF Typed, DesktopTyped
  <2>7. ToServerMoves
    BY ServerFramesMove
  <2>8. QED BY <1>3, <2>2, <2>3, <2>4, <2>5, <2>6, <2>7 DEF ToServerMoves
<1>5. ASSUME NEW j \in Joins, Told(j)'
      PROVE  Proven(j)'
  <2>1. CASE Told(j)
    BY <1>1, <2>1, ProvenKept DEF TellsProven
  <2>2. CASE Accepts(j)
    <3>1. PICK f \in ServerFrames :
            f = toServer[1] /\ f.type = "pair.accept" /\ f.id \in Pairs /\ window[f.id].session = j
      BY <2>2 DEF Accepts, ServerFrames
    <3>2. session[j].st # "none" /\ session[j].code.id = f.id
      BY <1>1, <3>1 DEF WindowsKnown, Joins
    <3>3. f.id \in history.rejoined
            \/ \E n \in Pairs : \E i \in history.verified[n] : session[i].code.id = f.id
      BY <1>1, <2>2, <3>1 DEF TellsProven, AcceptProven, Accepts
    <3>4. ASSUME NEW n \in Pairs, NEW i \in history.verified[n], session[i].code.id = f.id
          PROVE  f.id \in history.rejoined \/ i = j
      BY <1>1, <3>1, <3>4 DEF JoinersKnown, OnlyJoiner
    <3>5. Proven(j)
      BY <3>2, <3>3, <3>4 DEF Proven
    <3>6. QED BY <3>5, ProvenKept
  <2>3. QED BY <1>5, <2>1, <2>2, ToldMoves
<1>6. QED BY <1>4, <1>5 DEF TellsProven, AcceptProven, Told, Proven

LEMMA MutualStep ==
  ASSUME Typed, MutualInv, [Next]_vars
  PROVE  MutualInv'
<1>1. WindowsKnown /\ CreatesNew
  BY DEF MutualInv
<1>2. WindowsKnown' /\ CreatesNew' /\ JoinersKnown' /\ TellsProven'
  BY <1>1, WindowsKnownStep, CreatesNewStep, JoinersKnownStep, TellsProvenStep
<1>3. QED BY <1>2 DEF MutualInv

(* A phone stores the desktop only if the desktop has accepted the proof of  *)
(* this very session, whatever joins, links and pairStarts cross; unless two *)
(* sessions joined its window (onPairJoin, decidePairing, storeDesktop).     *)
THEOREM PairingsAreMutual == Spec => []PairingIsMutual
<1>1. Init => MutualInv
  BY DEF Init, MutualInv, WindowsKnown, CreatesNew, JoinersKnown, TellsProven, Told, History, NoWindow,
         NoSession
<1>2. Typed /\ MutualInv /\ [Next]_vars => MutualInv'
  BY MutualStep
<1>3. Typed /\ MutualInv => PairingIsMutual
  <2> SUFFICES ASSUME Typed, MutualInv, NEW j \in stored
               PROVE  \/ session[j].code.id \in history.rejoined
                      \/ \E n \in Pairs : \E i \in history.verified[n] :
                           session[j].code.secret = n /\ session[i].phone = session[j].phone
    BY DEF PairingIsMutual
  <2>1. j \in Joins
    BY DEF Typed, PhonesTyped
  <2>2. Proven(j)
    BY <2>1 DEF MutualInv, TellsProven, Told
  <2>3. QED BY <2>2 DEF MutualInv, JoinersKnown, Proven
<1>4. QED BY <1>1, <1>2, <1>3, AlwaysTyped, PTL DEF Spec
=============================================================================
