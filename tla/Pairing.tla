------------------------------- MODULE Pairing -------------------------------
(***************************************************************************)
(* Pairing by QR code, from the button of the popup to the two lists of      *)
(* paired devices: PairingManager and PairedDeviceStore on the desktop, the  *)
(* pairStart and pairCancel requests with `pairPayloadWaiter' around them,   *)
(* the pairing window of the server, and the PairingSession of each phone.   *)
(*                                                                           *)
(* A create() draws one secret, written as its number; the server names the  *)
(* window it opens for it by the same number.  A code is what the QR shows:  *)
(* a secret, the id of a window and whether the server's origin is in it.    *)
(* Frames keep their order between the desktop and the server, and are lost  *)
(* with the link.                                                            *)
(*                                                                           *)
(* The phone refuses a code without the origin.  create() leaves it open     *)
(* ("filled once the server confirms") and nothing fills it, so FillsOrigin  *)
(* is FALSE of the code as it stands and no phone can use what the popup     *)
(* shows.  With TRUE the origin is there, as in the tests of the phone, and  *)
(* what comes after the scan can be seen.                                    *)
(***************************************************************************)
EXTENDS Integers, Sequences, FiniteSets

CONSTANTS
  Phones,
  FillsOrigin, \* onPairCreated puts the server's origin into the payload
  MaxCreates,  \* bound: pairStart requests
  MaxJoins     \* bound: PairingSessions

ASSUME OriginAssumption == FillsOrigin \in BOOLEAN
ASSUME CreatesAssumption == MaxCreates \in Nat
ASSUME JoinsAssumption == MaxJoins \in Nat

Pairs == 1..MaxCreates
Joins == 1..MaxJoins

VARIABLES
  pending,     \* `pending': its secret, 0 for null
  pairId,      \* `payload.pairId' of each pending pairing, 0 for the placeholder
  checks,      \* onPairJoin: joins that are being verified
  paired,      \* the stored list: what it says of each phone
  saves,       \* upsert, revoke: lists that are about to be written
  made,        \* number of the last pairStart
  asked,       \* what the popup knows of each pairStart
  waiter,      \* `pairPayloadWaiter': a pairStart, 0 for null
  timers,      \* pairStarts whose five seconds run
  codes,       \* codes that the popup has shown
  link,        \* the desktop is online
  toServer, toDesktop,
  window,      \* the server's pairings
  lapsed,      \* pairings whose time is over
  session,     \* PairingSession: one for each code that is scanned
  stored,      \* sessions that have stored the desktop
  history      \* see History

desktop == <<pending, pairId, checks>>
list == <<paired, saves>>
popup == <<made, asked, waiter, timers, codes>>
frames == <<toServer, toDesktop>>
phones == <<session, stored>>
vars == <<desktop, list, popup, link, frames, window, lapsed, phones, history>>

Codes == [secret : Pairs \cup {0}, id : Pairs, origin : BOOLEAN]
NoCodeYet == [secret |-> 0, id |-> 0, origin |-> FALSE]
NoSession == [st |-> "none", phone |-> "none", code |-> NoCodeYet, mail |-> <<>>, storing |-> FALSE]
NoWindow == [state |-> "none", session |-> 0]
OpenStates == {"CREATED", "JOINED"}

(* verified: the sessions whose proof the desktop has accepted, by secret;   *)
(* contested: secrets of which two proofs were verified at once; gone:       *)
(* secrets that were used, cancelled, replaced or found to have run out;     *)
(* late: of each of them, the sessions whose proof was being verified just   *)
(* then; rejoined: windows that a second session joined; crossed: a create   *)
(* was sent before the last one was confirmed; disturbed: pairStarts that    *)
(* met another one's start, timer or cancellation; overlapped: a list was    *)
(* read while another was about to be written; wish: what the user last      *)
(* wanted of each phone.                                                     *)
History ==
  [verified |-> [n \in Pairs |-> {}], contested |-> {}, gone |-> {},
   late |-> [n \in Pairs |-> {}], rejoined |-> {}, crossed |-> FALSE, disturbed |-> {},
   overlapped |-> FALSE, wish |-> [p \in Phones |-> "unknown"]]

Init ==
  /\ pending = 0 /\ pairId = [n \in Pairs |-> 0] /\ checks = {}
  /\ paired = [p \in Phones |-> "unknown"] /\ saves = {}
  /\ made = 0 /\ asked = [n \in Pairs |-> "no"] /\ waiter = 0 /\ timers = {} /\ codes = {}
  /\ link = TRUE /\ toServer = <<>> /\ toDesktop = <<>>
  /\ window = [n \in Pairs |-> NoWindow] /\ lapsed = {}
  /\ session = [j \in Joins |-> NoSession] /\ stored = {}
  /\ history = History
-----------------------------------------------------------------------------
Sent(type, n) == IF link THEN Append(toServer, [type |-> type, id |-> n]) ELSE toServer
Waiting == {n \in Pairs : asked[n] = "waiting"}
Unconfirmed ==
  (\E i \in DOMAIN toServer : toServer[i].type = "pair.create")
    \/ \E i \in DOMAIN toDesktop : toDesktop[i].type = "pair.created"
Checked == {c.of : c \in checks}

(* The history once the pending secret, if any, is gone.                     *)
PendingGone ==
  IF pending \in history.gone \cup {0} THEN history
  ELSE [history EXCEPT !.gone = @ \cup {pending},
                       !.late[pending] = {c.session : c \in {d \in checks : d.of = pending}}]
-----------------------------------------------------------------------------
(* The popup's requests (background.ts).                                     *)

pairStart ==
  /\ link /\ made < MaxCreates
  /\ made' = made + 1 /\ pending' = made + 1
  /\ asked' = [asked EXCEPT ![made + 1] = "waiting"]
  /\ waiter' = made + 1 /\ timers' = timers \cup {made + 1}
  /\ toServer' = Sent("pair.create", made + 1)
  /\ history' = [PendingGone EXCEPT !.crossed = @ \/ Unconfirmed, !.disturbed = @ \cup Waiting]
  /\ UNCHANGED <<pairId, checks, list, codes, link, toDesktop, window, lapsed, phones>>

pairCancel ==
  /\ pending' = 0 /\ waiter' = 0
  /\ history' = [PendingGone EXCEPT !.disturbed = @ \cup Waiting]
  /\ UNCHANGED <<pairId, checks, list, made, asked, timers, codes, link, frames, window, lapsed,
                 phones>>

(* Five seconds without a confirmation: whoever waits does so no longer.     *)
Unconfirmed5s(n) ==
  /\ n \in timers /\ timers' = timers \ {n}
  /\ IF waiter = 0
     THEN UNCHANGED <<asked, waiter, history>>
     ELSE /\ waiter' = 0 /\ asked' = [asked EXCEPT ![n] = "answered"]
          /\ history' = [history EXCEPT !.disturbed = @ \cup ({waiter} \ {n})]
  /\ UNCHANGED <<desktop, list, made, codes, link, frames, window, lapsed, phones>>

(* revokeDevice, as far as the list goes.                                    *)
Saves(p, status) ==
  /\ saves' = saves \cup {[paired EXCEPT ![p] = status]}
  /\ history' = [history EXCEPT !.wish[p] = status, !.overlapped = @ \/ saves # {}]

revoke(p) ==
  /\ paired[p] = "active" /\ Saves(p, "revoked")
  /\ UNCHANGED <<desktop, paired, popup, link, frames, window, lapsed, phones>>

Saved ==
  /\ \E l \in saves : paired' = l /\ saves' = saves \ {l}
  /\ UNCHANGED <<desktop, popup, link, frames, window, lapsed, phones, history>>
-----------------------------------------------------------------------------
(* Frames for the desktop (handleSignalingFrame, PairingManager).            *)

(* mutant: the code is encoded before it has the id *)
CodeEarly(id) == [secret |-> pending, id |-> pairId[pending], origin |-> FillsOrigin]
Code(id) == [secret |-> pending, id |-> id, origin |-> FillsOrigin]

(* mutant: whoever waits is forgotten although there is no code *)
NoCodeForgets == waiter' = 0 /\ UNCHANGED <<pairId, asked, codes>>
NoCode == UNCHANGED <<pairId, asked, waiter, codes>>

onPairCreated(id) ==
  /\ IF pending = 0
     THEN NoCode
     ELSE /\ pairId' = [pairId EXCEPT ![pending] = id]
          /\ IF waiter = 0
             THEN UNCHANGED <<asked, waiter, codes>>
             ELSE /\ asked' = [asked EXCEPT ![waiter] = "answered"] /\ waiter' = 0
                  /\ codes' = codes \cup {Code(id)}
  /\ UNCHANGED <<pending, checks, toServer, history>>

(* The answer to a join that comes too late or for another window takes the  *)
(* pending pairing with it.                                                  *)
onPairJoin(j, id) ==
  /\ IF pending = 0
     THEN UNCHANGED <<pending, checks, toServer, history>>
     ELSE IF id \in lapsed \/ pairId[pending] # id
          THEN /\ pending' = 0 /\ toServer' = Sent("pair.reject", id)
               /\ history' = PendingGone
               /\ UNCHANGED checks
          ELSE /\ checks' = checks \cup {[session |-> j, of |-> pending, id |-> id]}
               /\ history' = [history EXCEPT
                    !.contested = IF pending \in Checked THEN @ \cup {pending} ELSE @]
               /\ UNCHANGED <<pending, toServer>>
  /\ UNCHANGED <<pairId, asked, waiter, codes>>

DesktopReceives ==
  /\ toDesktop # <<>> /\ toDesktop' = Tail(toDesktop)
  /\ LET f == Head(toDesktop)
     IN IF f.type = "pair.created" THEN onPairCreated(f.id) ELSE onPairJoin(f.session, f.id)
  /\ UNCHANGED <<list, made, timers, link, window, lapsed, phones>>

(* The rest of onPairJoin, after its awaits.                                 *)
(* mutant: the verification is not awaited, and a promise counts as true *)
ProofPromised(c) == TRUE
ProofRight(c) ==
  session[c.session].code.secret = c.of /\ session[c.session].code.id = pairId[c.of]

ProofRefused(c) ==
  /\ c \in checks /\ ~ProofRight(c)
  /\ checks' = checks \ {c} /\ toServer' = Sent("pair.reject", c.id)
  /\ UNCHANGED <<pending, pairId, list, popup, link, toDesktop, window, lapsed, phones, history>>

(* mutant: the secret stays until the list has been written *)
consumeLate(c) == pending' = pending
consume(c) == pending' = 0

(* mutant: the mark of the revocation is kept *)
upsertKeeps(p) == IF paired[p] = "revoked" THEN "revoked" ELSE "active"
upsert(p) == "active"

ProofAccepted(c) ==
  LET p == session[c.session].phone
  IN /\ c \in checks /\ ProofRight(c)
     /\ checks' = checks \ {c} /\ consume(c)
     /\ toServer' = Sent("pair.accept", c.id)
     /\ saves' = saves \cup {[paired EXCEPT ![p] = upsert(p)]}
     /\ history' = [PendingGone EXCEPT
          !.verified[c.of] = @ \cup {c.session}, !.wish[p] = "active",
          !.overlapped = @ \/ saves # {}]
     /\ UNCHANGED <<pairId, paired, popup, link, toDesktop, window, lapsed, phones>>
-----------------------------------------------------------------------------
(* The server (router.ts; SignalingServer has all of it).                    *)

Tells(j, type) ==
  session' = IF j # 0 /\ session[j].st = "joined"
             THEN [session EXCEPT ![j].mail = Append(@, type)]
             ELSE session

onPairCreate(n) ==
  /\ window' = [m \in Pairs |->
       IF m = n THEN [state |-> "CREATED", session |-> 0]
       ELSE IF window[m].state \in OpenStates THEN [window[m] EXCEPT !.state = "CANCELLED"]
       ELSE window[m]]
  /\ toDesktop' = Append(toDesktop, [type |-> "pair.created", id |-> n, session |-> 0])
  /\ UNCHANGED session

decidePairing(id, accept) ==
  /\ IF window[id].state = "JOINED"
     THEN /\ window' = [window EXCEPT ![id].state = IF accept THEN "CONSUMED" ELSE "REJECTED"]
          /\ Tells(window[id].session, IF accept THEN "pair.accepted" ELSE "pair.rejected")
     ELSE UNCHANGED <<window, session>>
  /\ UNCHANGED toDesktop

ServerReceives ==
  /\ toServer # <<>> /\ toServer' = Tail(toServer)
  /\ LET f == Head(toServer)
     IN IF f.type = "pair.create" THEN onPairCreate(f.id)
                                  ELSE decidePairing(f.id, f.type = "pair.accept")
  /\ UNCHANGED <<desktop, list, popup, link, lapsed, stored, history>>

LinkLost ==
  /\ link /\ link' = FALSE /\ toServer' = <<>> /\ toDesktop' = <<>>
  /\ window' = [n \in Pairs |->
       IF window[n].state \in OpenStates THEN [window[n] EXCEPT !.state = "CANCELLED"] ELSE window[n]]
  /\ session' = [j \in Joins |->
       IF session[j].st = "joined"
            /\ \E n \in Pairs : window[n].state = "JOINED" /\ window[n].session = j
       THEN [session[j] EXCEPT !.mail = Append(@, "pair.rejected")] ELSE session[j]]
  /\ UNCHANGED <<desktop, list, popup, lapsed, stored, history>>

LinkBack ==
  /\ ~link /\ link' = TRUE
  /\ UNCHANGED <<desktop, list, popup, frames, window, lapsed, phones, history>>

Lapses(n) ==
  /\ window[n].state # "none" /\ n \notin lapsed /\ lapsed' = lapsed \cup {n}
  /\ UNCHANGED <<desktop, list, popup, link, frames, window, phones, history>>
-----------------------------------------------------------------------------
(* PairingSession.  Whoever knows a window may also join it without having   *)
(* seen its secret.                                                          *)

(* decodePairingPayload *)
Readable(code) == code.origin
Unseen == {[secret |-> 0, id |-> c.id, origin |-> TRUE] : c \in codes}

(* pairWith *)
Scan(j, p) ==
  /\ session[j].st = "none" /\ \A i \in 1..(j - 1) : session[i].st # "none"
  /\ \E code \in codes \cup Unseen :
       /\ Readable(code)
       /\ session' = [session EXCEPT ![j] = [NoSession EXCEPT !.st = "opening", !.phone = p, !.code = code]]
  /\ UNCHANGED <<desktop, list, popup, link, frames, window, lapsed, stored, history>>

(* hello.ok, buildPairJoin and what the server makes of the join.            *)
Join(j) ==
  LET id == session[j].code.id
  IN /\ session[j].st = "opening"
     /\ IF window[id].state \in OpenStates /\ id \notin lapsed
        THEN /\ window' = [window EXCEPT ![id] = [state |-> "JOINED", session |-> j]]
             /\ toDesktop' = Append(toDesktop, [type |-> "pair.join", id |-> id, session |-> j])
             /\ session' = [session EXCEPT ![j].st = "joined"]
             /\ history' = [history EXCEPT
                  !.rejoined = IF window[id].state = "JOINED" THEN @ \cup {id} ELSE @]
        ELSE /\ window' = [window EXCEPT ![id].state = IF @ \in OpenStates THEN "EXPIRED" ELSE @]
             /\ session' = [session EXCEPT ![j].st = "joined", ![j].mail = <<"pair.rejected">>]
             /\ UNCHANGED <<toDesktop, history>>
     /\ UNCHANGED <<desktop, list, popup, link, toServer, lapsed, stored>>

PhoneReceives(j) ==
  /\ session[j].st = "joined" /\ session[j].mail # <<>>
  /\ session' = [session EXCEPT
       ![j].mail = Tail(@),
       ![j].st = IF Head(session[j].mail) = "pair.rejected" THEN "settled" ELSE @,
       ![j].storing = @ \/ Head(session[j].mail) = "pair.accepted"]
  /\ UNCHANGED <<desktop, list, popup, link, frames, window, lapsed, stored, history>>

(* validateAcceptedDesktop and storeDesktop end, even when the session was   *)
(* settled meanwhile.                                                        *)
storeDesktop(j) ==
  /\ session[j].storing /\ stored' = stored \cup {j}
  /\ session' = [session EXCEPT ![j].storing = FALSE, ![j].st = "settled"]
  /\ UNCHANGED <<desktop, list, popup, link, frames, window, lapsed, history>>

(* The socket dies: with an error, which settles, or silently, which nothing *)
(* handles.                                                                  *)
SocketGone(j) ==
  /\ session[j].st \in {"opening", "joined"}
  /\ session' = [session EXCEPT ![j].st = "gone", ![j].mail = <<>>]
  /\ window' = [n \in Pairs |->
       IF window[n] = [state |-> "JOINED", session |-> j]
       THEN [window[n] EXCEPT !.state = "CANCELLED"] ELSE window[n]]
  /\ UNCHANGED <<desktop, list, popup, link, frames, lapsed, stored, history>>
-----------------------------------------------------------------------------
PhoneSteps(j) ==
  (\E p \in Phones : Scan(j, p)) \/ Join(j) \/ PhoneReceives(j) \/ storeDesktop(j) \/ SocketGone(j)

Next ==
  \/ pairStart \/ pairCancel \/ Saved
  \/ \E n \in Pairs : Unconfirmed5s(n) \/ Lapses(n)
  \/ \E p \in Phones : revoke(p)
  \/ DesktopReceives \/ ServerReceives \/ LinkLost \/ LinkBack
  \/ \E c \in checks : ProofRefused(c) \/ ProofAccepted(c)
  \/ \E j \in Joins : PhoneSteps(j)

Spec == Init /\ [][Next]_vars
-----------------------------------------------------------------------------
(* Properties                                                                *)

TypeOK ==
  /\ pending \in Pairs \cup {0} /\ pairId \in [Pairs -> Pairs \cup {0}]
  /\ \A c \in checks : c.session \in Joins /\ c.of \in Pairs /\ c.id \in Pairs
  /\ paired \in [Phones -> {"unknown", "active", "revoked"}]
  /\ saves \subseteq [Phones -> {"unknown", "active", "revoked"}]
  /\ waiter \in Pairs \cup {0} /\ timers \subseteq Pairs /\ codes \subseteq Codes
  /\ asked \in [Pairs -> {"no", "waiting", "answered"}]
  /\ \A n \in Pairs : window[n].session \in Joins \cup {0}
  /\ \A j \in Joins : session[j].st \in {"none", "opening", "joined", "settled", "gone"}

(* "Consume: a used secret never verifies again": no join that comes after   *)
(* its secret was used, cancelled, replaced or found to have run out is ever *)
(* accepted; onPairJoin looks at `pending' only before its awaits, so those  *)
(* that were being verified at that moment still may be, although "Cancel:   *)
(* destroy the secret" says otherwise.  A secret pairs one session at most,  *)
(* unless two proofs of it were being verified at once.                      *)
SecretIsSpentOnce ==
  \A n \in Pairs :
    /\ history.verified[n] \subseteq history.late[n]
    /\ n \notin history.contested => Cardinality(history.verified[n]) <= 1

(* A phone that has stored the desktop has proved to it that it saw the      *)
(* code, unless two sessions have joined the window: the server tells the    *)
(* last of them, whichever the desktop has accepted.                         *)
PairingIsMutual ==
  \A j \in stored :
    \/ session[j].code.id \in history.rejoined
    \/ \E n \in Pairs : \E i \in history.verified[n] :
         session[j].code.secret = n /\ session[i].phone = session[j].phone

(* A popup that waits for its code is the one that will be told, with its    *)
(* timer running; and the code it gets is one the server and the manager     *)
(* agree on.  The exceptions are starts and cancellations that cross.        *)
StartIsAnswered ==
  /\ \A n \in Waiting \ history.disturbed : waiter = n /\ n \in timers
  /\ ~history.crossed => \A code \in codes : code.secret = code.id

(* The list says of each phone what the user last wanted, revocations        *)
(* included, unless one update of it was read while another was about to be  *)
(* written.                                                                  *)
StoreFollowsWishes == saves = {} /\ ~history.overlapped => paired = history.wish

(* The origin is "filled once the server confirms" (create): a code that the *)
(* popup shows is one that decodePairingPayload of the phone accepts, or     *)
(* nobody can pair.                                                          *)
CodesAreReadable == \A code \in codes : Readable(code)
=============================================================================
