----------------------------- MODULE RemoteMode -----------------------------
(***************************************************************************)
(* What Remote Mode promises the user of the laptop (docs/ADR.md, ADR-005;   *)
(* docs/PRD.md, "Explicit local consent"; docs/ARCHITECTURE.md, keep-awake   *)
(* "only while Remote Mode is enabled"): it comes on only when that user     *)
(* has asked for it last; nothing that it uses is in use while it is off;    *)
(* the tab is debugged only for a session; and only a worker that died may   *)
(* leave a document for the next one to close.                               *)
(***************************************************************************)
VARIABLES
  mode,   \* "on", "off", or off with something "left" to be closed
  used,   \* what of the document, keep-awake, client, session and debugger is
          \* in use
  asked,  \* what the user asked for last: "nothing", "enable" or "stop"
  woken,  \* the worker has died and been started again while it was on
  broken  \* something has happened after which nothing is promised

pvars == <<mode, used, asked, woken, broken>>

PInit == mode = "off" /\ used = {} /\ asked = "nothing" /\ ~woken /\ ~broken

Ask ==
  /\ asked' \in {"enable", "stop"}
  /\ UNCHANGED <<mode, used, woken>>

Begin ==
  /\ mode = "off" /\ asked = "enable" /\ mode' = "on"
  /\ UNCHANGED <<used, asked, woken>>

Work ==
  /\ mode = "on" /\ mode' = "on"
  /\ "debugger" \in used' => "session" \in used'
  /\ UNCHANGED asked

End ==
  /\ mode = "on" /\ mode' = "off"
  /\ used' = {} /\ ~woken' /\ UNCHANGED asked

GiveUp ==
  /\ mode = "on" /\ woken /\ mode' = "left"
  /\ used' = {"document"} /\ ~woken' /\ UNCHANGED asked

Close ==
  /\ mode = "left" /\ mode' = "off"
  /\ used' = {} /\ UNCHANGED <<asked, woken>>

PNext ==
  \/ ~broken /\ ~broken' /\ (Ask \/ Begin \/ Work \/ End \/ GiveUp \/ Close)
  \/ broken'

PSpec == PInit /\ [][PNext]_pvars
=============================================================================
