------------------------ MODULE MCDesktopLifecycle ------------------------
(* Instances of DesktopLifecycle for TLC. *)
EXTENDS DesktopLifecycle

CONSTANTS t1, t2, t3
=============================================================================
