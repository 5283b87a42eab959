------------------------- MODULE MCTouchGestures -------------------------
(* An instance of TouchGestures for TLC: a viewer 300 pixels wide. *)
EXTENDS TouchGestures

(* A point, one within every slop, one past the drag slop, the far edge, the *)
(* letterbox.                                                                *)
GesturePixels == {100, 105, 120, 300, 320}
=============================================================================
