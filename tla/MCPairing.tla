------------------------------ MODULE MCPairing ------------------------------
(* Instance of Pairing for TLC: phones are interchangeable.  The view leaves *)
(* out what no step and no property asks for any more: timers when no        *)
(* pairStart can be waiting, the age of windows that are closed, what the    *)
(* user wished once updates have overlapped.                                 *)
EXTENDS Pairing, TLC

CONSTANTS phoneA, phoneB

TwoPhones == {phoneA, phoneB}
Symmetry == Permutations(TwoPhones)

Ages(n) ==
  \/ window[n].state \in OpenStates
  \/ pending # 0 /\ pairId[pending] = n
  \/ \E i \in DOMAIN toDesktop : toDesktop[i].id = n
View ==
  <<desktop, list, made, asked, waiter, codes, link, frames, window, phones,
    IF waiter = 0 /\ made = MaxCreates THEN {} ELSE timers,
    {n \in lapsed : Ages(n)},
    [history EXCEPT !.disturbed = @ \cap Waiting,
                    !.wish = IF history.overlapped THEN <<>> ELSE @]>>
=============================================================================
