--------------------------- MODULE MCNotification ---------------------------
EXTENDS Notification, TLC

CONSTANTS s1, s2, kl, al, sd, se, mt, k1, k2

OneKey == [l \in KeyListener |-> {k1}]
TwoKeys == [l \in KeyListener |-> {k1, k2}]
(* Two threads that send are interchangeable. *)
Interchangeable == Permutations(Sender)
=============================================================================
