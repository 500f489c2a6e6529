---------------------------- MODULE ByteChannel ----------------------------
(***************************************************************************)
(* What the byte queue promises its two users, whatever the language at    *)
(* either end: a bounded channel that loses, repeats and reorders nothing, *)
(* and that reports the end of the stream once, after the last byte.       *)
(***************************************************************************)
EXTENDS Integers

CONSTANT Capacity

VARIABLES
  sent,       \* bytes the producer has published
  delivered,  \* bytes handed to the consumer's caller
  closed,     \* the producer has finished
  ended       \* the consumer has been told so

chanVars == <<sent, delivered, closed, ended>>

Init ==
  /\ sent = 0 /\ delivered = 0
  /\ closed = FALSE /\ ended = FALSE

(* Bytes are published in order, never more than Capacity ahead. *)
Send ==
  /\ ~closed
  /\ sent' > sent
  /\ sent' <= delivered + Capacity
  /\ UNCHANGED <<delivered, closed, ended>>

(* The next bytes of the stream are delivered. *)
Deliver ==
  /\ ~ended
  /\ delivered' > delivered
  /\ delivered' <= sent
  /\ UNCHANGED <<sent, closed, ended>>

Close ==
  /\ closed' = TRUE
  /\ UNCHANGED <<sent, delivered, ended>>

(* The end is reported only when everything published was delivered. *)
End ==
  /\ closed
  /\ delivered = sent
  /\ ended' = TRUE
  /\ UNCHANGED <<sent, delivered, closed>>

Next == Send \/ Deliver \/ Close \/ End

Spec == Init /\ [][Next]_chanVars
=============================================================================
