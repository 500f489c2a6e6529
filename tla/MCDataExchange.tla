--------------------------- MODULE MCDataExchange ---------------------------
(***************************************************************************)
(* DataExchange with both operators and queues smaller than the traffic.   *)
(***************************************************************************)
EXTENDS DataExchange
=============================================================================
