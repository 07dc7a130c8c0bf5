--------------------------- MODULE MCIncomingQueue ---------------------------
(***************************************************************************)
(* Instance of IncomingQueue: two activities and a batch of two.  An abort *)
(* in the middle of a retry leaves three rows or more to choose from, so   *)
(* the batch limit matters.                                                *)
(***************************************************************************)
EXTENDS IncomingQueue

CONSTANTS a1, a2

MCActivity == {a1, a2}
=============================================================================
