--------------------------- MODULE MCOutgoingQueue ---------------------------
(***************************************************************************)
(* Instance of OutgoingQueue: a note of one user for two remote actors,    *)
(* and the Delete(Person) of another user for one of these.                *)
(***************************************************************************)
EXTENDS OutgoingQueue, TLC

CONSTANTS note, farewell, u1, u2, r1, r2

MCActivity   == {note, farewell}
MCFarewell   == {farewell}
MCSender     == note :> u1 @@ farewell :> u2
MCRecipients == note :> {r1, r2} @@ farewell :> {r1}
=============================================================================
