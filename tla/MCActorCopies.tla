---------------------------- MODULE MCActorCopies ----------------------------
(***************************************************************************)
(* Instance of ActorCopies: requests at home one after the other, a        *)
(* request and the executor away.                                          *)
(***************************************************************************)
EXTENDS ActorCopies, TLC

CONSTANTS settings, inbox, executor

MCEditor   == {settings}
MCImporter == {inbox, executor}
=============================================================================
