-------------------------------- MODULE MCPosts --------------------------------
(***************************************************************************)
(* Instance of Posts: a user and one or two remote actors.                 *)
(***************************************************************************)
EXTENDS Posts, TLC

CONSTANTS alice, bob, carol

MCProfile == {alice, bob}
MCLocal   == {alice}
MCPostId  == 1..3

=============================================================================
