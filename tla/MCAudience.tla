------------------------------- MODULE MCAudience -------------------------------
(***************************************************************************)
(* Instance of Audience: two users and a remote actor, who are the same    *)
(* but for their names.                                                    *)
(***************************************************************************)
EXTENDS Audience, TLC

CONSTANTS alice, bob, carol

MCProfile == {alice, bob, carol}
MCLocal   == {alice, bob}
Users     == Permutations(MCLocal)

=============================================================================
