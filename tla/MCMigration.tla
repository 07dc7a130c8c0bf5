----------------------------- MODULE MCMigration -----------------------------
(***************************************************************************)
(* Instance of Migration: two users and a remote actor, which may have     *)
(* been a user's old account or be the new one.                            *)
(***************************************************************************)
EXTENDS Migration, TLC

CONSTANTS alice, bob, carol

MCLocal   == {alice, bob}
MCProfile == MCLocal \cup {carol}

MCSameDid == {<<u, carol>> : u \in MCLocal}
MCKnownAs == {<<carol, u>> : u \in MCLocal}

UserSymmetry == Permutations(MCLocal)
=============================================================================
