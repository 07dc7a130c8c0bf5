------------------------------- MODULE MCMentions -------------------------------
(***************************************************************************)
(* Instance of Mentions: a user, a movie account and a remote actor.       *)
(***************************************************************************)
EXTENDS Mentions, TLC

CONSTANTS alice, movie, bob

MCProfile == {alice, movie, bob}
MCLocal   == {alice, movie}
MCWriters == {alice, bob}
MCMovies  == {movie}

=============================================================================
