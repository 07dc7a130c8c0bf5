---------------------------- MODULE MCCustomEmojis ----------------------------
(***************************************************************************)
(* Instance of CustomEmojis: two sessions work on one actor and two        *)
(* emojis of two versions.                                                 *)
(***************************************************************************)
EXTENDS CustomEmojis, TLC

Symmetric == Permutations(Session) \cup Permutations(Emoji)
=============================================================================
