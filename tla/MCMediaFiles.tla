------------------------------ MODULE MCMediaFiles ------------------------------
(***************************************************************************)
(* Instance of MediaFiles: one content, that two attachments, the image   *)
(* of a profile and two emojis may share.  Files of different names do not *)
(* interfere.                                                              *)
(***************************************************************************)
EXTENDS MediaFiles, TLC

CONSTANTS f, alice, e1, e2, p1, p2, a1, a2, r1, r2

MCFile       == {f}
MCProfile    == {alice}
MCRemote     == {e1}
MCLocal      == {e2}
MCPost       == {p1, p2}
MCAttachment == {a1, a2}
MCRequest    == {r1, r2}

MCSymmetry ==
    Permutations(MCAttachment)
      \cup Permutations(MCPost) \cup Permutations(MCRequest)
=============================================================================
