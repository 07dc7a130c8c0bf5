------------------------------- MODULE MCAccounts -------------------------------
(***************************************************************************)
(* Instance of Accounts: jo_0 is a movie that a user may ask for as jo_0   *)
(* or, by the beginning of its title, as jo; Jo_0 differs in the case, and *)
(* the pattern jo_0 also matches jox0.                                     *)
(***************************************************************************)
EXTENDS Accounts, TLC

CONSTANTS jo, jo_0, Jo_0, jox0, c1, c2, r1, r2

MCName       == {jo, jo_0, Jo_0, jox0}
MCLower      == [n \in MCName |-> IF n = Jo_0 THEN jo_0 ELSE n]
MCLike       == {<<m, n>> \in MCName \X MCName :
                   MCLower[m] = MCLower[n] \/ (n \in {jo_0, Jo_0} /\ m = jox0)}
MCTitle      == [n \in MCName |-> IF n \in {jo, jo_0} THEN jo_0 ELSE None]
MCInviteCode == {c1, c2}
MCRequest    == {r1, r2}
MCSlot       == {1}

MCSymmetry == Permutations(MCInviteCode) \cup Permutations(MCRequest)
=============================================================================
