----------------------------- MODULE AtLeastOnce -----------------------------
(***************************************************************************)
(* What a job queue promises for the items put into it: an item waits until  *)
(* it has been dealt with, and nothing but that takes it out.  An item may *)
(* wait on after it was dealt with, and so be dealt with again.            *)
(* IncomingQueue implements this specification.                            *)
(***************************************************************************)
CONSTANT Item

VARIABLES
    accepted,    \* items that were ever put in
    waiting,     \* items that are in the queue
    done         \* items that were dealt with

vars == <<accepted, waiting, done>>

Init ==
    /\ accepted = {}
    /\ waiting = {}
    /\ done = {}

Accept(i) ==
    /\ i \notin accepted
    /\ accepted' = accepted \cup {i}
    /\ waiting' = waiting \cup {i}
    /\ UNCHANGED done

DealWith(i) ==
    /\ i \in waiting
    /\ done' = done \cup {i}
    /\ UNCHANGED <<accepted, waiting>>

Drop(i) ==
    /\ i \in done
    /\ waiting' = waiting \ {i}
    /\ UNCHANGED <<accepted, done>>

Next == \E i \in Item : Accept(i) \/ DealWith(i) \/ Drop(i)

Spec == Init /\ [][Next]_vars

\* Nothing that was accepted is lost before it has been dealt with.
NothingLost == accepted \ done \subseteq waiting
=============================================================================
