------------------------------ MODULE Migration ------------------------------
(***************************************************************************)
(* Account migration: the handler of Move(Person) (handlers/move.rs),      *)
(* which runs in the background executor and again when it has failed, and *)
(* the task that the move_followers view spawns with an uploaded list      *)
(* (mastodon_api/settings/helpers.rs), beside everything Relationships     *)
(* describes.  Both walk through a list of followers made beforehand and   *)
(* run two transactions for each: unfollow the old account, follow the     *)
(* new one.                                                                *)
(*                                                                         *)
(* One move is under way at a time.  Left out: the activities sent, the    *)
(* notification of the follower, and the import of unknown actors.  That   *)
(* unfollow returns the follow request to undo depends on the statements   *)
(* of transactions that overlap: RequestToUndo of FollowTransactions.      *)
(***************************************************************************)
EXTENDS Relationships

CONSTANTS
    SameDid,     \* <<new, old>> whose identity proofs name one DID
    KnownAs      \* <<new, old>> where new lists old in alsoKnownAs

ASSUME MigrationAssumption ==
    /\ SameDid \subseteq Pair
    /\ KnownAs \subseteq Pair

Nobody == [nobody |-> TRUE]

NoMove == [moving |-> FALSE]

VARIABLE move     \* the local variables of the move under way

\* old, new: the accounts; todo: the followers still in the list;
\* follower: the one that has been taken from old and not been given to new;
\* listed: the list was uploaded.
Move == [old : Profile, new : Profile, todo : SUBSET Profile,
         follower : Profile \cup {Nobody}, listed : BOOLEAN]

MigrationTypeOK ==
    /\ TypeOK
    /\ move \in Move \cup {NoMove}

MigrationInit ==
    /\ Init
    /\ move = NoMove

\* find_verified_aliases, and for the handler also the aliases the new account
\* reports.
MayMove(old, new, listed) ==
    \/ <<new, old>> \in SameDid /\ new # old
    \/ ~listed /\ <<new, old>> \in KnownAs

\* handle_move, up to the loop: the actor is one of the two accounts.
HandleMove(old, new) ==
    /\ move = NoMove
    /\ old \in profiles /\ new \in profiles
    /\ old \in Remote \/ new \in Remote
    /\ MayMove(old, new, FALSE)
    /\ move' = [old |-> old, new |-> new, todo |-> Followers(old),
                follower |-> Nobody, listed |-> FALSE]
    /\ UNCHANGED vars

\* The view move_followers, then the task up to the loop: a user has uploaded
\* the list, which may name anybody (remote followers are only told).
MoveFollowers(old, new) ==
    /\ move = NoMove
    /\ old \in Remote \cap profiles /\ new \in Local \cap profiles
    /\ MayMove(old, new, TRUE)
    /\ \E list \in SUBSET (Local \cap profiles) :
        move' = [old |-> old, new |-> new, todo |-> list,
                 follower |-> Nobody, listed |-> TRUE]
    /\ UNCHANGED vars

\* unfollow(follower, old): the next one of the list is a user.
MoveUnfollows ==
    /\ move # NoMove
    /\ move.follower = Nobody
    /\ \E f \in move.todo \cap Local :
        /\ UnfollowAccount(f, move.old)
        /\ move' = [move EXCEPT !.todo = @ \ {f}, !.follower = f]

\* Of an uploaded list, who does not follow the old account is passed over.
MovePassesOver ==
    /\ move # NoMove
    /\ move.listed
    /\ move.follower = Nobody
    /\ \E f \in move.todo :
        /\ <<f, move.old>> \notin follows
        /\ requests[<<f, move.old>>] = "none"
        /\ move' = [move EXCEPT !.todo = @ \ {f}]
    /\ UNCHANGED vars

\* The follower follows the new account: follow_or_create_request, or follow
\* (the new account of a list is a user) ...
MoveFollows ==
    /\ move # NoMove
    /\ move.follower # Nobody
    /\ FollowLocal(move.follower, move.new) \/ FollowRemote(move.follower, move.new)
    /\ move' = [move EXCEPT !.follower = Nobody]

\* ... or did already, or the handler meets the new account among the followers.
MoveFollowed ==
    /\ move # NoMove
    /\ move.follower # Nobody
    /\ \/ move.follower = move.new /\ ~move.listed
       \/ <<move.follower, move.new>> \in follows /\ move.new \in Local
       \/ requests[<<move.follower, move.new>>] # "none" /\ move.new \in Remote
    /\ move' = [move EXCEPT !.follower = Nobody]
    /\ UNCHANGED vars

\* The end of the list.
MoveEnds ==
    /\ move # NoMove
    /\ move.follower = Nobody /\ move.todo = {}
    /\ move' = NoMove
    /\ UNCHANGED vars

\* A follower that is not a user or does not follow any more (handler), the
\* new account in its own list, an account that is gone, or an interruption.
MoveFails ==
    /\ move # NoMove
    /\ move' = NoMove
    /\ UNCHANGED vars

-----------------------------------------------------------------------------
MigrationNext ==
    \/ Next /\ UNCHANGED move
    \/ \E p, q \in Profile : HandleMove(p, q) \/ MoveFollowers(p, q)
    \/ MoveUnfollows
    \/ MovePassesOver
    \/ MoveFollows
    \/ MoveFollowed
    \/ MoveEnds
    \/ MoveFails

MigrationSpec == MigrationInit /\ [][MigrationNext]_<<vars, move>>

=============================================================================
