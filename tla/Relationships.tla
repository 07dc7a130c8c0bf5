---------------------------- MODULE Relationships ----------------------------
(***************************************************************************)
(* Follows, follow requests and subscriptions of one server: the tables    *)
(* actor_profile, relationship and follow_request, the transactions of     *)
(* fedimovies-models/src/relationships/queries.rs and delete_profile, and  *)
(* the API views, inbox handlers, commands and periodic task that run      *)
(* them.  A step is one transaction (FollowTransactions has the statements *)
(* of those that overlap on one pair); handlers that run several can be    *)
(* interleaved between them.  The handlers that receive_activity calls     *)
(* directly (Accept, Add, Follow, Reject, Remove) hold the inbox mutex,    *)
(* the queued ones (Delete, Undo) run in the background executor, the      *)
(* API and mitractl run beside both.                                       *)
(*                                                                         *)
(* Left out: notifications and enqueued jobs, which nothing here reads,    *)
(* and the visibility settings (hide, mute).  Migration adds the moves of  *)
(* accounts.                                                               *)
(***************************************************************************)
EXTENDS Integers, FiniteSets

CONSTANTS
    Profile,     \* rows actor_profile may have
    Local        \* those of users of this server; the others are remote actors

ASSUME RelationshipsAssumption ==
    /\ IsFiniteSet(Profile)
    /\ Local \subseteq Profile

Remote == Profile \ Local

Pair == Profile \X Profile      \* <<source_id, target_id>>

Status == {"none", "pending", "accepted", "rejected"}   \* none: no row

NoPair == <<>>

VARIABLES
    profiles,          \* actor_profile
    follows,           \* rows of relationship of type Follow
    subscriptions,     \* rows of relationship of type Subscription
    requests,          \* follow_request, by its unique key
    followerCount,     \* the counters of actor_profile, 0 without a row
    followingCount,
    subscriberCount,
    inbox,             \* the request a Follow handler holding the mutex has stored
    prune              \* profiles delete_empty_profiles has found and not reached yet

counters == <<followerCount, followingCount, subscriberCount>>
vars     == <<profiles, follows, subscriptions, requests, counters, inbox, prune>>

Followers(t)   == {s \in Profile : <<s, t>> \in follows}
Following(s)   == {t \in Profile : <<s, t>> \in follows}
Subscribers(t) == {s \in Profile : <<s, t>> \in subscriptions}

TypeOK ==
    /\ profiles \subseteq Profile
    /\ follows \subseteq Pair
    /\ subscriptions \subseteq Pair
    /\ requests \in [Pair -> Status]
    /\ followerCount \in [Profile -> Int]
    /\ followingCount \in [Profile -> Int]
    /\ subscriberCount \in [Profile -> Int]
    /\ inbox \in Pair \cup {NoPair}
    /\ prune \subseteq Remote

Init ==
    /\ profiles = {}
    /\ follows = {}
    /\ subscriptions = {}
    /\ requests = [e \in Pair |-> "none"]
    /\ followerCount = [p \in Profile |-> 0]
    /\ followingCount = [p \in Profile |-> 0]
    /\ subscriberCount = [p \in Profile |-> 0]
    /\ inbox = NoPair
    /\ prune = {}

-----------------------------------------------------------------------------
(* Transactions of relationships/queries.rs.  They leave profiles, inbox    *)
(* and prune alone.                                                         *)

\* Foreign keys and CHECK (source_id != target_id).
CanRelate(s, t) == s \in profiles /\ t \in profiles /\ s # t

\* update_follower_count, update_following_count and update_subscriber_count
UpdateFollowerCount(p, change) == [followerCount EXCEPT ![p] = @ + change]

UpdateFollowingCount(p, change) == [followingCount EXCEPT ![p] = @ + change]

UpdateSubscriberCount(p, change) == [subscriberCount EXCEPT ![p] = @ + change]

\* INSERT, which fails with AlreadyExists on a second row, and both counters.
FollowRow(s, t) ==
    /\ CanRelate(s, t)
    /\ <<s, t>> \notin follows
    /\ follows' = follows \cup {<<s, t>>}
    /\ followerCount' = UpdateFollowerCount(t, 1)
    /\ followingCount' = UpdateFollowingCount(s, 1)

\* (Mutant of Unfollow) The counters are updated also if only a request existed.
UnfollowAlwaysCounts(s, t) ==
    /\ <<s, t>> \in follows \/ requests[<<s, t>>] # "none"
    /\ follows' = follows \ {<<s, t>>}
    /\ requests' = [requests EXCEPT ![<<s, t>>] = "none"]
    /\ followerCount' = UpdateFollowerCount(t, -1)
    /\ followingCount' = UpdateFollowingCount(s, -1)
    /\ UNCHANGED <<subscriptions, subscriberCount>>

\* (Mutant of Unfollow) Where there is a request, only the request is deleted.
UnfollowRequestFirst(s, t) ==
    /\ requests[<<s, t>>] # "none"
    /\ requests' = [requests EXCEPT ![<<s, t>>] = "none"]
    /\ UNCHANGED <<follows, subscriptions, counters>>

\* unfollow: NotFound unless there is a relationship or a request; the
\* counters change only if the relationship existed (so do the settings what of
\* the other party is shown, see Audience).  It is two DELETEs, which an
\* AcceptRequest may come between: see FollowTransactions.
Unfollow(s, t) ==
    /\ <<s, t>> \in follows \/ requests[<<s, t>>] # "none"
    /\ follows' = follows \ {<<s, t>>}
    /\ requests' = [requests EXCEPT ![<<s, t>>] = "none"]
    /\ IF <<s, t>> \in follows
       THEN /\ followerCount' = UpdateFollowerCount(t, -1)
            /\ followingCount' = UpdateFollowingCount(s, -1)
       ELSE UNCHANGED <<followerCount, followingCount>>
    /\ UNCHANGED <<subscriptions, subscriberCount>>

\* create_follow_request: AlreadyExists on a second row of the pair.
CreateFollowRequest(s, t) ==
    /\ CanRelate(s, t)
    /\ requests[<<s, t>>] = "none"
    /\ requests' = [requests EXCEPT ![<<s, t>>] = "pending"]
    /\ UNCHANGED <<follows, subscriptions, counters>>

\* (Mutant of SaveRemoteRequest) The upsert also resets the status.
SaveRemoteRequestResets(s, t) ==
    /\ CanRelate(s, t)
    /\ requests' = [requests EXCEPT ![<<s, t>>] = "pending"]
    /\ UNCHANGED <<follows, subscriptions, counters>>

\* create_remote_follow_request_opt: an upsert that keeps the status of a row.
SaveRemoteRequest(s, t) ==
    /\ CanRelate(s, t)
    /\ requests' = [requests EXCEPT ![<<s, t>>] = IF @ = "none" THEN "pending" ELSE @]
    /\ UNCHANGED <<follows, subscriptions, counters>>

\* follow_request_accepted: the status and the relationship, or neither.
AcceptRequest(s, t) ==
    /\ requests[<<s, t>>] # "none"
    /\ FollowRow(s, t)
    /\ requests' = [requests EXCEPT ![<<s, t>>] = "accepted"]
    /\ UNCHANGED <<subscriptions, subscriberCount>>

\* follow_request_rejected
RejectRequest(s, t) ==
    /\ requests[<<s, t>>] # "none"
    /\ requests' = [requests EXCEPT ![<<s, t>>] = "rejected"]
    /\ UNCHANGED <<follows, subscriptions, counters>>

\* subscribe_opt, when it inserts a row.
SubscribeOpt(s, t) ==
    /\ CanRelate(s, t)
    /\ <<s, t>> \notin subscriptions
    /\ subscriptions' = subscriptions \cup {<<s, t>>}
    /\ subscriberCount' = UpdateSubscriberCount(t, 1)
    /\ UNCHANGED <<follows, requests, followerCount, followingCount>>

Unsubscribe(s, t) ==
    /\ <<s, t>> \in subscriptions
    /\ subscriptions' = subscriptions \ {<<s, t>>}
    /\ subscriberCount' = UpdateSubscriberCount(t, -1)
    /\ UNCHANGED <<follows, requests, followerCount, followingCount>>

-----------------------------------------------------------------------------
(* Profiles *)

\* create_user, or the import of a remote actor.
CreateProfile(p) ==
    /\ p \notin profiles
    /\ profiles' = profiles \cup {p}
    /\ followerCount' = [followerCount EXCEPT ![p] = 0]
    /\ followingCount' = [followingCount EXCEPT ![p] = 0]
    /\ subscriberCount' = [subscriberCount EXCEPT ![p] = 0]
    /\ UNCHANGED <<follows, subscriptions, requests, inbox, prune>>

Without(pairs, p) == {e \in pairs : e[1] # p /\ e[2] # p}

\* One counter after the deletion of p, where others is the set of profiles
\* it counted p for.
Uncounted(count, p, others) ==
    [q \in Profile |-> IF q = p THEN 0 ELSE IF q \in others THEN count[q] - 1 ELSE count[q]]

\* delete_profile: the counters of the others, then the row, which takes
\* relationships and requests along (ON DELETE CASCADE).
DeleteProfileRow(p) ==
    /\ profiles' = profiles \ {p}
    /\ follows' = Without(follows, p)
    /\ subscriptions' = Without(subscriptions, p)
    /\ requests' = [e \in Pair |-> IF e[1] = p \/ e[2] = p THEN "none" ELSE requests[e]]
    /\ followerCount' = Uncounted(followerCount, p, Following(p))
    /\ followingCount' = Uncounted(followingCount, p, Followers(p))
    /\ subscriberCount' =
         Uncounted(subscriberCount, p, {q \in Profile : <<p, q>> \in subscriptions})

\* mitractl delete-profile, or a Delete(Person) of a remote actor.
DeleteProfile(p) ==
    /\ p \in profiles
    /\ DeleteProfileRow(p)
    /\ UNCHANGED <<inbox, prune>>

\* (Mutant of IsEmpty) Without hostname IS NOT NULL.
IsEmptyOrLocal(p) ==
    /\ p \in profiles
    /\ Without(follows \cup subscriptions, p) = follows \cup subscriptions
    /\ \A e \in Pair : p \in {e[1], e[2]} => requests[e] = "none"

\* find_empty_profiles: remote profiles that take part in nothing.
IsEmpty(p) ==
    /\ p \in Remote \cap profiles
    /\ Without(follows \cup subscriptions, p) = follows \cup subscriptions
    /\ \A e \in Pair : p \in {e[1], e[2]} => requests[e] = "none"

\* delete_empty_profiles, first the list (some of the empty profiles were
\* updated too recently) ...
FindEmptyProfiles ==
    /\ prune = {}
    /\ \E found \in SUBSET {p \in Profile : IsEmpty(p)} :
        /\ found # {}
        /\ prune' = found
    /\ UNCHANGED <<profiles, follows, subscriptions, requests, counters, inbox>>

\* ... then one profile after the other.
PruneProfile(p) ==
    /\ p \in prune
    /\ p \in profiles
    /\ DeleteProfileRow(p)
    /\ prune' = prune \ {p}
    /\ UNCHANGED inbox

\* A profile of the list that is gone (get_profile_by_id), a database error or
\* a crash: the rest of the list is dropped.
PruneAborts ==
    /\ prune # {}
    /\ prune' = {}
    /\ UNCHANGED <<profiles, follows, subscriptions, requests, counters, inbox>>

-----------------------------------------------------------------------------
(* API views of a user s: follow_or_create_request and unfollow.  The       *)
(* errors they ignore change nothing.                                       *)

FollowLocal(s, t) ==
    /\ s \in Local /\ t \in Local
    /\ FollowRow(s, t)
    /\ UNCHANGED <<profiles, subscriptions, subscriberCount, requests, inbox, prune>>

FollowRemote(s, t) ==
    /\ s \in Local /\ t \in Remote
    /\ CreateFollowRequest(s, t)
    /\ UNCHANGED <<profiles, inbox, prune>>

UnfollowAccount(s, t) ==
    /\ s \in Local
    /\ Unfollow(s, t)
    /\ UNCHANGED <<profiles, inbox, prune>>

-----------------------------------------------------------------------------
(* Inbox handlers.  t is the actor of Accept, Reject, Add and Remove, s the *)
(* actor of Follow and Undo; the other party is a user.                     *)

\* Ignored if the request is accepted already.
HandleAccept(s, t) ==
    /\ inbox = NoPair
    /\ s \in Local /\ t \in Remote
    /\ requests[<<s, t>>] # "accepted"
    /\ AcceptRequest(s, t)
    /\ UNCHANGED <<profiles, inbox, prune>>

\* Ignored if the request is rejected already.
HandleReject(s, t) ==
    /\ inbox = NoPair
    /\ s \in Local /\ t \in Remote
    /\ requests[<<s, t>>] # "rejected"
    /\ RejectRequest(s, t)
    /\ UNCHANGED <<profiles, inbox, prune>>

\* handle_follow, first the request ...
HandleFollow(s, t) ==
    /\ inbox = NoPair
    /\ s \in Remote /\ t \in Local
    /\ SaveRemoteRequest(s, t)
    /\ inbox' = <<s, t>>
    /\ UNCHANGED <<profiles, prune>>

\* ... then the relationship, in a transaction that is rolled back if it exists.
HandleFollowAccepts ==
    /\ inbox # NoPair
    /\ AcceptRequest(inbox[1], inbox[2])
    /\ inbox' = NoPair
    /\ UNCHANGED <<profiles, prune>>

\* The relationship exists already, the request or a profile is gone, or the
\* handler is interrupted.
HandleFollowEnds ==
    /\ inbox # NoPair
    /\ inbox' = NoPair
    /\ UNCHANGED <<profiles, follows, subscriptions, requests, counters, prune>>

\* Both forms of Undo(Follow); runs in the executor, without the mutex.
HandleUndoFollow(s, t) ==
    /\ s \in Remote /\ t \in Local
    /\ Unfollow(s, t)
    /\ UNCHANGED <<profiles, inbox, prune>>

HandleAdd(s, t) ==
    /\ inbox = NoPair
    /\ s \in Local /\ t \in Remote
    /\ SubscribeOpt(s, t)
    /\ UNCHANGED <<profiles, inbox, prune>>

HandleRemove(s, t) ==
    /\ inbox = NoPair
    /\ s \in Local /\ t \in Remote
    /\ Unsubscribe(s, t)
    /\ UNCHANGED <<profiles, inbox, prune>>

\* mitractl reset-subscriptions, of all profiles at once.
ResetSubscriptions ==
    /\ subscriptions' = {}
    /\ subscriberCount' = [p \in Profile |-> 0]
    /\ UNCHANGED <<profiles, follows, requests, followerCount, followingCount, inbox, prune>>

-----------------------------------------------------------------------------
Next ==
    \/ \E p \in Profile : CreateProfile(p) \/ DeleteProfile(p) \/ PruneProfile(p)
    \/ FindEmptyProfiles
    \/ PruneAborts
    \/ \E s, t \in Profile :
        \/ FollowLocal(s, t)
        \/ FollowRemote(s, t)
        \/ UnfollowAccount(s, t)
        \/ HandleAccept(s, t)
        \/ HandleReject(s, t)
        \/ HandleFollow(s, t)
        \/ HandleUndoFollow(s, t)
        \/ HandleAdd(s, t)
        \/ HandleRemove(s, t)
    \/ HandleFollowAccepts
    \/ HandleFollowEnds
    \/ ResetSubscriptions

Spec == Init /\ [][Next]_vars

-----------------------------------------------------------------------------
(* Properties *)

\* The counters shown on a profile are the numbers of rows they summarise,
\* after any sequence of follows, unfollows, repeated or crossing activities
\* and deletions of either party (so they never violate CHECK (... >= 0)).
CountersExact ==
    \A p \in Profile :
        /\ followerCount[p] = Cardinality(Followers(p))
        /\ followingCount[p] = Cardinality(Following(p))
        /\ subscriberCount[p] = Cardinality(Subscribers(p))

\* A follow with a remote party has its follow request, after any sequence of
\* transactions that do not overlap, those of moves included (RequestToUndo of
\* FollowTransactions says what is left of it if an unfollow overlaps an Accept).
RemoteFollowHasRequest ==
    \A e \in follows : (e[1] \in Remote \/ e[2] \in Remote) => requests[e] # "none"

\* The status of a request and the relationship agree: pending is without the
\* relationship, accepted with it, whatever order Accept, Reject, Follow and
\* Undo come in (rejected may be either: a late Reject keeps the relationship).
RequestAgrees ==
    \A e \in Pair :
        /\ requests[e] = "pending"  => e \notin follows
        /\ requests[e] = "accepted" => e \in follows
=============================================================================
