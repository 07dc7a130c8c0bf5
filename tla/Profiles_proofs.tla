---------------------------- MODULE Profiles_proofs ----------------------------
(***************************************************************************)
(* Proofs about what the server keeps of profiles: that the safety         *)
(* properties of Relationships hold for every set of profiles, that a      *)
(* server with account moves implements Relationships, so that they hold   *)
(* with moves too, that the copies of CustomEmojis agree with its tables   *)
(* for every number of sessions, and that the copies of ActorCopies on     *)
(* other servers are the profile.                                          *)
(*                                                                         *)
(* The inductive invariant of Relationships adds to the properties what    *)
(* the foreign keys give (no row names a profile that is gone) and what    *)
(* the callers give (two users of this server follow each other without a  *)
(* request).  Those of CustomEmojis and ActorCopies are explained there.   *)
(***************************************************************************)
EXTENDS Migration, CustomEmojis, ActorCopies, TLAPS, FiniteSetTheorems

\* One line each, expanded everywhere.
USE DEF UpdateFollowerCount, UpdateFollowingCount, UpdateSubscriberCount

-----------------------------------------------------------------------------
(* Types *)

LEMMA InitType == Init => TypeOK
BY DEF Init, TypeOK, Status, Pair

LEMMA NextType == TypeOK /\ [Next]_vars => TypeOK'
<1> SUFFICES ASSUME TypeOK, [Next]_vars PROVE TypeOK'
  OBVIOUS
<1> USE DEF TypeOK, Remote, Status
<1>1. ASSUME NEW p \in Profile, CreateProfile(p) PROVE TypeOK'
  BY <1>1 DEF CreateProfile
<1>2. ASSUME NEW p \in Profile, DeleteProfileRow(p),
             inbox' = inbox, prune' \subseteq prune
      PROVE  TypeOK'
  BY <1>2 DEF DeleteProfileRow, Without, Uncounted
<1>3. CASE FindEmptyProfiles
  BY <1>3 DEF FindEmptyProfiles, IsEmpty, counters
<1>4. CASE PruneAborts
  BY <1>4 DEF PruneAborts, counters
<1>5. ASSUME NEW s \in Profile, NEW t \in Profile, FollowLocal(s, t) PROVE TypeOK'
  BY <1>5 DEF FollowLocal, FollowRow, Pair
<1>6. ASSUME NEW s \in Profile, NEW t \in Profile, AcceptRequest(s, t),
             profiles' = profiles, inbox' \in {inbox, NoPair}, prune' = prune
      PROVE  TypeOK'
  BY <1>6 DEF AcceptRequest, FollowRow, Pair
<1>7. ASSUME NEW s \in Profile, NEW t \in Profile, Unfollow(s, t),
             profiles' = profiles, inbox' = inbox, prune' = prune
      PROVE  TypeOK'
  <2>1. requests' \in [Pair -> Status] /\ follows' \subseteq Pair
    BY <1>7 DEF Unfollow
  <2>2. followerCount' \in [Profile -> Int] /\ followingCount' \in [Profile -> Int]
    <3>1. CASE <<s, t>> \in follows
      BY <1>7, <3>1 DEF Unfollow
    <3>2. CASE <<s, t>> \notin follows
      BY <1>7, <3>2 DEF Unfollow
    <3> QED BY <3>1, <3>2
  <2> QED BY <1>7, <2>1, <2>2 DEF Unfollow
<1>8. ASSUME NEW s \in Profile, NEW t \in Profile,
             CreateFollowRequest(s, t) \/ SaveRemoteRequest(s, t) \/ RejectRequest(s, t),
             profiles' = profiles, inbox' \in {inbox, <<s, t>>}, prune' = prune
      PROVE  TypeOK'
  BY <1>8 DEF CreateFollowRequest, SaveRemoteRequest, RejectRequest, Pair, counters
<1>9. ASSUME NEW s \in Profile, NEW t \in Profile,
             SubscribeOpt(s, t) \/ Unsubscribe(s, t),
             profiles' = profiles, inbox' = inbox, prune' = prune
      PROVE  TypeOK'
  BY <1>9 DEF SubscribeOpt, Unsubscribe, Pair
<1>10. CASE HandleFollowAccepts
  <2>1. inbox[1] \in Profile /\ inbox[2] \in Profile
    BY <1>10 DEF HandleFollowAccepts, Pair
  <2> QED BY <2>1, <1>6, <1>10 DEF HandleFollowAccepts
<1>11. CASE HandleFollowEnds
  BY <1>11 DEF HandleFollowEnds, counters
<1>12. CASE UNCHANGED vars
  BY <1>12 DEF vars, counters
<1>13. ASSUME NEW p \in Profile, DeleteProfile(p) \/ PruneProfile(p) PROVE TypeOK'
  BY <1>13, <1>2 DEF DeleteProfile, PruneProfile
<1>14. ASSUME NEW s \in Profile, NEW t \in Profile,
              \/ FollowRemote(s, t) \/ UnfollowAccount(s, t)
              \/ HandleAccept(s, t) \/ HandleReject(s, t)
              \/ HandleFollow(s, t) \/ HandleUndoFollow(s, t)
              \/ HandleAdd(s, t) \/ HandleRemove(s, t)
       PROVE  TypeOK'
  <2> USE <1>14
  <2>1. CASE FollowRemote(s, t) \/ HandleFollow(s, t) \/ HandleReject(s, t)
    BY <2>1, <1>8 DEF FollowRemote, HandleFollow, HandleReject
  <2>2. CASE UnfollowAccount(s, t) \/ HandleUndoFollow(s, t)
    BY <2>2, <1>7 DEF UnfollowAccount, HandleUndoFollow
  <2>3. CASE HandleAccept(s, t)
    BY <2>3, <1>6 DEF HandleAccept
  <2>4. CASE HandleAdd(s, t) \/ HandleRemove(s, t)
    BY <2>4, <1>9 DEF HandleAdd, HandleRemove
  <2> QED BY <2>1, <2>2, <2>3, <2>4
<1>15. CASE ResetSubscriptions
  BY <1>15 DEF ResetSubscriptions
<1> QED
  BY <1>1, <1>3, <1>4, <1>5, <1>10, <1>11, <1>12, <1>13, <1>14, <1>15 DEF Next

\* Every value of the tables and of the two handlers' memory has its type.
THEOREM TypeCorrect == Spec => []TypeOK
BY InitType, NextType, PTL DEF Spec

-----------------------------------------------------------------------------
(* What a step does to the tables, the handlers' guards aside *)

\* A request is created only between a user and a remote actor.
RequestMade(s, t) ==
    /\ s \in Remote \/ t \in Remote
    /\ CreateFollowRequest(s, t) \/ SaveRemoteRequest(s, t)

FollowMade(s, t) ==
    /\ s \in Local /\ t \in Local
    /\ FollowRow(s, t)
    /\ UNCHANGED <<subscriptions, subscriberCount, requests>>

Transaction(s, t) ==
    \/ FollowMade(s, t)
    \/ RequestMade(s, t)
    \/ AcceptRequest(s, t)
    \/ RejectRequest(s, t)
    \/ Unfollow(s, t)
    \/ SubscribeOpt(s, t)
    \/ Unsubscribe(s, t)

tables == <<profiles, follows, subscriptions, requests, counters>>

LEMMA StepCases ==
  ASSUME TypeOK, [Next]_vars
  PROVE  \/ \E p \in Profile : CreateProfile(p) \/ DeleteProfileRow(p)
         \/ UNCHANGED profiles /\ \E s, t \in Profile : Transaction(s, t)
         \/ ResetSubscriptions
         \/ UNCHANGED tables
<1> DEFINE Goal ==
      \/ \E p \in Profile : CreateProfile(p) \/ DeleteProfileRow(p)
      \/ UNCHANGED profiles /\ \E s, t \in Profile : Transaction(s, t)
      \/ ResetSubscriptions
      \/ UNCHANGED tables
<1>1. ASSUME NEW p \in Profile, CreateProfile(p) \/ DeleteProfile(p) \/ PruneProfile(p)
      PROVE  Goal
  BY <1>1 DEF DeleteProfile, PruneProfile
<1>2. CASE FindEmptyProfiles \/ PruneAborts \/ HandleFollowEnds \/ UNCHANGED vars
  BY <1>2 DEF FindEmptyProfiles, PruneAborts, HandleFollowEnds, vars, tables
<1>3. ASSUME NEW s \in Profile, NEW t \in Profile,
             \/ FollowLocal(s, t) \/ FollowRemote(s, t) \/ UnfollowAccount(s, t)
             \/ HandleAccept(s, t) \/ HandleReject(s, t)
             \/ HandleFollow(s, t) \/ HandleUndoFollow(s, t)
             \/ HandleAdd(s, t) \/ HandleRemove(s, t)
      PROVE  Goal
  <2>1. UNCHANGED profiles /\ Transaction(s, t)
    BY <1>3 DEF FollowLocal, FollowRemote, UnfollowAccount, HandleAccept, HandleReject,
                HandleFollow, HandleUndoFollow, HandleAdd, HandleRemove,
                Transaction, FollowMade, RequestMade
  <2> QED BY <2>1
<1>4. CASE HandleFollowAccepts
  <2>1. inbox[1] \in Profile /\ inbox[2] \in Profile
    BY <1>4 DEF HandleFollowAccepts, TypeOK, Pair
  <2>2. UNCHANGED profiles /\ Transaction(inbox[1], inbox[2])
    BY <1>4 DEF HandleFollowAccepts, Transaction
  <2> QED BY <2>1, <2>2
<1>5. CASE ResetSubscriptions
  BY <1>5
<1> QED BY <1>1, <1>2, <1>3, <1>4, <1>5 DEF Next

-----------------------------------------------------------------------------
(* Rows *)

\* No row names a profile that is gone.
NoDanglingRow ==
    \A s, t \in Profile :
        <<s, t>> \in follows \cup subscriptions \/ requests[<<s, t>>] # "none"
            => s \in profiles /\ t \in profiles

\* Users of the server follow each other without a request.
NoLocalRequest == \A s, t \in Local : requests[<<s, t>>] = "none"

Rows ==
    /\ NoDanglingRow
    /\ NoLocalRequest
    /\ RemoteFollowHasRequest
    /\ RequestAgrees

\* The inductive invariant of the rows.
RowsInv == TypeOK /\ Rows

LEMMA InitRows == Init => RowsInv
BY InitType, RelationshipsAssumption
   DEF Init, RowsInv, Rows, NoDanglingRow, NoLocalRequest, RemoteFollowHasRequest,
       RequestAgrees, Pair

LEMMA NextRows == RowsInv /\ [Next]_vars => RowsInv'
<1> SUFFICES ASSUME RowsInv, [Next]_vars PROVE RowsInv'
  OBVIOUS
<1> USE RelationshipsAssumption
<1>t. TypeOK /\ TypeOK'
  BY NextType DEF RowsInv
<1>1. ASSUME NEW p \in Profile, CreateProfile(p) PROVE Rows'
  BY <1>t, <1>1 DEF RowsInv, Rows, CreateProfile, NoDanglingRow, NoLocalRequest,
                    RemoteFollowHasRequest, RequestAgrees
<1>2. ASSUME NEW p \in Profile, DeleteProfileRow(p) PROVE Rows'
  <2> USE <1>2 DEF DeleteProfileRow, Without, RowsInv, Rows, TypeOK
  <2>1. NoDanglingRow'
    BY DEF NoDanglingRow, Pair
  <2>2. NoLocalRequest'
    BY DEF NoLocalRequest, Pair
  <2>3. RemoteFollowHasRequest'
    BY DEF RemoteFollowHasRequest
  <2>4. RequestAgrees'
    BY DEF RequestAgrees
  <2> QED BY <2>1, <2>2, <2>3, <2>4
<1>3. ASSUME NEW s \in Profile, NEW t \in Profile, Transaction(s, t), UNCHANGED profiles
      PROVE  Rows'
  <2> USE <1>3, <1>t DEF RowsInv, Rows, TypeOK
  <2>1. CASE FollowMade(s, t)
    BY <2>1 DEF FollowMade, FollowRow, CanRelate, Remote, Pair, NoDanglingRow,
                NoLocalRequest, RemoteFollowHasRequest, RequestAgrees
  <2>2. CASE RequestMade(s, t)
    <3>1. <<s, t>> \in Pair /\ UNCHANGED <<follows, subscriptions>> /\ CanRelate(s, t)
      BY <2>2 DEF RequestMade, CreateFollowRequest, SaveRemoteRequest, Pair
    <3>2. requests' = [requests EXCEPT ![<<s, t>>] = IF @ = "none" THEN "pending" ELSE @]
      BY <2>2 DEF RequestMade, CreateFollowRequest, SaveRemoteRequest
    <3>3. NoDanglingRow'
      BY <3>1, <3>2 DEF NoDanglingRow, CanRelate, Pair
    <3>4. NoLocalRequest'
      BY <2>2, <3>1, <3>2 DEF NoLocalRequest, RequestMade, Remote, Pair
    <3>5. RemoteFollowHasRequest'
      BY <3>1, <3>2 DEF RemoteFollowHasRequest
    <3>6. RequestAgrees'
      BY <2>2, <3>1, <3>2 DEF RequestAgrees, RemoteFollowHasRequest, RequestMade, Pair
    <3> QED BY <3>3, <3>4, <3>5, <3>6
  <2>3. CASE AcceptRequest(s, t)
    <3>1. <<s, t>> \in Pair /\ CanRelate(s, t) /\ subscriptions' = subscriptions
      BY <2>3 DEF AcceptRequest, FollowRow, Pair
    <3>2. /\ requests' = [requests EXCEPT ![<<s, t>>] = "accepted"]
          /\ follows' = follows \cup {<<s, t>>}
          /\ requests[<<s, t>>] # "none"
      BY <2>3 DEF AcceptRequest, FollowRow
    <3>3. NoDanglingRow'
      BY <3>1, <3>2 DEF NoDanglingRow, CanRelate, Pair
    <3>4. NoLocalRequest'
      BY <3>1, <3>2 DEF NoLocalRequest, Pair
    <3>5. RemoteFollowHasRequest'
      BY <3>1, <3>2 DEF RemoteFollowHasRequest
    <3>6. RequestAgrees'
      BY <3>1, <3>2 DEF RequestAgrees
    <3> QED BY <3>3, <3>4, <3>5, <3>6
  <2>4. CASE RejectRequest(s, t)
    BY <2>4 DEF RejectRequest, NoDanglingRow, NoLocalRequest, RemoteFollowHasRequest,
                RequestAgrees, Pair
  <2>5. CASE Unfollow(s, t)
    <3>1. /\ requests' = [requests EXCEPT ![<<s, t>>] = "none"]
          /\ follows' = follows \ {<<s, t>>}
          /\ subscriptions' = subscriptions
      BY <2>5 DEF Unfollow
    <3> QED
      BY <3>1 DEF NoDanglingRow, NoLocalRequest, RemoteFollowHasRequest, RequestAgrees, Pair
  <2>6. CASE SubscribeOpt(s, t) \/ Unsubscribe(s, t)
    BY <2>6 DEF SubscribeOpt, Unsubscribe, CanRelate, NoDanglingRow, NoLocalRequest,
                RemoteFollowHasRequest, RequestAgrees
  <2> QED BY <2>1, <2>2, <2>3, <2>4, <2>5, <2>6 DEF Transaction
<1>4. ASSUME UNCHANGED tables PROVE Rows'
  BY <1>4 DEF tables, RowsInv, Rows, NoDanglingRow, NoLocalRequest, RemoteFollowHasRequest,
              RequestAgrees
<1>5. ASSUME ResetSubscriptions PROVE Rows'
  BY <1>5 DEF ResetSubscriptions, RowsInv, Rows, NoDanglingRow, NoLocalRequest,
              RemoteFollowHasRequest, RequestAgrees
<1>6. Rows'
  BY StepCases, <1>t, <1>1, <1>2, <1>3, <1>4, <1>5
<1> QED BY <1>t, <1>6 DEF RowsInv

\* A follow with a remote party has its follow request.
THEOREM RemoteFollowHasRequestCorrect == Spec => []RemoteFollowHasRequest
<1>1. RowsInv => RemoteFollowHasRequest
  BY DEF RowsInv, Rows
<1> QED BY InitRows, NextRows, <1>1, PTL DEF Spec

\* The status of a follow request agrees with the relationship.
THEOREM RequestAgreesCorrect == Spec => []RequestAgrees
<1>1. RowsInv => RequestAgrees
  BY DEF RowsInv, Rows
<1> QED BY InitRows, NextRows, <1>1, PTL DEF Spec

-----------------------------------------------------------------------------
(* Counters: what the operations on rows do to the number of rows of a      *)
(* target (Sources) and of a source (Targets).                              *)

Sources(pairs, t) == {s \in Profile : <<s, t>> \in pairs}
Targets(pairs, s) == {t \in Profile : <<s, t>> \in pairs}

CountsSources(pairs, count) == \A p \in Profile : count[p] = Cardinality(Sources(pairs, p))
CountsTargets(pairs, count) == \A p \in Profile : count[p] = Cardinality(Targets(pairs, p))

LEMMA FiniteEnds ==
  ASSUME NEW pairs, NEW p
  PROVE  IsFiniteSet(Sources(pairs, p)) /\ IsFiniteSet(Targets(pairs, p))
<1>1. Sources(pairs, p) \in SUBSET Profile /\ Targets(pairs, p) \in SUBSET Profile
  BY DEF Sources, Targets
<1> QED BY <1>1, FS_Subset, RelationshipsAssumption

LEMMA AddSource ==
  ASSUME NEW pairs, NEW s \in Profile, NEW t \in Profile, <<s, t>> \notin pairs,
         NEW count \in [Profile -> Int], CountsSources(pairs, count)
  PROVE  CountsSources(pairs \cup {<<s, t>>}, [count EXCEPT ![t] = @ + 1])
<1> DEFINE new == pairs \cup {<<s, t>>}
<1>1. \A p \in Profile : Sources(new, p) = IF p = t THEN Sources(pairs, t) \cup {s}
                                                    ELSE Sources(pairs, p)
  BY DEF Sources
<1>2. Cardinality(Sources(pairs, t) \cup {s}) = Cardinality(Sources(pairs, t)) + 1
  <2>1. s \notin Sources(pairs, t)
    BY DEF Sources
  <2> QED BY <2>1, FiniteEnds, FS_AddElement
<1> HIDE DEF new
<1> SUFFICES ASSUME NEW p \in Profile
             PROVE  [count EXCEPT ![t] = @ + 1][p] = Cardinality(Sources(new, p))
  BY DEF CountsSources, new
<1>3. CASE p = t
  BY <1>1, <1>2, <1>3 DEF CountsSources
<1>4. CASE p # t
  BY <1>1, <1>4 DEF CountsSources
<1> QED BY <1>3, <1>4

LEMMA AddTarget ==
  ASSUME NEW pairs, NEW s \in Profile, NEW t \in Profile, <<s, t>> \notin pairs,
         NEW count \in [Profile -> Int], CountsTargets(pairs, count)
  PROVE  CountsTargets(pairs \cup {<<s, t>>}, [count EXCEPT ![s] = @ + 1])
<1> DEFINE new == pairs \cup {<<s, t>>}
<1>1. \A p \in Profile : Targets(new, p) = IF p = s THEN Targets(pairs, s) \cup {t}
                                                    ELSE Targets(pairs, p)
  BY DEF Targets
<1>2. Cardinality(Targets(pairs, s) \cup {t}) = Cardinality(Targets(pairs, s)) + 1
  <2>1. t \notin Targets(pairs, s)
    BY DEF Targets
  <2> QED BY <2>1, FiniteEnds, FS_AddElement
<1> HIDE DEF new
<1> SUFFICES ASSUME NEW p \in Profile
             PROVE  [count EXCEPT ![s] = @ + 1][p] = Cardinality(Targets(new, p))
  BY DEF CountsTargets, new
<1>3. CASE p = s
  BY <1>1, <1>2, <1>3 DEF CountsTargets
<1>4. CASE p # s
  BY <1>1, <1>4 DEF CountsTargets
<1> QED BY <1>3, <1>4

LEMMA RemoveSource ==
  ASSUME NEW pairs, NEW s \in Profile, NEW t \in Profile, <<s, t>> \in pairs,
         NEW count \in [Profile -> Int], CountsSources(pairs, count)
  PROVE  CountsSources(pairs \ {<<s, t>>}, [count EXCEPT ![t] = @ - 1])
<1> DEFINE new == pairs \ {<<s, t>>}
<1>1. \A p \in Profile : Sources(new, p) = IF p = t THEN Sources(pairs, t) \ {s}
                                                    ELSE Sources(pairs, p)
  BY DEF Sources
<1>2. Cardinality(Sources(pairs, t) \ {s}) = Cardinality(Sources(pairs, t)) - 1
  <2>1. s \in Sources(pairs, t)
    BY DEF Sources
  <2> QED BY <2>1, FiniteEnds, FS_RemoveElement
<1> HIDE DEF new
<1> SUFFICES ASSUME NEW p \in Profile
             PROVE  [count EXCEPT ![t] = @ - 1][p] = Cardinality(Sources(new, p))
  BY DEF CountsSources, new
<1>3. CASE p = t
  BY <1>1, <1>2, <1>3 DEF CountsSources
<1>4. CASE p # t
  BY <1>1, <1>4 DEF CountsSources
<1> QED BY <1>3, <1>4

LEMMA RemoveTarget ==
  ASSUME NEW pairs, NEW s \in Profile, NEW t \in Profile, <<s, t>> \in pairs,
         NEW count \in [Profile -> Int], CountsTargets(pairs, count)
  PROVE  CountsTargets(pairs \ {<<s, t>>}, [count EXCEPT ![s] = @ - 1])
<1> DEFINE new == pairs \ {<<s, t>>}
<1>1. \A p \in Profile : Targets(new, p) = IF p = s THEN Targets(pairs, s) \ {t}
                                                    ELSE Targets(pairs, p)
  BY DEF Targets
<1>2. Cardinality(Targets(pairs, s) \ {t}) = Cardinality(Targets(pairs, s)) - 1
  <2>1. t \in Targets(pairs, s)
    BY DEF Targets
  <2> QED BY <2>1, FiniteEnds, FS_RemoveElement
<1> HIDE DEF new
<1> SUFFICES ASSUME NEW p \in Profile
             PROVE  [count EXCEPT ![s] = @ - 1][p] = Cardinality(Targets(new, p))
  BY DEF CountsTargets, new
<1>3. CASE p = s
  BY <1>1, <1>2, <1>3 DEF CountsTargets
<1>4. CASE p # s
  BY <1>1, <1>4 DEF CountsTargets
<1> QED BY <1>3, <1>4

\* delete_profile: each counter of the others loses the profile that goes.
LEMMA WithoutProfile ==
  ASSUME NEW pairs, pairs \subseteq Pair, NEW p \in Profile,
         NEW in \in [Profile -> Int], NEW out \in [Profile -> Int]
  PROVE  /\ CountsSources(pairs, in)
              => CountsSources(Without(pairs, p), Uncounted(in, p, Targets(pairs, p)))
         /\ CountsTargets(pairs, out)
              => CountsTargets(Without(pairs, p), Uncounted(out, p, Sources(pairs, p)))
<1> DEFINE less == Without(pairs, p)
<1>1. \A q \in Profile : Sources(less, q) = IF q = p THEN {} ELSE Sources(pairs, q) \ {p}
  BY DEF Sources, Without, Pair
<1>2. \A q \in Profile : Targets(less, q) = IF q = p THEN {} ELSE Targets(pairs, q) \ {p}
  BY DEF Targets, Without, Pair
<1>3. \A q \in Profile :
        /\ p \in Sources(pairs, q) <=> q \in Targets(pairs, p)
        /\ p \in Targets(pairs, q) <=> q \in Sources(pairs, p)
  BY DEF Sources, Targets
<1>4. Cardinality({}) = 0
  BY FS_EmptySet
<1>5. ASSUME CountsSources(pairs, in)
      PROVE  CountsSources(less, Uncounted(in, p, Targets(pairs, p)))
  <2>1. \A q \in Profile :
          Cardinality(Sources(pairs, q) \ {p}) =
            IF p \in Sources(pairs, q) THEN Cardinality(Sources(pairs, q)) - 1
                                      ELSE Cardinality(Sources(pairs, q))
    BY FiniteEnds, FS_RemoveElement
  <2> HIDE DEF less
  <2> QED BY <1>1, <1>3, <1>4, <1>5, <2>1 DEF CountsSources, Uncounted
<1>6. ASSUME CountsTargets(pairs, out)
      PROVE  CountsTargets(less, Uncounted(out, p, Sources(pairs, p)))
  <2>1. \A q \in Profile :
          Cardinality(Targets(pairs, q) \ {p}) =
            IF p \in Targets(pairs, q) THEN Cardinality(Targets(pairs, q)) - 1
                                      ELSE Cardinality(Targets(pairs, q))
    BY FiniteEnds, FS_RemoveElement
  <2> HIDE DEF less
  <2> QED BY <1>2, <1>3, <1>4, <1>6, <2>1 DEF CountsTargets, Uncounted
<1> QED BY <1>5, <1>6

\* The three counters, in these terms.
LEMMA CountersExactIn ==
  CountersExact <=> /\ CountsSources(follows, followerCount)
                    /\ CountsTargets(follows, followingCount)
                    /\ CountsSources(subscriptions, subscriberCount)
BY DEF CountersExact, CountsSources, CountsTargets, Sources, Targets,
       Followers, Following, Subscribers

LEMMA InitCounters == Init => CountersExact
<1> SUFFICES ASSUME Init PROVE CountersExact
  OBVIOUS
<1>1. \A p \in Profile : Followers(p) = {} /\ Following(p) = {} /\ Subscribers(p) = {}
  BY DEF Init, Followers, Following, Subscribers
<1> QED BY <1>1, FS_EmptySet DEF Init, CountersExact

LEMMA NextCounters == RowsInv /\ CountersExact /\ [Next]_vars => CountersExact'
<1> SUFFICES ASSUME RowsInv, CountersExact, [Next]_vars PROVE CountersExact'
  OBVIOUS
<1>t. TypeOK
  BY DEF RowsInv
<1>c. /\ CountsSources(follows, followerCount)
      /\ CountsTargets(follows, followingCount)
      /\ CountsSources(subscriptions, subscriberCount)
  BY CountersExactIn
<1>g. (/\ CountsSources(follows', followerCount')
       /\ CountsTargets(follows', followingCount')
       /\ CountsSources(subscriptions', subscriberCount'))
      => CountersExact'
  BY DEF CountersExact, CountsSources, CountsTargets, Sources, Targets,
         Followers, Following, Subscribers
<1>1. ASSUME NEW p \in Profile, CreateProfile(p) PROVE CountersExact'
  <2>1. Sources(follows, p) = {} /\ Targets(follows, p) = {} /\ Sources(subscriptions, p) = {}
    BY <1>1 DEF CreateProfile, RowsInv, Rows, NoDanglingRow, Sources, Targets
  <2>2. /\ followerCount' = [followerCount EXCEPT ![p] = 0]
        /\ followingCount' = [followingCount EXCEPT ![p] = 0]
        /\ subscriberCount' = [subscriberCount EXCEPT ![p] = 0]
        /\ UNCHANGED <<follows, subscriptions>>
    BY <1>1 DEF CreateProfile
  <2>3. Cardinality({}) = 0
    BY FS_EmptySet
  <2> QED BY <1>t, <1>c, <1>g, <2>1, <2>2, <2>3 DEF TypeOK, CountsSources, CountsTargets
<1>2. ASSUME NEW p \in Profile, DeleteProfileRow(p) PROVE CountersExact'
  <2>1. /\ follows' = Without(follows, p)
        /\ subscriptions' = Without(subscriptions, p)
        /\ followerCount' = Uncounted(followerCount, p, Targets(follows, p))
        /\ followingCount' = Uncounted(followingCount, p, Sources(follows, p))
        /\ subscriberCount' = Uncounted(subscriberCount, p, Targets(subscriptions, p))
    BY <1>2 DEF DeleteProfileRow, Followers, Following, Sources, Targets
  <2> QED BY <1>t, <1>c, <1>g, <2>1, WithoutProfile DEF TypeOK
<1>3. ASSUME NEW s \in Profile, NEW t \in Profile, Transaction(s, t)
      PROVE  CountersExact'
  <2>1. CASE FollowMade(s, t) \/ AcceptRequest(s, t)
    <3>1. FollowRow(s, t) /\ UNCHANGED <<subscriptions, subscriberCount>>
      BY <2>1 DEF FollowMade, AcceptRequest
    <3> QED BY <1>t, <1>c, <1>g, <3>1, AddSource, AddTarget DEF FollowRow, TypeOK
  <2>2. CASE RequestMade(s, t) \/ RejectRequest(s, t)
    BY <1>c, <1>g, <2>2
       DEF RequestMade, RejectRequest, CreateFollowRequest, SaveRemoteRequest, counters
  <2>3. CASE Unfollow(s, t)
    <3>1. CASE <<s, t>> \in follows
      <4>1. /\ follows' = follows \ {<<s, t>>}
            /\ followerCount' = [followerCount EXCEPT ![t] = @ - 1]
            /\ followingCount' = [followingCount EXCEPT ![s] = @ - 1]
            /\ UNCHANGED <<subscriptions, subscriberCount>>
        BY <2>3, <3>1 DEF Unfollow
      <4>2. CountsSources(follows', followerCount') /\ CountsTargets(follows', followingCount')
        BY <1>t, <1>c, <3>1, <4>1, RemoveSource, RemoveTarget DEF TypeOK
      <4> QED BY <1>c, <1>g, <4>1, <4>2
    <3>2. CASE <<s, t>> \notin follows
      <4>1. follows' = follows
        BY <2>3, <3>2 DEF Unfollow
      <4> QED BY <1>c, <1>g, <2>3, <3>2, <4>1 DEF Unfollow
    <3> QED BY <3>1, <3>2
  <2>4. CASE SubscribeOpt(s, t)
    <3>1. CountsSources(subscriptions', subscriberCount')
      BY <1>t, <1>c, <2>4, AddSource DEF SubscribeOpt, TypeOK
    <3> QED BY <1>c, <1>g, <2>4, <3>1 DEF SubscribeOpt
  <2>5. CASE Unsubscribe(s, t)
    <3>1. CountsSources(subscriptions', subscriberCount')
      BY <1>t, <1>c, <2>5, RemoveSource DEF Unsubscribe, TypeOK
    <3> QED BY <1>c, <1>g, <2>5, <3>1 DEF Unsubscribe
  <2> QED BY <1>3, <2>1, <2>2, <2>3, <2>4, <2>5 DEF Transaction
<1>4. CASE UNCHANGED tables
  BY <1>4, <1>c, <1>g DEF tables, counters
<1>5. CASE ResetSubscriptions
  <2>1. \A p \in Profile : Sources({}, p) = {}
    BY DEF Sources
  <2>2. CountsSources(subscriptions', subscriberCount')
    BY <1>5, <2>1, FS_EmptySet DEF ResetSubscriptions, CountsSources
  <2> QED BY <1>5, <1>c, <1>g, <2>2 DEF ResetSubscriptions
<1> QED BY StepCases, <1>t, <1>1, <1>2, <1>3, <1>4, <1>5

\* The counters of every profile are the numbers of rows they summarise.
THEOREM CountersCorrect == Spec => []CountersExact
<1>1. Init => RowsInv /\ CountersExact
  BY InitRows, InitCounters
<1>2. RowsInv /\ CountersExact /\ [Next]_vars => (RowsInv /\ CountersExact)'
  BY NextRows, NextCounters
<1> QED BY <1>1, <1>2, PTL DEF Spec

-----------------------------------------------------------------------------
(* Account migration *)

LEMMA MigrationInitType == MigrationInit => MigrationTypeOK
BY InitType DEF MigrationInit, MigrationTypeOK

\* The steps of a move.
Moving ==
    \/ \E p, q \in Profile : HandleMove(p, q) \/ MoveFollowers(p, q)
    \/ MoveUnfollows
    \/ MovePassesOver
    \/ MoveFollows
    \/ MoveFollowed
    \/ MoveEnds
    \/ MoveFails

\* A step of a move is a step of Relationships or changes no table.
LEMMA MovingSteps ==
  ASSUME MigrationTypeOK, Moving
  PROVE  [Next]_vars
<1>1. CASE MoveUnfollows
  <2>1. PICK f \in move.todo \cap Local : UnfollowAccount(f, move.old)
    BY <1>1 DEF MoveUnfollows
  <2>2. f \in Profile /\ move.old \in Profile
    BY <1>1, RelationshipsAssumption DEF MoveUnfollows, MigrationTypeOK, Move
  <2> QED BY <2>1, <2>2 DEF Next
<1>2. CASE MoveFollows
  <2>1. move.follower \in Profile /\ move.new \in Profile
    BY <1>2 DEF MoveFollows, MigrationTypeOK, Move
  <2> QED BY <1>2, <2>1 DEF MoveFollows, Next
<1>3. CASE UNCHANGED vars
  BY <1>3
<1> QED BY <1>1, <1>2, <1>3
        DEF Moving, HandleMove, MoveFollowers, MovePassesOver, MoveFollowed, MoveEnds, MoveFails

LEMMA MovingType ==
  ASSUME MigrationTypeOK, Moving
  PROVE  move' \in Move \cup {NoMove}
<1> USE RelationshipsAssumption DEF MigrationTypeOK, Move
<1>1. ASSUME NEW p \in Profile, NEW q \in Profile, HandleMove(p, q)
      PROVE  move' \in Move
  BY <1>1 DEF HandleMove, Followers
<1>2. ASSUME NEW p \in Profile, NEW q \in Profile, MoveFollowers(p, q)
      PROVE  move' \in Move
  BY <1>2 DEF MoveFollowers
<1>3. CASE MoveUnfollows
  BY <1>3 DEF MoveUnfollows
<1>4. CASE MovePassesOver
  BY <1>4 DEF MovePassesOver
<1>5. CASE MoveFollows \/ MoveFollowed
  BY <1>5 DEF MoveFollows, MoveFollowed
<1>6. CASE MoveEnds \/ MoveFails
  BY <1>6 DEF MoveEnds, MoveFails
<1> QED BY <1>1, <1>2, <1>3, <1>4, <1>5, <1>6 DEF Moving

LEMMA MigrationSteps ==
  ASSUME MigrationTypeOK, [MigrationNext]_<<vars, move>>
  PROVE  [Next]_vars /\ MigrationTypeOK'
<1>1. [Next]_vars /\ move' \in Move \cup {NoMove}
  <2>1. CASE Moving
    BY <2>1, MovingSteps, MovingType
  <2>2. CASE UNCHANGED move /\ [Next]_vars
    BY <2>2 DEF MigrationTypeOK
  <2> QED BY <2>1, <2>2 DEF MigrationNext, Moving
<1>2. TypeOK'
  BY <1>1, NextType DEF MigrationTypeOK
<1> QED BY <1>1, <1>2 DEF MigrationTypeOK

\* The memory of a move, like the tables, keeps its type.
THEOREM MigrationTypeCorrect == MigrationSpec => []MigrationTypeOK
BY MigrationInitType, MigrationSteps, PTL DEF MigrationSpec

\* A server with moves implements Relationships.
THEOREM MigrationImplements == MigrationSpec => Spec
<1>1. MigrationInit => Init
  BY DEF MigrationInit
<1>2. MigrationTypeOK /\ [MigrationNext]_<<vars, move>> => [Next]_vars
  BY MigrationSteps
<1> QED BY <1>1, <1>2, MigrationTypeCorrect, PTL DEF MigrationSpec, Spec

\* Whatever moves do, the counters are the numbers of rows.
THEOREM MigrationCounters == MigrationSpec => []CountersExact
BY MigrationImplements, CountersCorrect

\* Nor do moves leave a follow of a remote party without its request, or a
\* status that the relationship contradicts, while transactions do not overlap.
THEOREM MigrationRequests == MigrationSpec => [](RemoteFollowHasRequest /\ RequestAgrees)
BY MigrationImplements, RemoteFollowHasRequestCorrect, RequestAgreesCorrect, PTL

-----------------------------------------------------------------------------
(* Custom emojis                                                           *)
(*                                                                         *)
(* CacheAgrees leaves out the emojis between two statements.  When the     *)
(* second statement has found its profiles the emoji counts again for      *)
(* those that it passes over since their copy does not name it: these must *)
(* have no row of it (RowsCached).  What it writes later is right unless   *)
(* it has been overtaken (CopiesMade).  Rows must name emojis that exist,  *)
(* which update_profile owes to the foreign key: an ID that a session      *)
(* holds is that of an existing emoji unless the row was deleted since,    *)
(* and then the session fails (HeldExist).                                 *)

\* A row of profile_emoji is in the copy, whatever version the copy has.
RowsCached == \A r \in rows : r \in missed \/ r[2] \in CachedIds(r[1])

\* The rows that a session computes copies from.
MadeFrom(s) ==
    IF session[s].pc = "commit" THEN {session[s].actor} \X session[s].got ELSE rows

\* A copy in the making is right unless it has been overtaken.
CopyMade(s) ==
    /\ session[s].pc = "commit" => DOMAIN copies[s] = {session[s].actor}
    /\ session[s].pc \in {"caching", "unlinking", "commit"} =>
         \A a \in DOMAIN copies[s] :
            <<s, a>> \notin late => copies[s][a] = EmojisOf(a, MadeFrom(s), emojis)

CopiesMade == \A s \in Session : CopyMade(s)

\* The local variables of a session are set where it uses them.
HasTag ==
    \A s \in Session :
        /\ Working(s, {"fetch", "caches", "caching"}) => session[s].tag \in Tag
        /\ Working(s, {"unlinked", "unlinking"}) => session[s].emoji \in Emoji
        /\ Working(s, {"commit"}) => ~session[s].lost

HeldExist ==
    \A s \in Session, e \in Emoji :
        Holds(s, e) /\ ~session[s].lost => e \in Existing

EmojisInv ==
    EmojisTypeOK /\ HasTag /\ HeldExist /\ RowsCached /\ CopiesMade /\ CacheAgrees

\* Where a session is tells what its local variables are.
LEMMA Stages ==
  ASSUME EmojisTypeOK, NEW s \in Session
  PROVE  /\ session[s] \in {Idle} \cup Refresh \cup Prune
         /\ Working(s, {"tags", "fetch", "caches", "caching", "commit"}) => session[s] \in Refresh
         /\ Working(s, {"prune", "unlinked", "unlinking"}) => session[s] \in Prune
BY DEF EmojisTypeOK, Working, Idle, Refresh, Prune

LEMMA InitEmojis == EmojisInit => EmojisInv
<1> SUFFICES ASSUME EmojisInit PROVE EmojisInv
  OBVIOUS
<1> USE DEF EmojisInit
<1>0. NoCopies \in Copies
  <2>1. NoCopies \in [{} -> SUBSET Tag] /\ {} \in SUBSET Actor
    BY DEF NoCopies
  <2> QED BY <2>1 DEF Copies
<1>1. EmojisTypeOK
  BY <1>0, EmojisAssumption DEF EmojisTypeOK, Absent
<1>2. HasTag /\ HeldExist /\ RowsCached /\ CopiesMade
  BY DEF HasTag, HeldExist, RowsCached, CopiesMade, CopyMade, Holds, Working, Idle
<1>3. CacheAgrees
  BY DEF CacheAgrees, EmojisOf
<1> QED BY <1>1, <1>2, <1>3 DEF EmojisInv

\* The emojis whose IDs are in the local variables x.
HeldIn(x) ==
    {e \in Emoji :
        \/ x.pc \in {"tags", "fetch", "caches", "caching", "commit"} /\ e \in x.got
        \/ x.pc = "fetch" /\ x.known /\ x.tag[1] = e
        \/ x.pc \in {"caches", "caching"} /\ x.tag[1] = e
        \/ x.pc \in {"prune", "unlinked", "unlinking"} /\ e \in x.todo}

\* Local variables that a session may have while there are these emojis.
Sound(x, existing) ==
    /\ x \in {Idle} \cup Refresh \cup Prune
    /\ x.pc \in {"fetch", "caches", "caching"} => x.tag \in Tag
    /\ x.pc \in {"unlinked", "unlinking"} => x.emoji \in Emoji
    /\ x.pc = "commit" => ~x.lost
    /\ x # Idle => x.lost \/ HeldIn(x) \subseteq existing

\* A step of session s that deletes no emoji.
Goes(s, x) ==
    /\ session' = [session EXCEPT ![s] = x]
    /\ \A e \in Existing : e \in Existing'

LEMMA SoundSessions ==
  session \in [Session -> {Idle} \cup Refresh \cup Prune]
    => (HasTag /\ HeldExist <=> \A s \in Session : Sound(session[s], Existing))
<1> SUFFICES ASSUME session \in [Session -> {Idle} \cup Refresh \cup Prune]
             PROVE  HasTag /\ HeldExist <=> \A s \in Session : Sound(session[s], Existing)
  OBVIOUS
<1>1. ASSUME NEW s \in Session
      PROVE  /\ \A e \in Emoji : Holds(s, e) <=> e \in HeldIn(session[s])
             /\ session[s] = Idle => HeldIn(session[s]) = {}
  BY DEF Holds, HeldIn, Working, Idle
<1>2. ASSUME HasTag, HeldExist, NEW s \in Session PROVE Sound(session[s], Existing)
  BY <1>1, <1>2 DEF HasTag, HeldExist, Sound, Working, HeldIn
<1>3. ASSUME \A s \in Session : Sound(session[s], Existing) PROVE HasTag /\ HeldExist
  BY <1>1, <1>3 DEF HasTag, HeldExist, Sound, Working
<1> QED BY <1>2, <1>3

\* Steps of refreshes.
LEMMA RefreshSteps ==
  ASSUME EmojisInv, NEW s \in Session,
         \/ \E a \in Actor : StartRefresh(s, a)
         \/ FindEmoji(s) \/ FetchEmoji(s) \/ SkipTag(s) \/ CreateEmoji(s)
         \/ UpdateEmoji(s) \/ UpdateEmojiRest(s) \/ EmojiUpdated(s)
         \/ UpdateProfile(s) \/ CommitProfile(s)
  PROVE  \E x : Goes(s, x) /\ Sound(x, Existing')
<1>s. /\ session \in [Session -> {Idle} \cup Refresh \cup Prune]
      /\ emojis \in [Emoji -> 0..MaxVersion]
      /\ Sound(session[s], Existing)
      /\ Working(s, {"tags", "fetch", "caches", "caching", "commit"}) => session[s] \in Refresh
  BY SoundSessions, Stages DEF EmojisInv, EmojisTypeOK
<1> DEFINE Result(x) == Goes(s, x) /\ Sound(x, Existing')
<1>1. ASSUME NEW a \in Actor, StartRefresh(s, a) PROVE \E x : Result(x)
  <2>1. PICK tags \in SUBSET Tag : session' = [session EXCEPT ![s] =
             [pc |-> "tags", actor |-> a, todo |-> tags, got |-> {},
              tag |-> Unset, known |-> FALSE, lost |-> FALSE]]
    BY <1>1 DEF StartRefresh
  <2> DEFINE x == [pc |-> "tags", actor |-> a, todo |-> tags, got |-> {},
                   tag |-> Unset, known |-> FALSE, lost |-> FALSE]
  <2>2. x \in Refresh /\ x.pc = "tags" /\ HeldIn(x) = {}
    BY DEF Refresh, HeldIn
  <2>3. Goes(s, x)
    BY <1>1, <2>1 DEF StartRefresh, Goes, Existing
  <2> QED BY <2>2, <2>3 DEF Sound
<1>2. CASE FindEmoji(s)
  <2>1. PICK t \in session[s].todo :
          /\ t[1] \in Existing
          /\ session' = [session EXCEPT ![s].todo = @ \ {t}, ![s].got = @ \cup {t[1]}]
    BY <1>2 DEF FindEmoji
  <2> DEFINE x == [session[s] EXCEPT !.todo = @ \ {t}, !.got = @ \cup {t[1]}]
  <2>2. session' = [session EXCEPT ![s] = x] /\ UNCHANGED emojis
    BY <1>s, <1>2, <2>1 DEF FindEmoji
  <2>3. session[s] \in Refresh /\ session[s].pc = "tags" /\ t[1] \in Emoji
    BY <1>s, <1>2, <2>1 DEF FindEmoji, Working, Existing
  <2>4. x \in Refresh
    BY <2>3 DEF Refresh
  <2>5. x.lost \/ HeldIn(x) \subseteq Existing
    BY <1>s, <2>1, <2>3 DEF Sound, HeldIn, Refresh, Idle
  <2> QED BY <2>2, <2>3, <2>4, <2>5 DEF Goes, Sound, Existing, HeldIn, Refresh
<1>3. CASE FetchEmoji(s)
  <2>1. PICK t \in session[s].todo :
          session' = [session EXCEPT ![s].todo = @ \ {t}, ![s].tag = t, ![s].pc = "fetch",
                                     ![s].known = t[1] \in Existing]
    BY <1>3 DEF FetchEmoji
  <2> DEFINE x == [session[s] EXCEPT !.todo = @ \ {t}, !.tag = t, !.pc = "fetch",
                                     !.known = t[1] \in Existing]
  <2>2. session' = [session EXCEPT ![s] = x] /\ UNCHANGED emojis
    BY <1>s, <1>3, <2>1 DEF FetchEmoji
  <2>3. session[s] \in Refresh /\ session[s].pc = "tags" /\ t \in Tag
    BY <1>s, <1>3, <2>1 DEF FetchEmoji, Working, Refresh
  <2>4. x \in Refresh /\ x.pc = "fetch" /\ x.tag \in Tag
    <3>1. (t[1] \in Existing) \in BOOLEAN
      OBVIOUS
    <3> QED BY <2>3, <3>1, Zenon DEF Refresh
  <2>5. x.lost \/ HeldIn(x) \subseteq Existing
    BY <1>s, <2>3 DEF Sound, HeldIn, Refresh, Idle
  <2> QED BY <2>2, <2>4, <2>5 DEF Goes, Sound, Existing, HeldIn
<1>4. CASE SkipTag(s)
  <2>1. CASE Working(s, {"tags"})
    <3>1. PICK t \in session[s].todo : session' = [session EXCEPT ![s].todo = @ \ {t}]
      BY <1>4, <2>1 DEF SkipTag, Working
    <3> DEFINE x == [session[s] EXCEPT !.todo = @ \ {t}]
    <3>2. session' = [session EXCEPT ![s] = x] /\ UNCHANGED emojis
      BY <1>s, <1>4, <3>1 DEF SkipTag
    <3>3. session[s] \in Refresh /\ session[s].pc = "tags"
      BY <1>s, <2>1 DEF Working
    <3>4. x \in Refresh /\ x.pc = "tags"
      BY <3>3 DEF Refresh
    <3>5. x.lost \/ HeldIn(x) \subseteq Existing
      BY <1>s, <3>3 DEF Sound, HeldIn, Refresh, Idle
    <3> QED BY <3>2, <3>4, <3>5 DEF Goes, Sound, Existing, HeldIn
  <2>2. CASE Working(s, {"fetch"})
    <3> DEFINE x == [session[s] EXCEPT !.pc = "tags", !.tag = Unset]
    <3>2. session' = [session EXCEPT ![s] = x] /\ UNCHANGED emojis
      BY <1>s, <1>4, <2>2 DEF SkipTag, Working
    <3>3. session[s] \in Refresh /\ session[s].pc = "fetch"
      BY <1>s, <2>2 DEF Working
    <3>4. x \in Refresh /\ x.pc = "tags"
      BY <3>3 DEF Refresh
    <3>5. x.lost \/ HeldIn(x) \subseteq Existing
      BY <1>s, <3>3 DEF Sound, HeldIn, Refresh, Idle
    <3> QED BY <3>2, <3>4, <3>5 DEF Goes, Sound, Existing, HeldIn
  <2> QED BY <1>4, <2>1, <2>2 DEF SkipTag
<1>5. CASE CreateEmoji(s)
  <2> DEFINE t == session[s].tag
             x == [session[s] EXCEPT !.pc = "tags", !.got = @ \cup {t[1]}, !.tag = Unset]
  <2>1. session[s] \in Refresh /\ session[s].pc = "fetch" /\ t \in Tag
    BY <1>s, <1>5 DEF CreateEmoji, Working, Sound
  <2>2. session' = [session EXCEPT ![s] = x]
    BY <1>s, <1>5 DEF CreateEmoji
  <2>3. Existing' = Existing \cup {t[1]}
    BY <1>s, <1>5, <2>1, EmojisAssumption DEF CreateEmoji, Existing, Tag, Version, Absent
  <2>4. x \in Refresh /\ x.pc = "tags"
    BY <2>1 DEF Refresh, Tag
  <2>5. x.lost \/ HeldIn(x) \subseteq Existing'
    BY <1>s, <2>1, <2>3 DEF Sound, HeldIn, Refresh, Idle
  <2> QED BY <2>2, <2>3, <2>4, <2>5 DEF Goes, Sound, HeldIn
<1>6. CASE UpdateEmoji(s)
  <2> DEFINE t == session[s].tag
             x == [session[s] EXCEPT !.pc = "caches"]
  <2>1. session[s] \in Refresh /\ session[s].pc = "fetch" /\ t \in Tag
    BY <1>s, <1>6 DEF UpdateEmoji, Working, Sound
  <2>2. session' = [session EXCEPT ![s] = x]
    BY <1>s, <1>6 DEF UpdateEmoji
  <2>3. Existing' = Existing \cup {t[1]}
    BY <1>s, <1>6, <2>1, EmojisAssumption DEF UpdateEmoji, Existing, Tag, Version, Absent
  <2>4. x \in Refresh /\ x.pc = "caches" /\ x.tag = t
    BY <2>1 DEF Refresh, Tag
  <2>5. x.lost \/ HeldIn(x) \subseteq Existing'
    BY <1>s, <2>1, <2>3 DEF Sound, HeldIn, Refresh, Idle
  <2> QED BY <2>1, <2>2, <2>3, <2>4, <2>5 DEF Goes, Sound, HeldIn
<1>7. CASE UpdateEmojiRest(s)
  <2> DEFINE x == [session[s] EXCEPT !.pc = "caching"]
  <2>1. session[s] \in Refresh /\ session[s].pc = "caches" /\ session[s].tag \in Tag
    BY <1>s, <1>7 DEF UpdateEmojiRest, Working, Sound
  <2>2. session' = [session EXCEPT ![s] = x] /\ UNCHANGED emojis
    BY <1>s, <1>7 DEF UpdateEmojiRest
  <2>3. x \in Refresh /\ x.pc = "caching" /\ x.tag = session[s].tag
    BY <2>1 DEF Refresh
  <2>4. x.lost \/ HeldIn(x) \subseteq Existing
    BY <1>s, <2>1 DEF Sound, HeldIn, Refresh, Idle
  <2> QED BY <2>1, <2>2, <2>3, <2>4 DEF Goes, Sound, Existing, HeldIn
<1>8. CASE EmojiUpdated(s)
  <2> DEFINE t == session[s].tag
             x == [session[s] EXCEPT !.pc = "tags", !.got = @ \cup {t[1]}, !.tag = Unset]
  <2>1. session[s] \in Refresh /\ session[s].pc = "caching" /\ t \in Tag
    BY <1>s, <1>8 DEF EmojiUpdated, Working, Sound
  <2>2. session' = [session EXCEPT ![s] = x] /\ UNCHANGED emojis
    BY <1>s, <1>8 DEF EmojiUpdated
  <2>3. x \in Refresh /\ x.pc = "tags"
    BY <2>1 DEF Refresh, Tag
  <2>4. x.lost \/ HeldIn(x) \subseteq Existing
    BY <1>s, <2>1 DEF Sound, HeldIn, Refresh, Idle
  <2> QED BY <2>2, <2>3, <2>4 DEF Goes, Sound, Existing, HeldIn
<1>9. CASE UpdateProfile(s)
  <2> DEFINE x == [session[s] EXCEPT !.pc = "commit"]
  <2>1. session[s] \in Refresh /\ session[s].pc = "tags" /\ ~session[s].lost
    BY <1>s, <1>9 DEF UpdateProfile, Working
  <2>2. session' = [session EXCEPT ![s] = x] /\ UNCHANGED emojis
    BY <1>s, <1>9 DEF UpdateProfile
  <2>3. x \in Refresh /\ x.pc = "commit" /\ ~x.lost
    BY <2>1 DEF Refresh
  <2>4. HeldIn(x) \subseteq Existing
    BY <1>s, <2>1 DEF Sound, HeldIn, Refresh, Idle
  <2> QED BY <2>2, <2>3, <2>4 DEF Goes, Sound, Existing, HeldIn
<1>10. CASE CommitProfile(s)
  <2>1. Goes(s, Idle)
    BY <1>10 DEF CommitProfile, Goes, Existing
  <2> QED BY <2>1 DEF Sound, Idle
<1> QED BY <1>1, <1>2, <1>3, <1>4, <1>5, <1>6, <1>7, <1>8, <1>9, <1>10

\* Steps that prune emojis but delete none, and failures.
LEMMA PruneSteps ==
  ASSUME EmojisInv, NEW s \in Session,
         FindUnused(s) \/ DeleteEmojiRest(s) \/ EmojiDeleted(s) \/ Fail(s)
  PROVE  \E x : Goes(s, x) /\ Sound(x, Existing')
<1>s. /\ session \in [Session -> {Idle} \cup Refresh \cup Prune]
      /\ Sound(session[s], Existing)
      /\ Working(s, {"prune", "unlinked", "unlinking"}) => session[s] \in Prune
  BY SoundSessions, Stages DEF EmojisInv, EmojisTypeOK
<1>1. CASE FindUnused(s)
  <2>1. PICK found \in SUBSET Existing : session' = [session EXCEPT ![s] =
             [pc |-> "prune", todo |-> found, emoji |-> Unset, lost |-> FALSE]]
    BY <1>1 DEF FindUnused
  <2> DEFINE x == [pc |-> "prune", todo |-> found, emoji |-> Unset, lost |-> FALSE]
  <2>2. x \in Prune /\ x.pc = "prune" /\ HeldIn(x) \subseteq Existing
    BY DEF Prune, HeldIn, Existing
  <2> QED BY <1>1, <2>1, <2>2 DEF FindUnused, Goes, Sound, Existing, HeldIn
<1>2. CASE DeleteEmojiRest(s)
  <2> DEFINE x == [session[s] EXCEPT !.pc = "unlinking"]
  <2>1. session[s] \in Prune /\ session[s].pc = "unlinked" /\ session[s].emoji \in Emoji
    BY <1>s, <1>2 DEF DeleteEmojiRest, Working, Sound
  <2>2. session' = [session EXCEPT ![s] = x] /\ UNCHANGED emojis
    BY <1>s, <1>2 DEF DeleteEmojiRest
  <2>3. x \in Prune /\ x.pc = "unlinking" /\ x.emoji = session[s].emoji
    BY <2>1 DEF Prune
  <2>4. x.lost \/ HeldIn(x) \subseteq Existing
    BY <1>s, <2>1 DEF Sound, HeldIn, Prune, Idle
  <2> QED BY <2>1, <2>2, <2>3, <2>4 DEF Goes, Sound, Existing, HeldIn
<1>3. CASE EmojiDeleted(s)
  <2>1. session[s] \in Prune /\ session[s].pc = "unlinking"
    BY <1>s, <1>3 DEF EmojiDeleted, Working
  <2>2. CASE session[s].todo = {}
    <3>1. Goes(s, Idle)
      BY <1>s, <1>3, <2>2 DEF EmojiDeleted, Goes, Existing
    <3> QED BY <3>1 DEF Sound, Idle
  <2>3. CASE session[s].todo # {}
    <3> DEFINE x == [session[s] EXCEPT !.pc = "prune", !.emoji = Unset]
    <3>1. session' = [session EXCEPT ![s] = x] /\ UNCHANGED emojis
      BY <1>s, <1>3, <2>3 DEF EmojiDeleted
    <3>2. x \in Prune /\ x.pc = "prune"
      BY <2>1 DEF Prune
    <3>3. x.lost \/ HeldIn(x) \subseteq Existing
      BY <1>s, <2>1 DEF Sound, HeldIn, Prune, Idle
    <3> QED BY <3>1, <3>2, <3>3 DEF Goes, Sound, Existing, HeldIn
  <2> QED BY <2>2, <2>3
<1>4. CASE Fail(s)
  <2>1. Goes(s, Idle)
    BY <1>4 DEF Fail, Goes, Existing
  <2> QED BY <2>1 DEF Sound, Idle
<1> QED BY <1>1, <1>2, <1>3, <1>4

\* The session that deletes an emoji no longer has it on its list, and all
\* others that hold its ID have lost it.
LEMMA DeleteStep ==
  ASSUME EmojisInv, NEW s \in Session, NEW e \in Emoji, DeleteEmoji(s, e)
  PROVE  /\ session' \in [Session -> {Idle} \cup Refresh \cup Prune]
         /\ \A t \in Session : Sound(session'[t], Existing')
<1>s. /\ session \in [Session -> {Idle} \cup Refresh \cup Prune]
      /\ \A t \in Session : Sound(session[t], Existing)
      /\ Working(s, {"prune", "unlinked", "unlinking"}) => session[s] \in Prune
  BY SoundSessions, Stages DEF EmojisInv, EmojisTypeOK
<1>e. Existing' = Existing \ {e}
  BY DEF EmojisInv, EmojisTypeOK, DeleteEmoji, Existing
<1> DEFINE x == [session[s] EXCEPT !.pc = "unlinked", !.todo = @ \ {e}, !.emoji = e]
<1>1. session[s] \in Prune /\ session[s].pc = "prune"
  BY <1>s DEF DeleteEmoji, Working
<1>2. session'[s] = x /\ x \in Prune /\ Sound(x, Existing')
  <2>1. session'[s] = x
    BY DEF DeleteEmoji
  <2>2. x \in Prune /\ x.pc = "unlinked" /\ x.emoji = e
    BY <1>1 DEF Prune
  <2>3. x.lost \/ HeldIn(x) \subseteq Existing'
    BY <1>s, <1>e, <1>1 DEF Sound, HeldIn, Prune, Idle
  <2> QED BY <2>1, <2>2, <2>3 DEF Sound, HeldIn
<1>3. ASSUME NEW t \in Session, t # s
      PROVE  /\ session'[t] \in {Idle} \cup Refresh \cup Prune
             /\ Sound(session'[t], Existing')
  <2>1. CASE Holds(t, e)
    <3>1. session'[t] = [session[t] EXCEPT !.lost = TRUE]
      BY <1>3, <2>1 DEF DeleteEmoji
    <3>2. session[t] \in Refresh \cup Prune
      BY <1>s, <2>1 DEF Holds, Working, Idle
    <3>3. /\ session'[t] \in Refresh \cup Prune /\ session'[t].lost
          /\ session'[t].pc = session[t].pc
          /\ session[t] \in Refresh => session'[t].tag = session[t].tag
          /\ session[t] \in Prune => session'[t].emoji = session[t].emoji
      BY <3>1, <3>2 DEF Refresh, Prune
    <3>4. Sound(session[t], Existing) /\ session[t].pc # "commit"
      BY <1>s, <2>1 DEF DeleteEmoji, Using, Holds, Working
    <3>5. /\ session[t].pc \in {"fetch", "caches", "caching"} => session[t] \in Refresh
          /\ session[t].pc \in {"unlinked", "unlinking"} => session[t] \in Prune
      BY <3>2 DEF Refresh, Prune
    <3> QED BY <3>3, <3>4, <3>5 DEF Sound
  <2>2. CASE ~Holds(t, e)
    <3>1. session'[t] = session[t]
      BY <1>3, <2>2 DEF DeleteEmoji
    <3>2. session[t] # Idle => e \notin HeldIn(session[t])
      BY <2>2 DEF Holds, HeldIn, Working
    <3> QED BY <1>s, <1>e, <3>1, <3>2 DEF Sound, HeldIn
  <2> QED BY <2>1, <2>2
<1>4. session' \in [Session -> {Idle} \cup Refresh \cup Prune]
  <2> DEFINE next(t) == IF t = s THEN x
                        ELSE IF Holds(t, e) THEN [session[t] EXCEPT !.lost = TRUE]
                        ELSE session[t]
  <2>1. session' = [t \in Session |-> next(t)]
    BY DEF DeleteEmoji
  <2>2. \A t \in Session : next(t) \in {Idle} \cup Refresh \cup Prune
    BY <1>2, <1>3, <2>1
  <2> HIDE DEF next
  <2> QED BY <2>1, <2>2
<1> QED BY <1>2, <1>3, <1>4

LEMMA NextSessions ==
  ASSUME EmojisInv, [EmojisNext]_emojisVars
  PROVE  /\ session' \in [Session -> {Idle} \cup Refresh \cup Prune]
         /\ (HasTag /\ HeldExist)'
<1> DEFINE Goal == /\ session' \in [Session -> {Idle} \cup Refresh \cup Prune]
                   /\ \A t \in Session : Sound(session'[t], Existing')
<1>s. /\ session \in [Session -> {Idle} \cup Refresh \cup Prune]
      /\ \A t \in Session : Sound(session[t], Existing)
  BY SoundSessions DEF EmojisInv, EmojisTypeOK
<1>1. ASSUME NEW s \in Session, NEW x, Goes(s, x), Sound(x, Existing') PROVE Goal
  <2>1. session' \in [Session -> {Idle} \cup Refresh \cup Prune]
    BY <1>s, <1>1 DEF Goes, Sound
  <2>2. session'[s] = x /\ \A t \in Session \ {s} : session'[t] = session[t]
    BY <1>s, <1>1 DEF Goes
  <2>3. \A t \in Session \ {s} : Sound(session'[t], Existing')
    BY <1>s, <1>1, <2>2 DEF Goes, Sound, HeldIn
  <2> QED BY <1>1, <2>1, <2>2, <2>3
<1>2. ASSUME UNCHANGED emojisVars PROVE Goal
  <2>1. session' = session /\ Existing' = Existing
    BY <1>2 DEF emojisVars, Existing
  <2> QED BY <1>s, <2>1 DEF Sound
<1>3. ASSUME NEW s \in Session,
             \/ \E a \in Actor : StartRefresh(s, a)
             \/ FindEmoji(s) \/ FetchEmoji(s) \/ SkipTag(s) \/ CreateEmoji(s)
             \/ UpdateEmoji(s) \/ UpdateEmojiRest(s) \/ EmojiUpdated(s)
             \/ UpdateProfile(s) \/ CommitProfile(s)
      PROVE  Goal
  <2>1. PICK x : Goes(s, x) /\ Sound(x, Existing')
    BY <1>3, RefreshSteps
  <2> QED BY <1>1, <2>1
<1>4. ASSUME NEW s \in Session, FindUnused(s) \/ DeleteEmojiRest(s) \/ EmojiDeleted(s) \/ Fail(s)
      PROVE  Goal
  <2>1. PICK x : Goes(s, x) /\ Sound(x, Existing')
    BY <1>4, PruneSteps
  <2> QED BY <1>1, <2>1
<1>5. ASSUME NEW s \in Session, NEW e \in Emoji, DeleteEmoji(s, e) PROVE Goal
  BY <1>5, DeleteStep
<1>6. Goal
  <2> HIDE DEF Goal
  <2>1. ASSUME EmojisNext PROVE Goal
    <3>1. PICK s \in Session :
            \/ \/ \E a \in Actor : StartRefresh(s, a)
               \/ FindEmoji(s) \/ FetchEmoji(s) \/ SkipTag(s) \/ CreateEmoji(s)
               \/ UpdateEmoji(s) \/ UpdateEmojiRest(s) \/ EmojiUpdated(s)
               \/ UpdateProfile(s) \/ CommitProfile(s)
            \/ FindUnused(s) \/ DeleteEmojiRest(s) \/ EmojiDeleted(s) \/ Fail(s)
            \/ \E e \in Emoji : DeleteEmoji(s, e)
      BY <2>1 DEF EmojisNext
    <3> QED BY <1>3, <1>4, <1>5, <3>1
  <2> QED BY <1>2, <2>1
<1>7. (session \in [Session -> {Idle} \cup Refresh \cup Prune]
        => (HasTag /\ HeldExist <=> \A s \in Session : Sound(session[s], Existing)))'
  BY SoundSessions, PTL
<1> QED BY <1>6, <1>7
-----------------------------------------------------------------------------
(* The copies *)

LEMMA EmojisOfIs ==
  ASSUME NEW a, NEW links, NEW images
  PROVE  \A c : c \in EmojisOf(a, links, images)
                  <=> \E e \in Emoji : <<a, e>> \in links /\ c = <<e, images[e]>>
BY DEF EmojisOf

LEMMA EmojisOfSame ==
  ASSUME NEW a, NEW links, NEW links2, NEW images, NEW images2,
         \A e \in Emoji : <<a, e>> \in links <=> <<a, e>> \in links2,
         \A e \in Emoji : <<a, e>> \in links => images[e] = images2[e]
  PROVE  EmojisOf(a, links, images) = EmojisOf(a, links2, images2)
<1>1. ASSUME NEW c PROVE c \in EmojisOf(a, links, images) => c \in EmojisOf(a, links2, images2)
  <2> SUFFICES ASSUME c \in EmojisOf(a, links, images) PROVE c \in EmojisOf(a, links2, images2)
    OBVIOUS
  <2>1. PICK e \in Emoji : <<a, e>> \in links /\ c = <<e, images[e]>>
    BY EmojisOfIs
  <2>2. <<a, e>> \in links2 /\ c = <<e, images2[e]>>
    BY <2>1
  <2> QED BY <2>2, EmojisOfIs
<1>2. ASSUME NEW c PROVE c \in EmojisOf(a, links2, images2) => c \in EmojisOf(a, links, images)
  <2> SUFFICES ASSUME c \in EmojisOf(a, links2, images2) PROVE c \in EmojisOf(a, links, images)
    OBVIOUS
  <2>1. PICK e \in Emoji : <<a, e>> \in links2 /\ c = <<e, images2[e]>>
    BY EmojisOfIs
  <2>2. <<a, e>> \in links /\ c = <<e, images[e]>>
    BY <2>1
  <2> QED BY <2>2, EmojisOfIs
<1> QED BY <1>1, <1>2

\* update_emoji_cache makes a copy of versions that exist, and of nothing but rows.
LEMMA EmojisOfTyped ==
  ASSUME EmojisTypeOK, NEW a \in Actor, NEW links, links \subseteq Actor \X Existing
  PROVE  /\ EmojisOf(a, links, emojis) \in SUBSET Tag
         /\ \A e \in Emoji : <<a, e>> \in links
                <=> \E c \in EmojisOf(a, links, emojis) : c[1] = e
<1>1. \A e \in Emoji : <<a, e>> \in links => <<e, emojis[e]>> \in Tag
  BY EmojisAssumption DEF EmojisTypeOK, Existing, Tag, Version, Absent
<1>2. ASSUME NEW e \in Emoji
      PROVE  <<a, e>> \in links <=> \E c \in EmojisOf(a, links, emojis) : c[1] = e
  <2>1. ASSUME <<a, e>> \in links PROVE \E c \in EmojisOf(a, links, emojis) : c[1] = e
    <3>1. <<e, emojis[e]>> \in EmojisOf(a, links, emojis)
      BY <2>1, EmojisOfIs
    <3> QED BY <3>1
  <2>2. ASSUME NEW c \in EmojisOf(a, links, emojis), c[1] = e PROVE <<a, e>> \in links
    <3>1. PICK f \in Emoji : <<a, f>> \in links /\ c = <<f, emojis[f]>>
      BY EmojisOfIs
    <3> QED BY <2>2, <3>1
  <2> QED BY <2>1, <2>2
<1>3. ASSUME NEW c \in EmojisOf(a, links, emojis) PROVE c \in Tag
  <2>1. PICK f \in Emoji : <<a, f>> \in links /\ c = <<f, emojis[f]>>
    BY EmojisOfIs
  <2> QED BY <1>1, <2>1
<1> QED BY <1>2, <1>3

\* What a session computes is a copy of some profiles.
LEMMA CopiesTyped ==
  ASSUME EmojisTypeOK, NEW some \in SUBSET Actor, NEW links, links \subseteq Actor \X Existing
  PROVE  [a \in some |-> EmojisOf(a, links, emojis)] \in Copies
<1>1. \A a \in some : EmojisOf(a, links, emojis) \in SUBSET Tag
  BY EmojisOfTyped
<1>2. [a \in some |-> EmojisOf(a, links, emojis)] \in [some -> SUBSET Tag]
  BY <1>1
<1> QED BY <1>2 DEF Copies

LEMMA CopiesAre ==
  ASSUME EmojisTypeOK, NEW s \in Session
  PROVE  /\ DOMAIN copies[s] \subseteq Actor
         /\ \A a \in DOMAIN copies[s] : copies[s][a] \in SUBSET Tag
<1>1. PICK some \in SUBSET Actor : copies[s] \in [some -> SUBSET Tag]
  BY DEF EmojisTypeOK, Copies
<1> QED BY <1>1

LEMMA NothingMade == NoCopies \in Copies
<1>1. NoCopies \in [{} -> SUBSET Tag] /\ {} \in SUBSET Actor
  BY DEF NoCopies
<1> QED BY <1>1 DEF Copies

LEMMA StoreTyped ==
  ASSUME EmojisTypeOK, NEW s \in Session, StoreCopies(s)
  PROVE  /\ cache' \in [Actor -> SUBSET Tag] /\ copies' \in [Session -> Copies]
         /\ missed' \subseteq Actor \X Emoji
<1>1. \A a \in Actor : (IF a \in DOMAIN copies[s] THEN copies[s][a] ELSE cache[a]) \in SUBSET Tag
  BY CopiesAre DEF EmojisTypeOK
<1>2. cache' \in [Actor -> SUBSET Tag]
  BY <1>1 DEF StoreCopies
<1> QED BY <1>2, NothingMade DEF StoreCopies, EmojisTypeOK

\* Types after a step.
LEMMA NextTypes ==
  ASSUME EmojisInv, [EmojisNext]_emojisVars
  PROVE  EmojisTypeOK'
<1>s. session' \in [Session -> {Idle} \cup Refresh \cup Prune]
  BY NextSessions
<1>t. /\ EmojisTypeOK
      /\ \A s \in Session : Sound(session[s], Existing)
      /\ \A s \in Session :
           Working(s, {"tags", "fetch", "caches", "caching", "commit"}) => session[s] \in Refresh
  BY SoundSessions, Stages DEF EmojisInv, EmojisTypeOK
<1>i. ASSUME NEW s \in Session PROVE Pending(s) \subseteq Actor \X Emoji
  <2>1. DOMAIN copies[s] \subseteq Actor
    BY <1>t, CopiesAre
  <2>2. /\ Working(s, {"caches"}) \/ Working(s, {"caching"}) => session[s].tag[1] \in Emoji
        /\ Working(s, {"unlinked"}) \/ Working(s, {"unlinking"}) => session[s].emoji \in Emoji
    BY <1>t DEF Working, Sound, Tag
  <2> QED BY <2>1, <2>2 DEF Pending
<1> DEFINE Tables == /\ emojis' \in [Emoji -> 0..MaxVersion]
                     /\ rows' \subseteq Actor \X Existing'
           Made == /\ copies' \in [Session -> Copies]
                   /\ late' \subseteq Session \X Actor
           Goal == Tables /\ Made /\ cache' \in [Actor -> SUBSET Tag] /\ missed' \subseteq Actor \X Emoji
<1>n. ASSUME NEW e PROVE MadeNaming(e) \subseteq Session \X Actor
  BY DEF MadeNaming
<1>1. ASSUME UNCHANGED <<emojis, rows>> PROVE Tables
  BY <1>1, <1>t DEF EmojisTypeOK, Existing
<1>2. ASSUME NEW s \in Session, CreateEmoji(s) \/ UpdateEmoji(s) PROVE Goal
  <2> DEFINE t == session[s].tag
  <2>1. t \in Tag
    BY <1>t, <1>2 DEF CreateEmoji, UpdateEmoji, Working, Sound
  <2>2. emojis' = [emojis EXCEPT ![t[1]] = t[2]] /\ UNCHANGED <<rows, cache, copies, missed>>
    BY <1>2 DEF CreateEmoji, UpdateEmoji
  <2>3. emojis' \in [Emoji -> 0..MaxVersion] /\ Existing' = Existing \cup {t[1]}
    BY <1>t, <2>1, <2>2, EmojisAssumption DEF EmojisTypeOK, Existing, Tag, Version, Absent
  <2>4. late' \subseteq Session \X Actor
    BY <1>t, <1>2, <1>n DEF CreateEmoji, UpdateEmoji, EmojisTypeOK
  <2> QED BY <1>t, <2>2, <2>3, <2>4 DEF EmojisTypeOK
<1>3. ASSUME NEW s \in Session, UpdateEmojiRest(s) \/ DeleteEmojiRest(s) PROVE Goal
  <2>1. PICK e : copies' = [copies EXCEPT ![s] = UpdateEmojiCaches(e)]
    BY <1>3 DEF UpdateEmojiRest, DeleteEmojiRest
  <2>2. UpdateEmojiCaches(e) \in Copies
    BY <1>t, CopiesTyped DEF UpdateEmojiCaches, EmojisTypeOK
  <2> QED BY <1>1, <1>3, <1>t, <2>1, <2>2 DEF UpdateEmojiRest, DeleteEmojiRest, EmojisTypeOK
<1>4. ASSUME NEW s \in Session, EmojiUpdated(s) \/ EmojiDeleted(s) PROVE Goal
  BY <1>1, <1>4, <1>t, StoreTyped DEF EmojiUpdated, EmojiDeleted, EmojisTypeOK
<1>p. ASSUME NEW s \in Session, UpdateProfile(s) \/ CommitProfile(s)
      PROVE  {session[s].actor} \X session[s].got \subseteq Actor \X Existing
  <2>1. session[s] \in Refresh /\ session[s].pc \in {"tags", "commit"} /\ ~session[s].lost
    BY <1>t, <1>p DEF UpdateProfile, CommitProfile, Working, Sound
  <2>2. HeldIn(session[s]) \subseteq Existing
    BY <1>t, <2>1 DEF Sound, Idle, Refresh
  <2>3. session[s].actor \in Actor /\ session[s].got \subseteq Existing
    BY <2>1, <2>2 DEF Refresh, HeldIn
  <2> QED BY <2>3
<1>5. ASSUME NEW s \in Session, UpdateProfile(s) PROVE Goal
  <2> DEFINE links == {session[s].actor} \X session[s].got
  <2>1. PICK new : new = [a \in {session[s].actor} |-> EmojisOf(a, links, emojis)]
    OBVIOUS
  <2>2. copies' = [copies EXCEPT ![s] = new]
    BY <1>5, <2>1 DEF UpdateProfile
  <2>3. links \subseteq Actor \X Existing
    BY <1>5, <1>p
  <2>4. {session[s].actor} \in SUBSET Actor
    BY <1>t, <1>5 DEF UpdateProfile, Working, Refresh
  <2> HIDE DEF links
  <2>5. new \in Copies
    BY <1>t, <2>1, <2>3, <2>4, CopiesTyped
  <2> QED BY <1>1, <1>5, <1>t, <2>2, <2>5 DEF UpdateProfile, EmojisTypeOK
<1>6. ASSUME NEW s \in Session, CommitProfile(s) PROVE Goal
  <2>1. {session[s].actor} \X session[s].got \subseteq Actor \X Existing
    BY <1>6, <1>p
  <2>2. rows' \subseteq Actor \X Existing /\ UNCHANGED emojis
    BY <1>t, <1>6, <2>1 DEF CommitProfile, EmojisTypeOK
  <2>3. Tables
    BY <1>t, <2>2 DEF EmojisTypeOK, Existing
  <2>4. session[s].actor \in Actor
    BY <1>t, <1>6 DEF CommitProfile, Working, Refresh
  <2>5. late' \subseteq Session \X Actor
    BY <1>t, <1>6, <2>4 DEF CommitProfile, MadeOf, EmojisTypeOK
  <2> QED BY <1>t, <1>6, <2>3, <2>5, StoreTyped DEF CommitProfile
<1>7. ASSUME NEW s \in Session, NEW e \in Emoji, DeleteEmoji(s, e) PROVE Goal
  <2>1. /\ emojis' = [emojis EXCEPT ![e] = Absent] /\ rows' = {r \in rows : r[2] # e}
        /\ UNCHANGED <<cache, copies, missed>> /\ late' = late \cup MadeNaming(e)
    BY <1>7 DEF DeleteEmoji
  <2>2. emojis' \in [Emoji -> 0..MaxVersion] /\ Existing' = Existing \ {e}
    BY <1>t, <2>1, EmojisAssumption DEF EmojisTypeOK, Existing, Absent
  <2> QED BY <1>t, <1>n, <2>1, <2>2 DEF EmojisTypeOK
<1>8. ASSUME NEW s \in Session, Fail(s) PROVE Goal
  BY <1>1, <1>i, <1>8, <1>t, NothingMade DEF Fail, EmojisTypeOK
<1>9. ASSUME UNCHANGED <<emojis, rows, cache, copies, late, missed>> PROVE Goal
  BY <1>1, <1>9, <1>t DEF EmojisTypeOK
<1>10. ASSUME EmojisNext PROVE Goal
  <2> HIDE DEF Goal
  <2>1. PICK s \in Session :
          \/ \/ \E a \in Actor : StartRefresh(s, a)
             \/ FindEmoji(s) \/ FetchEmoji(s) \/ SkipTag(s) \/ FindUnused(s)
          \/ CreateEmoji(s) \/ UpdateEmoji(s)
          \/ UpdateEmojiRest(s) \/ DeleteEmojiRest(s) \/ EmojiUpdated(s) \/ EmojiDeleted(s)
          \/ UpdateProfile(s) \/ CommitProfile(s) \/ Fail(s)
          \/ \E e \in Emoji : DeleteEmoji(s, e)
    BY <1>10 DEF EmojisNext
  <2>2. CASE \/ \E a \in Actor : StartRefresh(s, a)
             \/ FindEmoji(s) \/ FetchEmoji(s) \/ SkipTag(s) \/ FindUnused(s)
    BY <1>9, <2>2 DEF StartRefresh, FindEmoji, FetchEmoji, SkipTag, FindUnused
  <2> QED BY <1>2, <1>3, <1>4, <1>5, <1>6, <1>7, <1>8, <2>1, <2>2
<1> QED
  <2>1. Goal
    <3>1. UNCHANGED emojisVars => UNCHANGED <<emojis, rows, cache, copies, late, missed>>
      BY DEF emojisVars
    <3> HIDE DEF Goal
    <3> QED BY <1>9, <1>10, <3>1
  <2> QED BY <1>s, <2>1 DEF EmojisTypeOK

-----------------------------------------------------------------------------
(* What a step does to the copies *)

\* A copy of profile a is right about emoji e.
Right(shown, a, e, links, images) ==
    \A v \in Version : <<e, v>> \in shown <=> <<a, e>> \in links /\ images[e] = v

LEMMA EmojisRight ==
  ASSUME EmojisTypeOK, NEW a \in Actor, NEW e \in Emoji, NEW links
  PROVE  Right(EmojisOf(a, links, emojis), a, e, links, emojis)
<1>1. ASSUME NEW v \in Version
      PROVE  <<e, v>> \in EmojisOf(a, links, emojis) <=> <<a, e>> \in links /\ emojis[e] = v
  <2>1. ASSUME <<e, v>> \in EmojisOf(a, links, emojis) PROVE <<a, e>> \in links /\ emojis[e] = v
    <3>1. PICK f \in Emoji : <<a, f>> \in links /\ <<e, v>> = <<f, emojis[f]>>
      BY <2>1, EmojisOfIs
    <3> QED BY <3>1
  <2>2. ASSUME <<a, e>> \in links, emojis[e] = v PROVE <<e, v>> \in EmojisOf(a, links, emojis)
    <3>1. <<a, e>> \in links /\ <<e, v>> = <<e, emojis[e]>>
      BY <2>2
    <3> QED BY <3>1, EmojisOfIs
  <2> QED BY <2>1, <2>2
<1> QED BY <1>1 DEF Right

\* CacheAgrees, one emoji at a time.
AllRight ==
    \A a \in Actor, e \in Emoji :
        <<a, e>> \notin Unfinished => Right(cache[a], a, e, rows, emojis)

LEMMA AgreesPointwise == EmojisTypeOK => (CacheAgrees <=> AllRight)
<1> SUFFICES ASSUME EmojisTypeOK PROVE CacheAgrees <=> AllRight
  OBVIOUS
<1>t. ASSUME NEW a \in Actor
      PROVE  cache[a] \subseteq Tag /\ EmojisOf(a, rows, emojis) \subseteq Tag
  BY EmojisTypeOK, EmojisOfTyped DEF EmojisTypeOK
<1>v. ASSUME NEW c \in Tag PROVE c[1] \in Emoji /\ c[2] \in Version /\ c = <<c[1], c[2]>>
  BY DEF Tag
<1>w. ASSUME NEW e \in Emoji, NEW v \in Version
      PROVE  <<e, v>> \in Tag /\ <<e, v>>[1] = e /\ <<e, v>>[2] = v
  BY DEF Tag
<1>1. ASSUME CacheAgrees, NEW a \in Actor, NEW e \in Emoji, <<a, e>> \notin Unfinished
      PROVE  Right(cache[a], a, e, rows, emojis)
  <2>1. ASSUME NEW v \in Version
        PROVE  <<e, v>> \in cache[a] <=> <<e, v>> \in EmojisOf(a, rows, emojis)
    <3>1. PICK c : c = <<e, v>>
      OBVIOUS
    <3>2. c[1] = e
      BY <3>1
    <3>3. c \in cache[a] <=> c \in EmojisOf(a, rows, emojis)
      BY <1>1, <3>2 DEF CacheAgrees
    <3> QED BY <3>1, <3>3
  <2> QED BY <2>1, EmojisRight DEF Right
<1>2. ASSUME AllRight PROVE CacheAgrees
  <2>1. ASSUME NEW a \in Actor, NEW c \in Tag, <<a, c[1]>> \notin Unfinished
        PROVE  c \in cache[a] <=> c \in EmojisOf(a, rows, emojis)
    <3>1. PICK e \in Emoji, v \in Version : c = <<e, v>> /\ c[1] = e
      BY <1>v
    <3>2. Right(cache[a], a, e, rows, emojis)
      BY <1>2, <2>1, <3>1 DEF AllRight
    <3> QED BY <3>1, <3>2, EmojisRight DEF Right
  <2> QED BY <1>t, <2>1 DEF CacheAgrees
<1> QED BY <1>1, <1>2 DEF AllRight

\* What the properties read of a session does not change.
Same(t) ==
    /\ copies'[t] = copies[t]
    /\ session'[t].pc = session[t].pc
    /\ session[t].pc \in {"caches", "caching"} => session'[t].tag = session[t].tag
    /\ session[t].pc \in {"unlinked", "unlinking"} => session'[t].emoji = session[t].emoji
    /\ session[t].pc = "commit" =>
         session'[t].actor = session[t].actor /\ session'[t].got = session[t].got

\* No session but s does anything.
Alone(s) == \A t \in Session \ {s} : Same(t)

LEMMA SameMeans ==
  ASSUME NEW t \in Session, Same(t)
  PROVE  /\ Pending(t)' = Pending(t)
         /\ MadeFrom(t)' = IF session[t].pc = "commit" THEN MadeFrom(t) ELSE rows'
BY DEF Same, Pending, Working, MadeFrom

LEMMA UnfinishedAfter ==
  ASSUME NEW s \in Session, Alone(s)
  PROVE  \A m : /\ m \in Unfinished <=>
                     m \in missed \/ m \in Pending(s) \/ \E t \in Session \ {s} : m \in Pending(t)
                /\ m \in Unfinished' <=>
                     m \in missed' \/ m \in Pending(s)' \/ \E t \in Session \ {s} : m \in Pending(t)
<1>1. \A t \in Session \ {s} : Pending(t)' = Pending(t)
  BY SameMeans DEF Alone
<1> QED BY <1>1 DEF Unfinished

\* The copy that another session is making stays right.
LEMMA StaysMade ==
  ASSUME NEW t \in Session, Same(t), CopyMade(t),
         \A a \in DOMAIN copies[t] : <<t, a>> \notin late' =>
            /\ <<t, a>> \notin late
            /\ \A e \in Emoji : <<a, e>> \in MadeFrom(t) <=> <<a, e>> \in MadeFrom(t)'
            /\ \A e \in Emoji : <<a, e>> \in MadeFrom(t) => emojis[e] = emojis'[e]
  PROVE  CopyMade(t)'
<1>1. session[t].pc = "commit" => DOMAIN copies'[t] = {session'[t].actor}
  BY DEF Same, CopyMade
<1>2. ASSUME session[t].pc \in {"caching", "unlinking", "commit"},
             NEW a \in DOMAIN copies[t], <<t, a>> \notin late'
      PROVE  copies'[t][a] = EmojisOf(a, MadeFrom(t)', emojis')
  <2>1. copies[t][a] = EmojisOf(a, MadeFrom(t), emojis)
    BY <1>2 DEF CopyMade
  <2>2. PICK made, images, made2, images2 :
          made = MadeFrom(t) /\ images = emojis /\ made2 = MadeFrom(t)' /\ images2 = emojis'
    OBVIOUS
  <2>3. EmojisOf(a, made, images) = EmojisOf(a, made2, images2)
    BY <1>2, <2>2, EmojisOfSame
  <2> QED BY <2>1, <2>2, <2>3 DEF Same
<1> QED BY <1>1, <1>2 DEF CopyMade, Same

\* The three properties of the copies, and what a step makes of them.
CopiesRight == RowsCached /\ CopiesMade /\ CacheAgrees

\* Where others' copies are made from, rows name emojis that exist.
LEMMA MadeExist ==
  ASSUME EmojisInv, NEW t \in Session
  PROVE  MadeFrom(t) \subseteq Actor \X Existing
<1>1. Sound(session[t], Existing) /\ session[t] \in {Idle} \cup Refresh \cup Prune
  BY SoundSessions DEF EmojisInv, EmojisTypeOK
<1>2. CASE session[t].pc = "commit"
  <2>1. session[t] \in Refresh /\ HeldIn(session[t]) \subseteq Existing
    BY <1>1, <1>2 DEF Sound, Idle, Refresh, Prune
  <2>2. session[t].actor \in Actor /\ session[t].got \subseteq Existing
    BY <1>2, <2>1 DEF Refresh, HeldIn
  <2> QED BY <1>2, <2>2 DEF MadeFrom
<1>3. CASE session[t].pc # "commit"
  BY <1>3 DEF MadeFrom, EmojisInv, EmojisTypeOK
<1> QED BY <1>2, <1>3

\* A step of s that changes no table and leaves out no more than before.
LEMMA NothingChanges ==
  ASSUME EmojisInv, EmojisTypeOK', NEW s \in Session, Alone(s),
         UNCHANGED <<emojis, rows, cache>>,
         missed \subseteq missed',
         \A m : m \in missed \/ m \in Pending(s) => m \in missed' \/ m \in Pending(s)',
         \A t \in Session \ {s} : \A a : <<t, a>> \in late => <<t, a>> \in late',
         CopyMade(s)'
  PROVE  CopiesRight'
<1>1. RowsCached'
  BY DEF EmojisInv, RowsCached, CachedIds
<1>2. CopiesMade'
  <2>1. ASSUME NEW t \in Session \ {s} PROVE CopyMade(t)'
    <3>1. Same(t) /\ CopyMade(t)
      BY DEF Alone, EmojisInv, CopiesMade
    <3>2. MadeFrom(t)' = MadeFrom(t)
      BY <3>1, SameMeans DEF MadeFrom
    <3> QED BY <3>1, <3>2, StaysMade
  <2> QED BY <2>1 DEF CopiesMade
<1>3. CacheAgrees'
  <2>1. \A a \in Actor, e \in Emoji :
           <<a, e>> \notin Unfinished' => Right(cache'[a], a, e, rows', emojis')
    BY UnfinishedAfter, AgreesPointwise DEF EmojisInv, AllRight
  <2>2. (EmojisTypeOK => (CacheAgrees <=> AllRight))'
    BY AgreesPointwise, PTL
  <2> QED BY <2>1, <2>2 DEF AllRight
<1> QED BY <1>1, <1>2, <1>3 DEF CopiesRight

\* A step of s that changes emoji e, and the rows of no other emoji: copies that
\* name it are overtaken, and all profiles' copies of it are left out unless the
\* emoji was not there before.
LEMMA EmojiChanges ==
  ASSUME EmojisInv, EmojisTypeOK', NEW s \in Session, Alone(s), NEW e \in Emoji,
         UNCHANGED <<cache, missed>>,
         Pending(s) = {}, session'[s].pc \notin {"caching", "unlinking", "commit"},
         \A f \in Emoji \ {e} : emojis'[f] = emojis[f],
         rows' \subseteq rows, \A r \in rows : r[2] # e => r \in rows',
         \/ e \notin Existing
         \/ Pending(s)' = Actor \X {e} /\ late' = late \cup MadeNaming(e),
         late \subseteq late'
  PROVE  CopiesRight'
<1>1. RowsCached'
  BY DEF EmojisInv, RowsCached, CachedIds
<1>2. CopiesMade'
  <2>1. ASSUME NEW t \in Session \ {s} PROVE CopyMade(t)'
    <3>1. Same(t) /\ CopyMade(t)
      BY DEF Alone, EmojisInv, CopiesMade
    <3>2. ASSUME NEW a \in DOMAIN copies[t], <<t, a>> \notin late',
                 session[t].pc \in {"caching", "unlinking", "commit"}
          PROVE  <<a, e>> \notin MadeFrom(t)
      <4>1. CASE e \notin Existing
        BY <4>1, MadeExist
      <4>2. CASE late' = late \cup MadeNaming(e)
        <5>1. a \in Actor /\ <<t, a>> \notin MadeNaming(e) /\ <<t, a>> \notin late
          BY <3>2, <4>2, CopiesAre DEF EmojisInv
        <5>2. ~\E c \in copies[t][a] : c[1] = e
          BY <3>2, <5>1 DEF MadeNaming
        <5>3. copies[t][a] = EmojisOf(a, MadeFrom(t), emojis)
          BY <3>1, <3>2, <5>1 DEF CopyMade
        <5>4. PICK made : made = MadeFrom(t)
          OBVIOUS
        <5>5. <<a, e>> \in made <=> \E c \in EmojisOf(a, made, emojis) : c[1] = e
          BY <5>1, <5>4, MadeExist, EmojisOfTyped DEF EmojisInv
        <5> QED BY <5>2, <5>3, <5>4, <5>5
      <4> QED BY <4>1, <4>2
    <3>3. ASSUME NEW a \in DOMAIN copies[t], <<t, a>> \notin late',
                 session[t].pc \in {"caching", "unlinking", "commit"}
          PROVE  /\ \A f \in Emoji : <<a, f>> \in MadeFrom(t) <=> <<a, f>> \in MadeFrom(t)'
                 /\ \A f \in Emoji : <<a, f>> \in MadeFrom(t) => emojis[f] = emojis'[f]
      <4>1. MadeFrom(t)' = IF session[t].pc = "commit" THEN MadeFrom(t) ELSE rows'
        BY <3>1, SameMeans
      <4>2. session[t].pc # "commit" => MadeFrom(t) = rows
        BY DEF MadeFrom
      <4>3. ASSUME NEW f \in Emoji, <<a, f>> \in MadeFrom(t) PROVE f # e
        BY <3>2, <3>3, <4>3
      <4>4. \A f \in Emoji : <<a, f>> \in MadeFrom(t) <=> <<a, f>> \in MadeFrom(t)'
        <5>1. ASSUME NEW f \in Emoji, <<a, f>> \in rows, f # e PROVE <<a, f>> \in rows'
          <6>1. <<a, f>>[2] # e
            BY <5>1
          <6> QED BY <5>1, <6>1
        <5> QED BY <4>1, <4>2, <4>3, <5>1
      <4> QED BY <4>3, <4>4
    <3>4. CASE session[t].pc \in {"caching", "unlinking", "commit"}
      BY <3>1, <3>3, <3>4, StaysMade
    <3>5. CASE session[t].pc \notin {"caching", "unlinking", "commit"}
      BY <3>1, <3>5 DEF Same, CopyMade
    <3> QED BY <3>4, <3>5
  <2>2. CopyMade(s)'
    BY DEF CopyMade
  <2> QED BY <2>1, <2>2 DEF CopiesMade
<1>3. CacheAgrees'
  <2>1. ASSUME NEW a \in Actor, NEW f \in Emoji, <<a, f>> \notin Unfinished'
        PROVE  Right(cache'[a], a, f, rows', emojis')
    <3>1. <<a, f>> \notin Unfinished
      BY <2>1, UnfinishedAfter
    <3>2. Right(cache[a], a, f, rows, emojis)
      BY <3>1, AgreesPointwise DEF EmojisInv, AllRight
    <3>3. CASE f # e
      <4>1. <<a, f>>[2] # e
        BY <3>3
      <4>2. <<a, f>> \in rows' <=> <<a, f>> \in rows
        BY <4>1
      <4> QED BY <3>2, <3>3, <4>2 DEF Right
    <3>4. CASE f = e
      <4>1. e \notin Existing
        BY <2>1, <3>4, UnfinishedAfter
      <4>2. <<a, f>> \notin rows
        BY <3>4, <4>1 DEF EmojisInv, EmojisTypeOK
      <4> QED BY <3>2, <4>2 DEF Right
    <3> QED BY <3>3, <3>4
  <2>2. (EmojisTypeOK => (CacheAgrees <=> AllRight))'
    BY AgreesPointwise, PTL
  <2> QED BY <2>1, <2>2 DEF AllRight
<1> QED BY <1>1, <1>2, <1>3 DEF CopiesRight

\* The second statement of s finds the profiles whose copies name emoji e.
LEMMA CopiesComputed ==
  ASSUME EmojisInv, EmojisTypeOK', NEW s \in Session, Alone(s), NEW e \in Emoji,
         UNCHANGED <<emojis, rows, cache, missed, late>>,
         copies'[s] = UpdateEmojiCaches(e),
         session'[s].pc \in {"caching", "unlinking"},
         Pending(s) = Actor \X {e},
         Pending(s)' = (DOMAIN copies'[s]) \X {e}
  PROVE  CopiesRight'
<1>1. RowsCached'
  BY DEF EmojisInv, RowsCached, CachedIds
<1>2. CopiesMade'
  <2>1. ASSUME NEW t \in Session \ {s} PROVE CopyMade(t)'
    <3>1. Same(t) /\ CopyMade(t)
      BY DEF Alone, EmojisInv, CopiesMade
    <3>2. MadeFrom(t)' = MadeFrom(t)
      BY <3>1, SameMeans DEF MadeFrom
    <3> QED BY <3>1, <3>2, StaysMade
  <2>2. CopyMade(s)'
    BY DEF CopyMade, UpdateEmojiCaches, MadeFrom
  <2> QED BY <2>1, <2>2 DEF CopiesMade
<1>3. CacheAgrees'
  <2>1. ASSUME NEW a \in Actor, NEW f \in Emoji, <<a, f>> \notin Unfinished'
        PROVE  Right(cache'[a], a, f, rows', emojis')
    <3>1. CASE <<a, f>> \notin Unfinished
      BY <3>1, AgreesPointwise DEF EmojisInv, AllRight
    <3>2. CASE <<a, f>> \in Unfinished
      <4>1. f = e /\ a \notin DOMAIN copies'[s] /\ <<a, f>> \notin missed
        BY <2>1, <3>2, UnfinishedAfter
      <4>2. e \notin CachedIds(a)
        BY <4>1 DEF UpdateEmojiCaches
      <4>3. ASSUME <<a, e>> \in rows PROVE FALSE
        <5>1. PICK r \in rows : r = <<a, e>>
          BY <4>3
        <5>2. r[1] = a /\ r[2] = e
          BY <5>1
        <5> QED BY <4>1, <4>2, <5>1, <5>2 DEF EmojisInv, RowsCached
      <4>4. ASSUME NEW v \in Version, <<e, v>> \in cache[a] PROVE FALSE
        <5>1. PICK c \in cache[a] : c = <<e, v>>
          BY <4>4
        <5>2. c[1] = e
          BY <5>1
        <5> QED BY <4>2, <5>2 DEF CachedIds
      <4> QED BY <4>1, <4>3, <4>4 DEF Right
    <3> QED BY <3>1, <3>2
  <2>2. (EmojisTypeOK => (CacheAgrees <=> AllRight))'
    BY AgreesPointwise, PTL
  <2> QED BY <2>1, <2>2 DEF AllRight
<1> QED BY <1>1, <1>2, <1>3 DEF CopiesRight

\* The copies that s has computed are committed, and with them, in update_profile,
\* the rows that they were made from.
LEMMA CopiesStored ==
  ASSUME EmojisInv, EmojisTypeOK', NEW s \in Session, Alone(s),
         UNCHANGED emojis, StoreCopies(s),
         session[s].pc \in {"caching", "unlinking", "commit"},
         Pending(s)' = {}, \A p \in Pending(s) : p[1] \in DOMAIN copies[s],
         session'[s].pc \notin {"caching", "unlinking", "commit"},
         \A a \in Actor, e \in Emoji :
            <<a, e>> \in rows' <=> IF a \in DOMAIN copies[s] THEN <<a, e>> \in MadeFrom(s)
                                                            ELSE <<a, e>> \in rows,
         \A t \in Session \ {s}, a \in Actor : <<t, a>> \in late => <<t, a>> \in late',
         rows' # rows => \A t \in Session \ {s}, a \in DOMAIN copies[s] :
                            a \in DOMAIN copies[t] => <<t, a>> \in late'
  PROVE  CopiesRight'
<1> DEFINE D == DOMAIN copies[s]
<1>d. D \subseteq Actor
  BY CopiesAre DEF EmojisInv
<1>c. /\ \A a \in Actor \ D : cache'[a] = cache[a]
      /\ \A a \in D : cache'[a] = copies[s][a]
  BY <1>d DEF StoreCopies
<1>m. \A a \in Actor, e \in Emoji :
         <<a, e>> \in missed' <=> (<<a, e>> \in missed /\ a \notin D) \/ <<s, a>> \in late
  <2> SUFFICES ASSUME NEW a \in Actor, NEW e \in Emoji
               PROVE <<a, e>> \in missed' <=> (<<a, e>> \in missed /\ a \notin D) \/ <<s, a>> \in late
    OBVIOUS
  <2>1. PICK p : p = <<a, e>>
    OBVIOUS
  <2>2. p[1] = a /\ p \in Actor \X Emoji
    BY <2>1
  <2> QED BY <2>1, <2>2 DEF StoreCopies
<1>k. ASSUME NEW a \in D, <<s, a>> \notin late PROVE cache'[a] = EmojisOf(a, MadeFrom(s), emojis)
  BY <1>c, <1>k DEF EmojisInv, CopiesMade, CopyMade
<1>1. RowsCached'
  <2>1. ASSUME NEW a \in Actor, NEW e \in Emoji, <<a, e>> \in rows', <<a, e>> \notin missed'
        PROVE  \E c \in cache'[a] : c[1] = e
    <3>1. CASE a \in D
      <4>1. <<s, a>> \notin late /\ <<a, e>> \in MadeFrom(s)
        BY <1>m, <2>1, <3>1
      <4>2. PICK made : made = MadeFrom(s)
        OBVIOUS
      <4>3. <<a, e>> \in made <=> \E c \in EmojisOf(a, made, emojis) : c[1] = e
        BY <4>2, MadeExist, EmojisOfTyped DEF EmojisInv
      <4> QED BY <1>k, <3>1, <4>1, <4>2, <4>3
    <3>2. CASE a \notin D
      <4>1. PICK r \in rows : r = <<a, e>>
        BY <2>1, <3>2
      <4>2. r[1] = a /\ r[2] = e /\ r \notin missed
        BY <1>m, <2>1, <3>2, <4>1
      <4>3. e \in CachedIds(a)
        BY <4>2 DEF EmojisInv, RowsCached
      <4> QED BY <1>c, <3>2, <4>3 DEF CachedIds
    <3> QED BY <3>1, <3>2
  <2>2. ASSUME NEW r \in rows' PROVE r \in missed' \/ \E c \in cache'[r[1]] : c[1] = r[2]
    <3>1. PICK a \in Actor, e \in Emoji : r = <<a, e>>
      BY DEF EmojisTypeOK, Existing
    <3>2. r[1] = a /\ r[2] = e
      BY <3>1
    <3> QED BY <2>1, <3>1, <3>2
  <2> QED BY <2>2 DEF RowsCached, CachedIds
<1>2. CopiesMade'
  <2>1. ASSUME NEW t \in Session \ {s} PROVE CopyMade(t)'
    <3>1. Same(t) /\ CopyMade(t) /\ DOMAIN copies[t] \subseteq Actor
      BY CopiesAre DEF Alone, EmojisInv, CopiesMade
    <3>2. MadeFrom(t)' = IF session[t].pc = "commit" THEN MadeFrom(t) ELSE rows'
      BY <3>1, SameMeans
    <3>3. session[t].pc # "commit" => MadeFrom(t) = rows
      BY DEF MadeFrom
    <3>4. ASSUME NEW a \in DOMAIN copies[t], <<t, a>> \notin late', NEW e \in Emoji
          PROVE  <<a, e>> \in MadeFrom(t) <=> <<a, e>> \in MadeFrom(t)'
      <4>1. a \in Actor
        BY <3>1
      <4>2. <<a, e>> \in rows <=> <<a, e>> \in rows'
        BY <3>4, <4>1
      <4> QED BY <3>2, <3>3, <4>2
    <3> QED BY <3>1, <3>4, StaysMade
  <2>2. CopyMade(s)'
    BY DEF CopyMade
  <2> QED BY <2>1, <2>2 DEF CopiesMade
<1>3. CacheAgrees'
  <2>1. ASSUME NEW a \in Actor, NEW e \in Emoji, <<a, e>> \notin Unfinished'
        PROVE  Right(cache'[a], a, e, rows', emojis')
    <3>1. CASE a \in D
      <4>1. <<s, a>> \notin late
        BY <1>m, <2>1, <3>1, UnfinishedAfter
      <4>2. PICK made : made = MadeFrom(s)
        OBVIOUS
      <4>3. Right(EmojisOf(a, made, emojis), a, e, made, emojis)
        BY EmojisRight DEF EmojisInv
      <4>4. Right(cache'[a], a, e, made, emojis)
        BY <1>k, <3>1, <4>1, <4>2, <4>3
      <4> QED BY <3>1, <4>2, <4>4 DEF Right
    <3>2. CASE a \notin D
      <4>1. <<a, e>> \notin Pending(s)
        <5>1. PICK p : p = <<a, e>>
          OBVIOUS
        <5>2. p[1] = a
          BY <5>1
        <5> QED BY <3>2, <5>1, <5>2
      <4>2. <<a, e>> \notin Unfinished
        BY <1>m, <2>1, <3>2, <4>1, UnfinishedAfter
      <4>3. Right(cache[a], a, e, rows, emojis)
        BY <4>2, AgreesPointwise DEF EmojisInv, AllRight
      <4> QED BY <1>c, <3>2, <4>3 DEF Right
    <3> QED BY <3>1, <3>2
  <2>2. (EmojisTypeOK => (CacheAgrees <=> AllRight))'
    BY AgreesPointwise, PTL
  <2> QED BY <2>1, <2>2 DEF AllRight
<1> QED BY <1>1, <1>2, <1>3 DEF CopiesRight

LEMMA NextCopies ==
  ASSUME EmojisInv, EmojisNext
  PROVE  CopiesRight'
<1>t. EmojisTypeOK'
  BY NextTypes DEF EmojisInv
<1>s. /\ session \in [Session -> {Idle} \cup Refresh \cup Prune]
      /\ copies \in [Session -> Copies]
      /\ emojis \in [Emoji -> 0..MaxVersion]
      /\ \A t \in Session : Sound(session[t], Existing)
  BY SoundSessions DEF EmojisInv, EmojisTypeOK
\* Only DeleteEmoji changes the local variables of another session.
<1>a. ASSUME NEW s \in Session, NEW x, session' = [session EXCEPT ![s] = x],
             UNCHANGED copies \/ \E c : copies' = [copies EXCEPT ![s] = c]
      PROVE  Alone(s) /\ session'[s] = x
  BY <1>s, <1>a DEF Alone, Same
<1>1. ASSUME NEW s \in Session,
             \/ \E a \in Actor : StartRefresh(s, a)
             \/ FindEmoji(s) \/ FetchEmoji(s) \/ SkipTag(s) \/ FindUnused(s)
      PROVE  CopiesRight'
  <2>1. /\ UNCHANGED <<emojis, rows, cache, copies, late, missed>>
        /\ session[s].pc \in {"idle", "tags", "fetch"}
    <3>1. CASE (\E a \in Actor : StartRefresh(s, a)) \/ FindUnused(s)
      BY <3>1 DEF StartRefresh, FindUnused, Idle
    <3>2. CASE FindEmoji(s) \/ FetchEmoji(s) \/ SkipTag(s)
      BY <3>2 DEF FindEmoji, FetchEmoji, SkipTag, Working
    <3> QED BY <1>1, <3>1, <3>2
  <2>2. PICK x : session' = [session EXCEPT ![s] = x]
    BY <1>1, <1>s DEF StartRefresh, FindEmoji, FetchEmoji, SkipTag, FindUnused
  <2>3. x.pc \in {"tags", "fetch", "prune"}
    <3>1. session'[s] = x
      BY <1>s, <2>2
    <3>2. CASE \E a \in Actor : StartRefresh(s, a)
      BY <1>s, <3>1, <3>2 DEF StartRefresh
    <3>3. CASE FindUnused(s)
      BY <1>s, <3>1, <3>3 DEF FindUnused
    <3>4. CASE FindEmoji(s) \/ FetchEmoji(s) \/ SkipTag(s)
      <4>1. session[s] \in Refresh
        BY <3>4, Stages DEF EmojisInv, FindEmoji, FetchEmoji, SkipTag, Working
      <4>2. CASE FindEmoji(s)
        BY <1>s, <3>1, <4>1, <4>2 DEF FindEmoji, Working, Refresh
      <4>3. CASE FetchEmoji(s)
        BY <1>s, <3>1, <4>1, <4>3 DEF FetchEmoji, Working, Refresh
      <4>4. CASE SkipTag(s)
        BY <1>s, <3>1, <4>1, <4>4 DEF SkipTag, Working, Refresh
      <4> QED BY <3>4, <4>2, <4>3, <4>4
    <3> QED BY <1>1, <3>2, <3>3, <3>4
  <2>4. Alone(s) /\ session'[s] = x
    BY <1>a, <2>1, <2>2
  <2>5. Pending(s) = {} /\ CopyMade(s)'
    BY <2>1, <2>3, <2>4 DEF Pending, Working, CopyMade
  <2> QED BY <1>t, <2>1, <2>4, <2>5, NothingChanges
<1>2. ASSUME NEW s \in Session, CreateEmoji(s) \/ UpdateEmoji(s) PROVE CopiesRight'
  <2> DEFINE tag == session[s].tag
  <2>1. session[s] \in Refresh /\ session[s].pc = "fetch" /\ tag \in Tag
    BY <1>s, <1>2 DEF CreateEmoji, UpdateEmoji, Working, Sound, Idle, Prune
  <2>2. PICK e \in Emoji : e = tag[1]
    BY <2>1 DEF Tag
  <2>3. /\ UNCHANGED <<rows, cache, copies, missed>> /\ late \subseteq late'
        /\ \A f \in Emoji \ {e} : emojis'[f] = emojis[f]
    BY <1>s, <1>2, <2>2 DEF CreateEmoji, UpdateEmoji
  <2>4. CASE CreateEmoji(s)
    <3>1. PICK x : x = [session[s] EXCEPT !.pc = "tags", !.got = @ \cup {tag[1]}, !.tag = Unset]
      OBVIOUS
    <3>2. session' = [session EXCEPT ![s] = x] /\ x.pc = "tags"
      BY <1>s, <2>1, <2>4, <3>1 DEF CreateEmoji, Refresh
    <3>3. Alone(s) /\ session'[s].pc = "tags" /\ Pending(s) = {} /\ e \notin Existing
      BY <1>a, <2>1, <2>2, <2>3, <2>4, <3>2 DEF CreateEmoji, Pending, Working
    <3> QED BY <1>t, <2>3, <3>3, EmojiChanges
  <2>5. CASE UpdateEmoji(s)
    <3>1. PICK x : x = [session[s] EXCEPT !.pc = "caches"]
      OBVIOUS
    <3>2. session' = [session EXCEPT ![s] = x] /\ x.pc = "caches" /\ x.tag = tag
      BY <1>s, <2>1, <2>5, <3>1 DEF UpdateEmoji, Refresh
    <3>3. Alone(s) /\ session'[s] = x
      BY <1>a, <2>3, <3>2
    <3>4. Pending(s) = {} /\ Pending(s)' = Actor \X {e}
      BY <2>1, <2>2, <3>2, <3>3 DEF Pending, Working
    <3>5. late' = late \cup MadeNaming(e)
      BY <2>2, <2>5 DEF UpdateEmoji
    <3> QED BY <1>t, <2>3, <3>2, <3>3, <3>4, <3>5, EmojiChanges
  <2> QED BY <1>2, <2>4, <2>5
<1>3. ASSUME NEW s \in Session, NEW e \in Emoji, DeleteEmoji(s, e) PROVE CopiesRight'
  <2>1. /\ UNCHANGED <<cache, copies, missed>> /\ late' = late \cup MadeNaming(e)
        /\ \A f \in Emoji \ {e} : emojis'[f] = emojis[f]
        /\ rows' \subseteq rows /\ \A r \in rows : r[2] # e => r \in rows'
    BY <1>3, <1>s DEF DeleteEmoji
  <2>2. session[s] \in Prune /\ session[s].pc = "prune"
    BY <1>3, <1>s DEF DeleteEmoji, Working, Idle, Refresh
  <2>3. PICK x : x = [session[s] EXCEPT !.pc = "unlinked", !.todo = @ \ {e}, !.emoji = e]
    OBVIOUS
  <2>4. session'[s] = x /\ x.pc = "unlinked" /\ x.emoji = e
    BY <1>3, <2>2, <2>3 DEF DeleteEmoji, Prune
  <2>5. Pending(s) = {} /\ Pending(s)' = Actor \X {e}
    BY <2>2, <2>4 DEF Pending, Working
  <2>6. ASSUME NEW t \in Session \ {s} PROVE Same(t)
    <3>1. session'[t] = IF Holds(t, e) THEN [session[t] EXCEPT !.lost = TRUE] ELSE session[t]
      BY <1>3 DEF DeleteEmoji
    <3>2. CASE ~Holds(t, e)
      BY <2>1, <3>1, <3>2 DEF Same
    <3>3. CASE Holds(t, e)
      <4>1. session[t] \in Refresh \cup Prune
        BY <1>s, <3>3 DEF Holds, Working, Idle
      <4>2. /\ session[t].pc \in {"caches", "caching", "commit"} => session[t] \in Refresh
            /\ session[t].pc \in {"unlinked", "unlinking"} => session[t] \in Prune
        BY <4>1 DEF Refresh, Prune
      <4> QED BY <2>1, <3>1, <3>3, <4>1, <4>2 DEF Same, Refresh, Prune
    <3> QED BY <3>2, <3>3
  <2>7. Alone(s)
    BY <2>6 DEF Alone
  <2> QED BY <1>t, <2>1, <2>4, <2>5, <2>7, EmojiChanges
<1>4. ASSUME NEW s \in Session, UpdateEmojiRest(s) PROVE CopiesRight'
  <2> DEFINE x == [session[s] EXCEPT !.pc = "caching"]
  <2>1. session[s] \in Refresh /\ session[s].pc = "caches" /\ session[s].tag \in Tag
    BY <1>s, <1>4 DEF UpdateEmojiRest, Working, Sound, Idle, Prune
  <2>2. PICK e \in Emoji : e = session[s].tag[1]
    BY <2>1 DEF Tag
  <2>3. copies' = [copies EXCEPT ![s] = UpdateEmojiCaches(e)] /\ UNCHANGED <<emojis, rows, cache, missed, late>>
    BY <1>4, <2>2 DEF UpdateEmojiRest
  <2>4. session' = [session EXCEPT ![s] = x] /\ x.pc = "caching" /\ x.tag = session[s].tag
    BY <1>s, <1>4, <2>1 DEF UpdateEmojiRest, Refresh
  <2> HIDE DEF x
  <2>5. Alone(s) /\ session'[s] = x
    BY <1>a, <2>3, <2>4
  <2>6. Pending(s) = Actor \X {e} /\ Pending(s)' = (DOMAIN copies'[s]) \X {e}
    BY <2>1, <2>2, <2>4, <2>5 DEF Pending, Working
  <2> QED BY <1>s, <1>t, <2>3, <2>4, <2>5, <2>6, CopiesComputed
<1>5. ASSUME NEW s \in Session, DeleteEmojiRest(s) PROVE CopiesRight'
  <2> DEFINE x == [session[s] EXCEPT !.pc = "unlinking"]
  <2>1. session[s] \in Prune /\ session[s].pc = "unlinked" /\ session[s].emoji \in Emoji
    BY <1>s, <1>5 DEF DeleteEmojiRest, Working, Sound, Idle, Refresh
  <2>2. PICK e \in Emoji : e = session[s].emoji
    BY <2>1
  <2>3. copies' = [copies EXCEPT ![s] = UpdateEmojiCaches(e)] /\ UNCHANGED <<emojis, rows, cache, missed, late>>
    BY <1>5, <2>2 DEF DeleteEmojiRest
  <2>4. session' = [session EXCEPT ![s] = x] /\ x.pc = "unlinking" /\ x.emoji = session[s].emoji
    BY <1>s, <1>5, <2>1 DEF DeleteEmojiRest, Prune
  <2> HIDE DEF x
  <2>5. Alone(s) /\ session'[s] = x
    BY <1>a, <2>3, <2>4
  <2>6. Pending(s) = Actor \X {e} /\ Pending(s)' = (DOMAIN copies'[s]) \X {e}
    BY <2>1, <2>2, <2>4, <2>5 DEF Pending, Working
  <2> QED BY <1>s, <1>t, <2>3, <2>4, <2>5, <2>6, CopiesComputed
<1>6. ASSUME NEW s \in Session, EmojiUpdated(s) \/ EmojiDeleted(s) PROVE CopiesRight'
  <2>1. /\ UNCHANGED <<emojis, rows>> /\ StoreCopies(s) /\ late' = late \ ({s} \X Actor)
        /\ session[s].pc \in {"caching", "unlinking"}
    BY <1>6 DEF EmojiUpdated, EmojiDeleted, Working
  <2>2. PICK x : session' = [session EXCEPT ![s] = x] /\ x.pc \in {"idle", "tags", "prune"}
    <3>1. CASE EmojiUpdated(s)
      <4> DEFINE x == [session[s] EXCEPT !.pc = "tags", !.got = @ \cup {session[s].tag[1]}, !.tag = Unset]
      <4>1. session[s] \in Refresh
        BY <1>s, <3>1 DEF EmojiUpdated, Working, Idle, Prune
      <4>2. session' = [session EXCEPT ![s] = x] /\ x.pc = "tags"
        BY <1>s, <3>1, <4>1 DEF EmojiUpdated, Refresh
      <4> QED BY <4>2
    <3>2. CASE EmojiDeleted(s)
      <4> DEFINE x == IF session[s].todo = {} THEN Idle ELSE [session[s] EXCEPT !.pc = "prune", !.emoji = Unset]
      <4>1. session[s] \in Prune
        BY <1>s, <3>2 DEF EmojiDeleted, Working, Idle, Refresh
      <4>2. session' = [session EXCEPT ![s] = x]
        BY <1>s, <3>2 DEF EmojiDeleted
      <4>3. x.pc \in {"idle", "prune"}
        BY <4>1 DEF Prune, Idle
      <4> QED BY <4>2, <4>3
    <3> QED BY <1>6, <3>1, <3>2
  <2>3. Alone(s) /\ session'[s] = x
    BY <1>a, <2>1, <2>2 DEF StoreCopies
  <2>4. Pending(s)' = {} /\ \A p \in Pending(s) : p[1] \in DOMAIN copies[s]
    BY <2>1, <2>2, <2>3 DEF Pending, Working
  <2>5. MadeFrom(s) = rows
    BY <2>1 DEF MadeFrom
  <2>6. \A t \in Session \ {s}, a \in Actor : <<t, a>> \in late => <<t, a>> \in late'
    BY <2>1
  <2>7. session'[s].pc \notin {"caching", "unlinking", "commit"}
    BY <2>2, <2>3
  <2>8. \A a \in Actor, e \in Emoji :
            <<a, e>> \in rows' <=> IF a \in DOMAIN copies[s] THEN <<a, e>> \in MadeFrom(s)
                                                            ELSE <<a, e>> \in rows
    BY <2>1, <2>5
  <2> QED BY <1>t, <2>1, <2>3, <2>4, <2>6, <2>7, <2>8, CopiesStored
<1>7. ASSUME NEW s \in Session, UpdateProfile(s) PROVE CopiesRight'
  <2> DEFINE x == [session[s] EXCEPT !.pc = "commit"]
             links == {session[s].actor} \X session[s].got
  <2>1. session[s] \in Refresh /\ session[s].pc = "tags"
    BY <1>s, <1>7 DEF UpdateProfile, Working, Idle, Prune
  <2>2. PICK new : new = [a \in {session[s].actor} |-> EmojisOf(a, links, emojis)]
    OBVIOUS
  <2>3. copies' = [copies EXCEPT ![s] = new] /\ UNCHANGED <<emojis, rows, cache, missed, late>>
    BY <1>7, <2>2 DEF UpdateProfile
  <2>4. /\ session' = [session EXCEPT ![s] = x] /\ x.pc = "commit"
        /\ x.actor = session[s].actor /\ x.got = session[s].got
    BY <1>s, <1>7, <2>1 DEF UpdateProfile, Refresh
  <2> HIDE DEF x
  <2>5. Alone(s) /\ session'[s] = x
    BY <1>a, <2>3, <2>4
  <2>6. Pending(s) = {}
    BY <2>1 DEF Pending, Working
  <2>7. copies'[s] = new /\ MadeFrom(s)' = links
    BY <1>s, <2>3, <2>4, <2>5 DEF MadeFrom
  <2> HIDE DEF links
  <2>8. CopyMade(s)'
    BY <2>2, <2>3, <2>4, <2>5, <2>7 DEF CopyMade
  <2> QED BY <1>t, <2>3, <2>5, <2>6, <2>8, NothingChanges
<1>8. ASSUME NEW s \in Session, CommitProfile(s) PROVE CopiesRight'
  <2>1. session[s] \in Refresh /\ session[s].pc = "commit"
    BY <1>s, <1>8 DEF CommitProfile, Working, Idle, Prune
  <2>2. PICK b \in Actor : b = session[s].actor
    BY <2>1 DEF Refresh
  <2>3. /\ UNCHANGED emojis /\ StoreCopies(s) /\ session' = [session EXCEPT ![s] = Idle]
        /\ rows' = {r \in rows : r[1] # b} \cup ({b} \X session[s].got)
        /\ late' = (late \cup MadeOf(b)) \ ({s} \X Actor)
    BY <1>8, <2>2 DEF CommitProfile
  <2>4. Alone(s) /\ session'[s] = Idle
    BY <1>a, <2>3 DEF StoreCopies
  <2>5. Pending(s)' = {} /\ Pending(s) = {} /\ Idle.pc = "idle"
    BY <2>1, <2>4 DEF Pending, Working, Idle
  <2>6. DOMAIN copies[s] = {b}
    BY <2>1, <2>2 DEF EmojisInv, CopiesMade, CopyMade
  <2>7. MadeFrom(s) = {b} \X session[s].got
    BY <2>1, <2>2 DEF MadeFrom
  <2>8. ASSUME NEW a \in Actor, NEW e \in Emoji
        PROVE  <<a, e>> \in rows' <=> IF a \in DOMAIN copies[s] THEN <<a, e>> \in MadeFrom(s)
                                                              ELSE <<a, e>> \in rows
    <3>1. <<a, e>>[1] = a
      OBVIOUS
    <3> QED BY <2>3, <2>6, <2>7, <3>1
  <2>9. /\ \A t \in Session \ {s}, a \in Actor : <<t, a>> \in late => <<t, a>> \in late'
        /\ \A t \in Session \ {s}, a \in DOMAIN copies[s] : a \in DOMAIN copies[t] => <<t, a>> \in late'
    BY <2>3, <2>6 DEF MadeOf
  <2>10. session'[s].pc \notin {"caching", "unlinking", "commit"}
    BY <2>4, <2>5
  <2> QED BY <1>t, <2>1, <2>3, <2>4, <2>5, <2>8, <2>9, <2>10, CopiesStored
<1>9. ASSUME NEW s \in Session, Fail(s) PROVE CopiesRight'
  <2>1. /\ UNCHANGED <<emojis, rows, cache>> /\ missed' = missed \cup Pending(s)
        /\ copies' = [copies EXCEPT ![s] = NoCopies] /\ late' = late \ ({s} \X Actor)
        /\ session' = [session EXCEPT ![s] = Idle]
    BY <1>9 DEF Fail
  <2>2. Alone(s) /\ session'[s] = Idle
    BY <1>a, <2>1
  <2>3. CopyMade(s)'
    BY <2>2 DEF CopyMade, Idle
  <2>4. \A t \in Session \ {s} : \A a : <<t, a>> \in late => <<t, a>> \in late'
    BY <2>1
  <2> QED BY <1>t, <2>1, <2>2, <2>3, <2>4, NothingChanges
<1>10. PICK s \in Session :
         \/ \/ \E a \in Actor : StartRefresh(s, a)
            \/ FindEmoji(s) \/ FetchEmoji(s) \/ SkipTag(s) \/ FindUnused(s)
         \/ CreateEmoji(s) \/ UpdateEmoji(s) \/ UpdateEmojiRest(s) \/ DeleteEmojiRest(s)
         \/ EmojiUpdated(s) \/ EmojiDeleted(s)
         \/ UpdateProfile(s) \/ CommitProfile(s) \/ Fail(s)
         \/ \E e \in Emoji : DeleteEmoji(s, e)
  BY DEF EmojisNext
<1> QED BY <1>1, <1>2, <1>3, <1>4, <1>5, <1>6, <1>7, <1>8, <1>9, <1>10

LEMMA NextEmojis == EmojisInv /\ [EmojisNext]_emojisVars => EmojisInv'
<1> SUFFICES ASSUME EmojisInv, [EmojisNext]_emojisVars PROVE EmojisInv'
  OBVIOUS
<1>1. EmojisTypeOK' /\ HasTag' /\ HeldExist'
  BY NextTypes, NextSessions
<1>2. CASE EmojisNext
  BY <1>1, <1>2, NextCopies DEF CopiesRight, EmojisInv
<1>3. CASE UNCHANGED emojisVars
  <2>1. /\ emojis' = emojis /\ rows' = rows /\ cache' = cache /\ session' = session
        /\ copies' = copies /\ late' = late /\ missed' = missed
    BY <1>3 DEF emojisVars
  <2>2. (\A s \in Session : Pending(s)' = Pending(s)) /\ (Existing' = Existing)
    BY <2>1 DEF Pending, Working, Existing
  <2>3. Unfinished' = Unfinished
    BY <2>1, <2>2 DEF Unfinished
  <2>4. RowsCached' /\ CacheAgrees'
    BY <2>1, <2>3 DEF EmojisInv, RowsCached, CachedIds, CacheAgrees
  <2>5. CopiesMade'
    BY <2>1 DEF EmojisInv, CopiesMade, CopyMade, MadeFrom
  <2> QED BY <1>1, <2>4, <2>5 DEF EmojisInv
<1> QED BY <1>2, <1>3

LEMMA EmojisInvariant == EmojisSpec => []EmojisInv
BY InitEmojis, NextEmojis, PTL DEF EmojisSpec

\* The tables, copies and local variables have their types; profile_emoji names
\* emojis that exist.
THEOREM EmojisTypeCorrect == EmojisSpec => []EmojisTypeOK
BY EmojisInvariant, PTL DEF EmojisInv

\* CacheAgrees: a profile's copy of its emojis is what the tables say, but for the
\* emojis that a session is updating or deleting, those that it was at when it
\* stopped, and the profiles whose copy was computed before and committed after
\* what another session changed.
THEOREM CacheAgreesCorrect == EmojisSpec => []CacheAgrees
BY EmojisInvariant, PTL DEF EmojisInv

-----------------------------------------------------------------------------
(* Copies of actors                                                        *)
(*                                                                         *)
(* A followed copy is the profile or the profile is on its way to it, in   *)
(* the memory of the request that has written it or as an activity         *)
(* (OnItsWay).  An activity that is taken over keeps this true since       *)
(* nothing carries the newest edit and is not the profile (Latest): a      *)
(* document of the same edit as the copy says the same, one of an older    *)
(* edit is excused.  A job is still there when it has been handled, so     *)
(* that only its deletion takes the profile off its way; by then the copy  *)
(* has been written (HandledArrived).                                      *)

\* Document d is of the newest edit only if it is the profile.
Latest(d) == d.edit <= profile.edit /\ (d.edit = profile.edit => d = profile)

DocumentsLatest ==
    /\ \A e \in Editor : editor[e].pc = "federate" => Latest(editor[e].profile)
    /\ \A m \in mail : Latest(m)
    /\ \A i \in Importer : importer[i].pc \in {"store", "handle", "handled"} => Latest(importer[i].actor)

\* Rows are not deleted.
CopyStays ==
    /\ followed => copy # None
    /\ \A i \in Importer :
        importer[i].pc \in {"fetch", "store", "handle"} /\ importer[i].row # None => copy # None
    /\ \A i \in Importer : importer[i].pc = "handled" => copy # None

Arrived == copy.edit = profile.edit /\ Agrees(copy, profile)

OnItsWay ==
    followed /\ ~excused =>
        \/ Arrived
        \/ profile \in mail
        \/ \E e \in Editor : editor[e].pc = "federate" /\ editor[e].profile = profile

\* An activity with the profile has been handled, and its job is not deleted yet.
HandledArrived ==
    \A i \in Importer :
        importer[i].pc = "handled" /\ importer[i].actor = profile /\ ~excused => Arrived

CopiesInv == CopiesTypeOK /\ DocumentsLatest /\ CopyStays /\ OnItsWay /\ HandledArrived

LEMMA CopiesInitInv == CopiesInit => CopiesInv
<1> SUFFICES ASSUME CopiesInit PROVE CopiesInv
  OBVIOUS
<1> USE DEF CopiesInit
<1>1. CopiesTypeOK
  BY DEF CopiesTypeOK, ProfileRow
<1>2. DocumentsLatest /\ CopyStays /\ OnItsWay /\ HandledArrived
  BY DEF DocumentsLatest, CopyStays, OnItsWay, HandledArrived, Free
<1> QED BY <1>1, <1>2 DEF CopiesInv

\* What the local variables of a request are tells where it is.
LEMMA CopyStages ==
  ASSUME CopiesTypeOK
  PROVE  /\ \A e \in Editor : editor[e].pc \in {"edit", "federate"}
              => editor[e] \in [pc : {"edit", "federate"}, profile : ProfileRow]
         /\ \A i \in Importer : importer[i].pc = "fetch" => importer[i] \in Fetching
         /\ \A i \in Importer : importer[i].pc \in {"store", "handle"} => importer[i] \in Storing
         /\ \A i \in Importer : importer[i].pc = "handled" => importer[i] \in Handled
BY DEF CopiesTypeOK, Free, Fetching, Storing, Handled

\* Edits at home.
LEMMA EditSteps ==
  ASSUME CopiesInv, NEW e \in Editor, NEW data \in ProfileRow,
         UpdateProfileData(e, data), editor[e].pc = "edit"
  PROVE  CopiesInv'
<1> DEFINE row == [data EXCEPT !.edit = profile.edit + 1]
<1>t. CopiesTypeOK /\ DocumentsLatest /\ CopyStays /\ OnItsWay /\ HandledArrived
  BY DEF CopiesInv
<1>1. /\ profile' = row
      /\ editor' = [editor EXCEPT ![e] = [pc |-> "federate", profile |-> row]]
      /\ UNCHANGED <<followed, mail, copy, importer, excused>>
  BY DEF UpdateProfileData, away
<1>2. row \in ProfileRow /\ row.edit = profile.edit + 1 /\ profile.edit \in Nat
  BY <1>t DEF CopiesTypeOK, ProfileRow
<1>3. CopiesTypeOK'
  BY <1>t, <1>1, <1>2 DEF CopiesTypeOK
<1>4. \A d \in ProfileRow : Latest(d) => Latest(d)'
  BY <1>1, <1>2 DEF Latest, ProfileRow
<1>5. /\ Latest(profile)'
      /\ editor'[e].pc = "federate" /\ editor'[e].profile = profile'
      /\ \A f \in Editor \ {e} : editor'[f] = editor[f]
  BY <1>t, <1>1, <1>2 DEF Latest, CopiesTypeOK
<1>6. DocumentsLatest'
  <2>1. \A f \in Editor : editor'[f].pc = "federate" => Latest(editor[f].profile)'
    <3> SUFFICES ASSUME NEW f \in Editor, editor'[f].pc = "federate"
                 PROVE  Latest(editor[f].profile)'
      OBVIOUS
    <3>1. CASE f = e
      BY <1>5, <3>1 DEF Latest
    <3>2. CASE f # e
      <4>1. editor'[f] = editor[f] /\ editor[f].pc = "federate"
        BY <1>5, <3>2
      <4>2. editor[f].profile \in ProfileRow /\ Latest(editor[f].profile)
        BY <1>t, <4>1, CopyStages DEF DocumentsLatest
      <4> QED BY <1>1, <1>2, <4>1, <4>2 DEF Latest, ProfileRow
    <3> QED BY <3>1, <3>2
  <2>2. \A m \in mail' : Latest(m)'
    BY <1>t, <1>1, <1>4 DEF CopiesTypeOK, Document, DocumentsLatest
  <2>3. \A i \in Importer :
           importer'[i].pc \in {"store", "handle", "handled"} => Latest(importer[i].actor)'
    <3> SUFFICES ASSUME NEW i \in Importer, importer[i].pc \in {"store", "handle", "handled"}
                 PROVE  Latest(importer[i].actor)'
      BY <1>1
    <3>1. importer[i].actor \in ProfileRow /\ Latest(importer[i].actor)
      BY <1>t, CopyStages DEF Storing, Handled, Document, DocumentsLatest
    <3> QED BY <1>1, <1>2, <3>1 DEF Latest, ProfileRow
  <2> QED BY <2>1, <2>2, <2>3 DEF DocumentsLatest
<1>7. CopyStays' /\ OnItsWay'
  BY <1>t, <1>1, <1>5 DEF CopyStays, OnItsWay
\* What has been handled is older.
<1>8. HandledArrived'
  <2>1. ASSUME NEW i \in Importer, importer[i].pc = "handled" PROVE importer[i].actor # profile'
    <3>1. importer[i].actor \in ProfileRow /\ Latest(importer[i].actor)
      BY <1>t, <2>1, CopyStages DEF Handled, Document, DocumentsLatest
    <3>2. importer[i].actor.edit \in Nat /\ importer[i].actor.edit <= profile.edit
      BY <3>1 DEF Latest, ProfileRow
    <3>3. profile'.edit = profile.edit + 1
      BY <1>1, <1>2
    <3> QED BY <1>2, <3>2, <3>3
  <2> QED BY <1>1, <2>1 DEF HandledArrived
<1> QED BY <1>3, <1>6, <1>7, <1>8 DEF CopiesInv

\* All other steps at home.
LEMMA HomeSteps ==
  ASSUME CopiesInv,
         \/ \E e \in Editor : Begin(e) \/ Federate(e) \/ EditorFails(e)
         \/ Follow
  PROVE  CopiesInv'
<1>t. CopiesTypeOK /\ DocumentsLatest /\ CopyStays /\ OnItsWay /\ HandledArrived
  BY DEF CopiesInv
<1>1. ASSUME NEW e \in Editor, Begin(e) PROVE CopiesInv'
  <2>1. /\ editor[e] = Free
        /\ editor' = [editor EXCEPT ![e] = [pc |-> "edit", profile |-> profile]]
        /\ UNCHANGED <<profile, followed, mail, copy, importer, excused>>
    BY <1>1 DEF Begin, away
  <2>2. /\ editor'[e].pc = "edit" /\ editor[e].pc = "idle"
        /\ \A f \in Editor \ {e} : editor'[f] = editor[f]
    BY <1>t, <2>1 DEF CopiesTypeOK, Free
  <2>3. CopiesTypeOK'
    BY <1>t, <2>1 DEF CopiesTypeOK
  <2>4. DocumentsLatest'
    BY <1>t, <2>1, <2>2 DEF DocumentsLatest, Latest
  <2>5. CopyStays' /\ OnItsWay' /\ HandledArrived'
    BY <1>t, <2>1, <2>2 DEF CopyStays, OnItsWay, HandledArrived, Arrived, Agrees
  <2> QED BY <2>3, <2>4, <2>5 DEF CopiesInv
<1>2. ASSUME NEW e \in Editor, Federate(e) PROVE CopiesInv'
  <2>1. /\ editor[e].pc = "federate"
        /\ mail' = mail \cup {GetLocalActor(editor[e].profile) : r \in Recipients}
        /\ editor' = [editor EXCEPT ![e] = Free]
        /\ UNCHANGED <<profile, followed, copy, importer, excused>>
    BY <1>2 DEF Federate, away
  <2>2. editor[e].profile \in ProfileRow /\ Latest(editor[e].profile)
    BY <1>t, <2>1, CopyStages DEF DocumentsLatest
  <2>3. GetLocalActor(editor[e].profile) = editor[e].profile
    BY <2>2 DEF GetLocalActor, ProfileRow
  <2>4. /\ editor'[e].pc = "idle"
        /\ \A f \in Editor \ {e} : editor'[f] = editor[f]
    BY <1>t, <2>1 DEF CopiesTypeOK, Free
  <2>5. /\ mail \subseteq mail' /\ mail' \subseteq mail \cup {editor[e].profile}
        /\ followed => editor[e].profile \in mail'
    BY <2>1, <2>3 DEF Recipients
  <2>6. CopiesTypeOK'
    BY <1>t, <2>1, <2>2, <2>5 DEF CopiesTypeOK, Document
  <2>7. DocumentsLatest'
    BY <1>t, <2>1, <2>2, <2>4, <2>5 DEF DocumentsLatest, Latest
  <2>8. CopyStays' /\ OnItsWay' /\ HandledArrived'
    BY <1>t, <2>1, <2>4, <2>5 DEF CopyStays, OnItsWay, HandledArrived, Arrived, Agrees
  <2> QED BY <2>6, <2>7, <2>8 DEF CopiesInv
<1>3. ASSUME NEW e \in Editor, EditorFails(e) PROVE CopiesInv'
  <2>1. /\ excused' = (excused \/ editor[e].pc = "federate")
        /\ editor' = [editor EXCEPT ![e] = Free]
        /\ UNCHANGED <<profile, followed, mail, copy, importer>>
    BY <1>3 DEF EditorFails, away
  <2>2. /\ editor'[e].pc = "idle"
        /\ \A f \in Editor \ {e} : editor'[f] = editor[f]
    BY <1>t, <2>1 DEF CopiesTypeOK, Free
  <2>3. CopiesTypeOK'
    <3>1. excused' \in BOOLEAN
      BY <1>t, <2>1, Zenon DEF CopiesTypeOK
    <3> QED BY <1>t, <2>1, <3>1 DEF CopiesTypeOK
  <2>4. DocumentsLatest'
    BY <1>t, <2>1, <2>2 DEF DocumentsLatest, Latest
  <2>5. CopyStays' /\ OnItsWay' /\ HandledArrived'
    BY <1>t, <2>1, <2>2 DEF CopyStays, OnItsWay, HandledArrived, Arrived, Agrees
  <2> QED BY <2>3, <2>4, <2>5 DEF CopiesInv
<1>4. CASE Follow
  <2>1. /\ copy # None
        /\ followed' = ~followed
        /\ excused' = (excused \/ copy.edit # profile.edit \/ ~Agrees(copy, profile))
        /\ UNCHANGED <<profile, editor, mail, copy, importer>>
    BY <1>4 DEF Follow, away
  <2>2. CopiesTypeOK'
    <3>1. excused' \in BOOLEAN /\ followed' \in BOOLEAN
      BY <1>t, <2>1, Zenon DEF CopiesTypeOK
    <3> QED BY <1>t, <2>1, <3>1 DEF CopiesTypeOK
  <2>3. DocumentsLatest' /\ CopyStays'
    BY <1>t, <2>1 DEF DocumentsLatest, Latest, CopyStays
  <2>4. OnItsWay' /\ HandledArrived'
    BY <1>t, <2>1 DEF OnItsWay, HandledArrived, Arrived, Agrees
  <2> QED BY <2>2, <2>3, <2>4 DEF CopiesInv
<1> QED BY <1>1, <1>2, <1>3, <1>4

\* Steps away that write nothing but the memory of an importer.
LEMMA ImporterSteps ==
  ASSUME CopiesInv, NEW i \in Importer, NEW x \in {Free} \cup Fetching \cup Storing,
         importer' = [importer EXCEPT ![i] = x],
         UNCHANGED <<profile, editor, followed, mail, copy, excused>>,
         x \in Storing => Latest(x.actor),
         x # Free /\ x.row # None => copy # None
  PROVE  CopiesInv'
<1>t. CopiesTypeOK /\ DocumentsLatest /\ CopyStays /\ OnItsWay /\ HandledArrived
  BY DEF CopiesInv
<1>1. importer'[i] = x /\ \A k \in Importer \ {i} : importer'[k] = importer[k]
  BY <1>t DEF CopiesTypeOK
<1>2. /\ x.pc \in {"store", "handle"} => x \in Storing
      /\ x.pc \in {"fetch", "store", "handle"} => x # Free
      /\ x.pc # "handled"
  BY DEF Free, Fetching, Storing
<1>3. CopiesTypeOK'
  BY <1>t DEF CopiesTypeOK
<1>4. DocumentsLatest'
  BY <1>t, <1>1, <1>2 DEF DocumentsLatest, Latest
<1>5. CopyStays' /\ OnItsWay' /\ HandledArrived'
  BY <1>t, <1>1, <1>2 DEF CopyStays, OnItsWay, HandledArrived, Arrived, Agrees
<1> QED BY <1>3, <1>4, <1>5 DEF CopiesInv
LEMMA ReadingSteps ==
  ASSUME CopiesInv, NEW i \in Importer,
         \/ Lookup(i) \/ SearchAddress(i) \/ RefetchActor(i)
         \/ FetchActor(i) \/ ImporterFails(i)
         \/ \E m \in mail : i = Executor /\ HandleUpdatePerson(m)
  PROVE  CopiesInv'
<1>t. CopiesTypeOK /\ DocumentsLatest /\ CopyStays
  BY DEF CopiesInv
<1>p. /\ GetLocalActor(profile) = profile
      /\ profile \in ProfileRow /\ Latest(profile)
  BY <1>t DEF CopiesTypeOK, GetLocalActor, ProfileRow, Latest
<1> DEFINE Result(x) ==
      /\ x \in {Free} \cup Fetching \cup Storing
      /\ importer' = [importer EXCEPT ![i] = x]
      /\ UNCHANGED <<profile, editor, followed, mail, copy, excused>>
      /\ x \in Storing => Latest(x.actor)
      /\ x # Free /\ x.row # None => copy # None
<1>1. CASE Lookup(i) \/ RefetchActor(i)
  <2> DEFINE x == [pc |-> "fetch", row |-> copy]
  <2>1. x \in Fetching /\ x \notin Storing
    BY <1>t DEF CopiesTypeOK, Fetching, Storing
  <2>2. Result(x)
    BY <1>1, <2>1 DEF Lookup, RefetchActor, home
  <2> QED BY <2>2, ImporterSteps
<1>2. CASE SearchAddress(i)
  <2> DEFINE x == [pc |-> "store", row |-> None, actor |-> GetLocalActor(profile)]
  <2>1. x \in Storing
    BY <1>p DEF Storing, Document
  <2>2. Result(x)
    BY <1>2, <1>p, <2>1 DEF SearchAddress, home
  <2> QED BY <2>2, ImporterSteps
<1>3. CASE FetchActor(i)
  <2> DEFINE x == [pc |-> "store", row |-> ByAcct(importer[i].row),
                   actor |-> GetLocalActor(profile)]
  <2>1. importer[i].pc = "fetch" /\ importer[i] \in Fetching
    BY <1>t, <1>3, CopyStages DEF FetchActor
  <2>2. x \in Storing /\ (x.row # None => copy # None)
    BY <1>t, <1>p, <2>1 DEF CopiesTypeOK, CopyStays, Fetching, Storing, Document, ByAcct
  <2>3. Result(x)
    BY <1>3, <1>p, <2>2 DEF FetchActor, home
  <2> QED BY <2>3, ImporterSteps
<1>4. CASE ImporterFails(i)
  <2>1. Free \notin Storing
    BY DEF Free, Storing
  <2>2. Result(Free)
    BY <1>4, <2>1 DEF ImporterFails, home
  <2> QED BY <2>2, ImporterSteps
<1>5. ASSUME NEW m \in mail, i = Executor, HandleUpdatePerson(m) PROVE CopiesInv'
  <2> DEFINE x == [pc |-> "handle", row |-> copy, actor |-> m]
  <2>1. x \in Storing /\ Latest(m)
    BY <1>t, <1>5 DEF CopiesTypeOK, DocumentsLatest, Storing
  <2>2. Result(x)
    BY <1>5, <2>1 DEF HandleUpdatePerson, home
  <2> QED BY <2>2, ImporterSteps
<1> QED BY <1>1, <1>2, <1>3, <1>4, <1>5

\* What an import writes is a row, of the edit of its document, and unless an
\* image was not fetched it says what the document says.
LEMMA Written ==
  ASSUME CopiesTypeOK, NEW i \in Importer, NEW fetched \in BOOLEAN,
         importer[i] \in Storing
  PROVE  LET row == Overwrites(i, fetched)
         IN  /\ row \in Copy
             /\ row.edit = importer[i].actor.edit
             /\ row.image = importer[i].actor.image => Agrees(row, importer[i].actor)
<1> DEFINE actor == importer[i].actor
           image == FetchActorImages(importer[i].row, actor, fetched)
<1>1. actor \in ProfileRow /\ importer[i].row \in Copy \cup {None}
  BY DEF Storing, Document
<1>2. image \in Image \cup {None}
  BY <1>1 DEF FetchActorImages, ProfileRow, Copy
<1>3. Overwrites(i, fetched) = [text |-> actor.text, image |-> image,
        aliases |-> actor.aliases, edit |-> actor.edit, outdated |-> FALSE]
  BY DEF Overwrites, Parsed
<1> HIDE DEF image
<1> QED BY <1>1, <1>2, <1>3 DEF Copy, ProfileRow, Agrees

LEMMA StoreSteps ==
  ASSUME CopiesInv, NEW i \in Importer, NEW fetched \in BOOLEAN, Store(i, fetched)
  PROVE  CopiesInv'
<1> DEFINE row == Overwrites(i, fetched)
           actor == importer[i].actor
<1>t. CopiesTypeOK /\ DocumentsLatest /\ CopyStays /\ OnItsWay /\ HandledArrived
  BY DEF CopiesInv
<1>1. importer[i].pc \in {"store", "handle"} /\ importer[i] \in Storing
  BY <1>t, CopyStages DEF Store, CreateRemoteProfile, UpdateRemoteProfile
<1>2. /\ row \in Copy /\ row.edit = actor.edit
      /\ row.image = actor.image => Agrees(row, actor)
  BY <1>t, <1>1, Written
<1>3. /\ actor \in ProfileRow /\ actor.edit \in Nat /\ Latest(actor)
      /\ profile \in ProfileRow /\ profile.edit \in Nat
  BY <1>t, <1>1 DEF Storing, Document, DocumentsLatest, CopiesTypeOK, ProfileRow
<1> HIDE DEF row
<1>4. /\ copy' = row /\ UNCHANGED <<profile, editor, followed, mail>>
      /\ \/ importer' = [importer EXCEPT ![i] = Free]
         \/ importer' = [importer EXCEPT ![i] = [pc |-> "handled", actor |-> actor]]
  BY <1>t DEF Store, CreateRemoteProfile, UpdateRemoteProfile, home, row, CopiesTypeOK
<1>5. /\ importer'[i] \in {Free} \cup Handled
      /\ \/ importer'[i].pc = "idle"
         \/ importer'[i].pc = "handled" /\ importer'[i].actor = actor
      /\ \A k \in Importer \ {i} : importer'[k] = importer[k]
      /\ importer' \in [Importer -> {Free} \cup Fetching \cup Storing \cup Handled]
  <2>1. PICK x \in {Free} \cup Handled :
           /\ importer' = [importer EXCEPT ![i] = x]
           /\ x.pc = "idle" \/ (x.pc = "handled" /\ x.actor = actor)
    <3>1. [pc |-> "handled", actor |-> actor] \in Handled /\ Free.pc = "idle"
      BY <1>3 DEF Handled, Document, Free
    <3> QED BY <1>4, <3>1
  <2>2. importer \in [Importer -> {Free} \cup Fetching \cup Storing \cup Handled]
    BY <1>t DEF CopiesTypeOK
  <2> QED BY <2>1, <2>2
<1>6. DocumentsLatest'
  BY <1>t, <1>3, <1>4, <1>5 DEF DocumentsLatest, Latest
<1>7. CASE CreateRemoteProfile(i, fetched)
  <2>1. copy = None /\ excused' = excused /\ importer' = [importer EXCEPT ![i] = Free]
    BY <1>7 DEF CreateRemoteProfile
  <2>2. CopiesTypeOK'
    BY <1>t, <1>2, <1>4, <1>5, <2>1 DEF CopiesTypeOK
  <2>3. /\ ~followed
        /\ \A k \in Importer : importer[k].pc \in {"fetch", "store", "handle"} => importer[k].row = None
        /\ \A k \in Importer : importer[k].pc # "handled"
    BY <1>t, <2>1 DEF CopyStays
  <2>4. importer'[i].pc = "idle"
    BY <1>t, <2>1 DEF CopiesTypeOK, Free
  <2>5. CopyStays' /\ OnItsWay' /\ HandledArrived'
    BY <1>4, <1>5, <2>3, <2>4 DEF CopyStays, OnItsWay, HandledArrived
  <2> QED BY <1>6, <2>2, <2>5 DEF CopiesInv
<1>8. CASE UpdateRemoteProfile(i, fetched)
  <2>1. /\ importer[i].row # None
        /\ excused' = (excused \/ actor.edit < copy.edit \/ row.image # actor.image)
    BY <1>8 DEF UpdateRemoteProfile, row
  <2>2. CopiesTypeOK'
    <3>1. excused' \in BOOLEAN
      BY <1>t, <2>1, Zenon DEF CopiesTypeOK
    <3> QED BY <1>t, <1>2, <1>4, <1>5, <3>1 DEF CopiesTypeOK
  <2>3. copy # None /\ copy \in Copy /\ copy.edit \in Nat
    BY <1>t, <1>1, <2>1 DEF CopyStays, CopiesTypeOK, Copy
  <2>4. row # None
    BY <1>2, ActorCopiesAssumption
  <2>5. CopyStays'
    BY <1>t, <1>4, <1>5, <2>3, <2>4 DEF CopyStays
  \* A document of the newest edit brings the profile.
  <2>6. ASSUME ~excused' PROVE ~excused /\ actor.edit >= copy.edit /\ Agrees(row, actor)
    <3>1. ~excused /\ ~(actor.edit < copy.edit) /\ row.image = actor.image
      BY <2>1, <2>6, Zenon
    <3> QED BY <1>2, <1>3, <2>3, <3>1
  <2>7. ASSUME ~excused', Arrived \/ actor = profile PROVE Arrived'
    <3>1. actor.edit >= copy.edit /\ Agrees(row, actor)
      BY <2>6, <2>7
    <3>2. actor = profile
      <4>1. CASE Arrived
        BY <1>3, <3>1, <4>1 DEF Arrived, Latest
      <4> QED BY <2>7, <4>1
    <3> QED BY <1>2, <1>4, <3>1, <3>2 DEF Arrived, Agrees
  <2>8. OnItsWay'
    BY <1>t, <1>4, <2>6, <2>7 DEF OnItsWay
  <2>9. HandledArrived'
    BY <1>t, <1>4, <1>5, <2>6, <2>7 DEF HandledArrived
  <2> QED BY <1>6, <2>2, <2>5, <2>8, <2>9 DEF CopiesInv
<1> QED BY <1>7, <1>8 DEF Store

\* The job of an activity is deleted when the copy has been written.
LEMMA DeleteJobSteps ==
  ASSUME CopiesInv, NEW i \in Importer, DeleteJob(i)
  PROVE  CopiesInv'
<1>t. CopiesTypeOK /\ DocumentsLatest /\ CopyStays /\ OnItsWay /\ HandledArrived
  BY DEF CopiesInv
<1>1. /\ importer[i].pc = "handled" /\ mail' = mail \ {importer[i].actor}
      /\ importer' = [importer EXCEPT ![i] = Free]
      /\ UNCHANGED <<profile, editor, followed, copy, excused>>
  BY DEF DeleteJob, home
<1>2. /\ importer'[i].pc = "idle"
      /\ \A k \in Importer \ {i} : importer'[k] = importer[k]
  BY <1>t, <1>1 DEF CopiesTypeOK, Free
<1>3. CopiesTypeOK'
  BY <1>t, <1>1 DEF CopiesTypeOK
<1>4. DocumentsLatest' /\ CopyStays'
  BY <1>t, <1>1, <1>2 DEF DocumentsLatest, Latest, CopyStays
<1>5. Arrived' <=> Arrived
  BY <1>1 DEF Arrived, Agrees
<1>6. HandledArrived'
  BY <1>t, <1>1, <1>2, <1>5 DEF HandledArrived
<1>7. OnItsWay'
  <2>1. profile \in mail => profile \in mail' \/ importer[i].actor = profile
    BY <1>1
  <2> QED BY <1>t, <1>1, <1>5, <2>1 DEF OnItsWay, HandledArrived
<1> QED BY <1>3, <1>4, <1>6, <1>7 DEF CopiesInv

LEMMA CopiesNextInv == CopiesInv /\ [CopiesNext]_copyVars => CopiesInv'
<1> SUFFICES ASSUME CopiesInv, [CopiesNext]_copyVars PROVE CopiesInv'
  OBVIOUS
<1>t. CopiesTypeOK /\ DocumentsLatest /\ CopyStays /\ OnItsWay /\ HandledArrived
  BY DEF CopiesInv
<1>1. ASSUME NEW e \in Editor, Edit(e) PROVE CopiesInv'
  <2>1. editor[e].pc = "edit" /\ editor[e].profile \in ProfileRow /\ profile.edit + 1 \in Nat
    BY <1>1, <1>t, CopyStages DEF Edit, UpdateCredentials, AddAlias, CopiesTypeOK, ProfileRow
  <2>2. ASSUME NEW field \in Image \cup {"absent", None}, UpdateCredentials(e, field)
        PROVE  CopiesInv'
    <3> DEFINE data == IntoProfileData(editor[e].profile, profile.edit + 1, field)
    <3>1. data \in ProfileRow
      BY <2>1, <2>2 DEF IntoProfileData, ImageField, ProfileRow
    <3> QED BY <2>1, <2>2, <3>1, EditSteps DEF UpdateCredentials
  <2>3. ASSUME NEW a \in Alias, AddAlias(e, a) PROVE CopiesInv'
    <3> DEFINE data == WithAlias(editor[e].profile, a)
    <3>1. data \in ProfileRow
      BY <2>1 DEF WithAlias, ProfileRow
    <3> QED BY <2>1, <2>3, <3>1, EditSteps DEF AddAlias
  <2> QED BY <1>1, <2>2, <2>3 DEF Edit
<1>2. ASSUME NEW m \in mail, Lose(m) PROVE CopiesInv'
  <2>1. mail' = mail \ {m} /\ excused' = TRUE
        /\ UNCHANGED <<profile, editor, followed, copy, importer>>
    BY <1>2 DEF Lose, home, away
  <2> QED BY <1>t, <2>1 DEF CopiesInv, CopiesTypeOK, DocumentsLatest, Latest, CopyStays, OnItsWay,
                        HandledArrived
<1>3. CASE DayPasses
  <2> DEFINE new == [copy EXCEPT !.outdated = TRUE]
  <2>1. copy # None /\ copy' = new
        /\ UNCHANGED <<profile, editor, followed, mail, importer, excused>>
    BY <1>3 DEF DayPasses, home
  <2>2. /\ new \in Copy /\ new.edit = copy.edit /\ new.text = copy.text
        /\ new.image = copy.image /\ new.aliases = copy.aliases
    BY <1>t, <2>1 DEF CopiesTypeOK, Copy
  <2>3. new # None
    BY <2>2, ActorCopiesAssumption
  <2>4. CopiesTypeOK' /\ CopyStays'
    BY <1>t, <2>1, <2>2, <2>3 DEF CopiesTypeOK, CopyStays
  <2>5. DocumentsLatest' /\ OnItsWay' /\ HandledArrived'
    BY <1>t, <2>1, <2>2 DEF DocumentsLatest, Latest, OnItsWay, HandledArrived, Arrived, Agrees
  <2> QED BY <2>4, <2>5 DEF CopiesInv
<1>4. CASE UNCHANGED copyVars
  BY <1>t, <1>4 DEF copyVars, CopiesInv, CopiesTypeOK, DocumentsLatest, Latest, CopyStays,
                    OnItsWay, HandledArrived, Arrived, Agrees
<1>5. CASE CopiesNext
  <2>1. CASE \E e \in Editor : Begin(e) \/ Edit(e) \/ Federate(e) \/ EditorFails(e)
    BY <1>1, <2>1, HomeSteps
  <2>2. CASE Follow
    BY <2>2, HomeSteps
  <2>3. ASSUME NEW i \in Importer, Lookup(i) \/ SearchAddress(i) \/ RefetchActor(i)
                                   \/ FetchActor(i) \/ ImporterFails(i)
        PROVE  CopiesInv'
    BY <2>3, ReadingSteps
  <2>4. ASSUME NEW i \in Importer, NEW fetched \in BOOLEAN, Store(i, fetched) PROVE CopiesInv'
    BY <2>4, StoreSteps
  <2>5. ASSUME NEW m \in mail, HandleUpdatePerson(m) PROVE CopiesInv'
    BY <2>5, ReadingSteps, ActorCopiesAssumption
  <2> QED BY <1>2, <1>3, <1>5, <2>1, <2>2, <2>3, <2>4, <2>5, DeleteJobSteps DEF CopiesNext
<1> QED BY <1>4, <1>5

\* Rows, documents and the memory of requests keep their types, for every
\* number of requests, images, aliases and edits.
THEOREM CopiesTypeCorrect == CopiesSpec => []CopiesTypeOK
<1>1. CopiesInv => CopiesTypeOK
  BY DEF CopiesInv
<1> QED BY <1>1, CopiesInitInv, CopiesNextInv, PTL DEF CopiesSpec

\* CopyCurrent: the Update(Person) of each edit carries the profile as it was
\* written and is taken over whole: when all are dealt with, a followed copy is
\* the profile, unless an activity was lost or never sent, an image was not
\* fetched, or an older document was stored over the copy (by an activity that
\* was overtaken or repeated, or by a lookup that had fetched it before).
THEOREM CopyCurrentCorrect == CopiesSpec => []CopyCurrent
<1>1. CopiesInv => CopyCurrent
  BY DEF CopiesInv, OnItsWay, Arrived, CopyCurrent, Quiet
<1> QED BY <1>1, CopiesInitInv, CopiesNextInv, PTL DEF CopiesSpec
===============================================================================
