-------------------------------- MODULE Inbox --------------------------------
(***************************************************************************)
(* What becomes of a request to the inbox: receive_activity                *)
(* (activitypub/receiver.rs) with the signature checks of                  *)
(* activitypub/authentication.rs, http_signatures/verify.rs and            *)
(* json_signatures/verify.rs, and what handle_create then takes from the   *)
(* activity.  A pure decision over the facts below; IncomingQueue takes    *)
(* the requests that are put in the queue.                                 *)
(*                                                                         *)
(* A signature is what its check makes of it: absent, unreadable, made     *)
(* with another key, or right.  The age of a signature is only logged by   *)
(* the code.  Errors of the database refuse the request and are left out.  *)
(***************************************************************************)
EXTENDS FiniteSets

Queued == {"Announce", "Create", "Delete", "Move", "Undo", "Update"}
Direct == {"Accept", "Add", "EmojiReact", "Follow", "Like", "Reject", "Remove"}

\* Who an activity can come from: its actor, or a server that passes it on.
Sender == {"actor", "relay"}

\* What parse_http_signature and verify_http_signature find.
HttpSignature == {"none", "unreadable", "wrong", "right"}

\* What get_json_signature and verify_rsa_json_signature find.
JsonSignature == {"none", "wrong", "right"}

Request == [
    type     : Queued \cup Direct \cup {"unknown"},
    self     : BOOLEAN,            \* the object is the actor
    http     : HttpSignature,
    owner    : Sender,             \* the owner of the key named by the HTTP signature
    json     : JsonSignature,
    author   : Sender,             \* attributedTo of the object
    relevant : BOOLEAN,            \* a reply, not public, addressed to a user,
                                   \* or of an author with followers here
    known    : SUBSET Sender,      \* profiles in the database
    online   : SUBSET Sender,      \* actors that can be fetched
    blocked  : SUBSET Sender ]     \* actors of blocked instances

\* Delete(Person)
SelfDelete(r) == r.type = "Delete" /\ r.self

\* get_signer: who deletes its account is not fetched.
Found(r, who) == who \in r.known \/ (~SelfDelete(r) /\ who \in r.online)

\* verify_signed_request
HttpVerified(r) == r.http = "right" /\ Found(r, r.owner)

\* (Mutant of JsonVerified) A proof by any key will do.
JsonPresent(r) == r.json # "none" /\ Found(r, "actor")

\* verify_signed_activity: the key is the actor's, or the proof is not used.
JsonVerified(r) == r.json = "right" /\ Found(r, "actor")

\* A Delete(Person) without signature, or of an actor that is not known here.
Unverifiable(r) ==
    /\ SelfDelete(r)
    /\ r.http = "none" \/ (r.http # "unreadable" /\ ~Found(r, r.owner))

\* The signature of the activity has the higher priority.
Signer(r) == IF JsonVerified(r) THEN "actor" ELSE r.owner

Authenticated(r) == Signer(r) = "actor"

\* is_unsolicited_message
Unsolicited(r) == r.type = "Create" /\ ~r.relevant

Ignored(r) ==
    \/ "actor" \in r.blocked
    \/ Unverifiable(r)
    \/ HttpVerified(r) /\ Signer(r) \in r.blocked
    \/ HttpVerified(r) /\ ~Authenticated(r) /\ r.type \in {"Delete", "Like"}
    \/ HttpVerified(r) /\ Unsolicited(r)

Refused(r) ==
    \/ ~HttpVerified(r)
    \/ ~Authenticated(r) /\ r.type # "Create"

Outcome(r) ==
    IF Ignored(r) THEN "ignored"
    ELSE IF Refused(r) THEN "refused"
    ELSE IF r.type \in Queued THEN "queued" ELSE "handled"

Accepted(r) == ~Ignored(r) /\ ~Refused(r)

\* The truth behind a request, that the receiver has to find out: the actor,
\* whose key can be had, signed the activity or the request.
ActorSigned(r) ==
    /\ r.json = "right" \/ (r.http = "right" /\ r.owner = "actor")
    /\ Found(r, "actor")

Origin == {"actor", "passed on", "forged"}

OriginOf(r) ==
    IF ActorSigned(r) THEN "actor"
    ELSE IF r.type = "Create" THEN "passed on" ELSE "forged"

\* What the requests that are put in the queue can be, with is_authenticated.
QueuedKinds ==
    {[authenticated |-> Authenticated(r), origin |-> OriginOf(r)] :
        r \in {q \in Request : Outcome(q) = "queued"}}

\* handle_create: the object is taken from the activity, not fetched.
TakesObject(r) == r.type = "Create" /\ Authenticated(r) /\ r.author = "actor"

-----------------------------------------------------------------------------
(* Properties *)

\* An activity acts for its actor only if the actor signed the activity or the
\* request; all that a server can pass on is a Create, and its object is taken
\* as it is only from the author.
ActsForActor ==
    \A r \in Request : Accepted(r) =>
        /\ "actor" \notin r.blocked
        /\ ActorSigned(r) \/ (r.type = "Create" /\ ~Authenticated(r))
        /\ TakesObject(r) => ActorSigned(r) /\ r.author = "actor"

\* What an actor sends itself, with a right signature, is not refused,
\* whatever other signature or relay is involved.
OwnAccepted ==
    \A r \in Request :
        /\ r.http = "right" /\ r.owner = "actor" /\ "actor" \notin r.blocked
        /\ Found(r, "actor")
        /\ ~Unsolicited(r)
        => Accepted(r)
=============================================================================
