----------------------------- MODULE ActorCopies -----------------------------
(***************************************************************************)
(* The profile of a user and the copy that another server with this        *)
(* software keeps of it.  At home the API edits the profile                *)
(* (mastodon_api/accounts/views.rs, settings/views.rs) and sends           *)
(* Update(Person) to the followers (activitypub/builders/update_person.rs). *)
(* Away, the copy is fetched when the actor is looked up and is unknown or *)
(* older than a day (activitypub/fetcher/helpers.rs), and overwritten by   *)
(* each Update(Person) (activitypub/handlers/update.rs), both through      *)
(* update_remote_profile (activitypub/actors/helpers.rs).                  *)
(*                                                                         *)
(* Each step between two awaits is an action.  The text stands for display *)
(* name, bio and extra fields, the image for avatar and banner.  Identity  *)
(* proofs and payment options are left out: nothing in this code adds one  *)
(* to a local profile.  Updates travel through the queues of OutgoingQueue *)
(* and IncomingQueue: once, again or, when the retries are used up, never, *)
(* and in any order.  That the away server follows, which makes it a       *)
(* recipient, is taken from Relationships as a flag.                       *)
(***************************************************************************)
EXTENDS Naturals

CONSTANTS
    Editor,      \* requests at home
    Importer,    \* requests and tasks away
    Executor,    \* the one of these that processes the incoming queue
    Image,
    Alias,       \* actors that can be declared as aliases
    None,
    MaxEdits     \* bound on the edits of the profile

VARIABLES
    profile,     \* home: the row of actor_profile
    editor,      \* home: local variables of the requests
    followed,    \* home: the away server is among the recipients
    mail,        \* Update(Person) activities of which a delivery or a job is not dealt with yet
    copy,        \* away: the row of actor_profile, None without one
    importer,    \* away: local variables
    excused      \* history: something came between an edit and the copy

home == <<profile, editor, followed>>
away == <<copy, importer>>
copyVars == <<profile, editor, followed, mail, copy, importer, excused>>

-----------------------------------------------------------------------------
Free == [pc |-> "idle"]

\* edit counts the UPDATEs of the row, for the properties.
ProfileRow == [text : Nat, image : Image \cup {None}, aliases : SUBSET Alias, edit : Nat]

Copy == [text : Nat, image : Image \cup {None}, aliases : SUBSET Alias, edit : Nat,
         outdated : BOOLEAN]       \* not updated for a day

ASSUME ActorCopiesAssumption ==
    /\ Executor \in Importer
    /\ MaxEdits \in Nat
    /\ None \notin Image /\ None \notin Copy

\* The document of an actor.
Document == ProfileRow

Fetching == [pc : {"fetch"}, row : Copy \cup {None}]
\* At "handle" the document is that of a job of the queue.
Storing  == [pc : {"store", "handle"}, row : Copy \cup {None}, actor : Document]
Handled  == [pc : {"handled"}, actor : Document]

CopiesTypeOK ==
    /\ profile \in ProfileRow
    /\ editor \in [Editor -> {Free} \cup [pc : {"edit", "federate"}, profile : ProfileRow]]
    /\ followed \in BOOLEAN
    /\ mail \subseteq Document
    /\ copy \in Copy \cup {None}
    /\ importer \in [Importer -> {Free} \cup Fetching \cup Storing \cup Handled]
    /\ excused \in BOOLEAN

CopiesInit ==
    /\ profile = [text |-> 0, image |-> None, aliases |-> {}, edit |-> 0]
    /\ editor = [e \in Editor |-> Free]
    /\ followed = FALSE
    /\ mail = {}
    /\ copy = None
    /\ importer = [i \in Importer |-> Free]
    /\ excused = FALSE

-----------------------------------------------------------------------------
(* Home *)

\* get_current_user, with the profile.
Begin(e) ==
    /\ editor[e] = Free
    /\ profile.edit < MaxEdits
    /\ editor' = [editor EXCEPT ![e] = [pc |-> "edit", profile |-> profile]]
    /\ UNCHANGED <<profile, followed, mail, away, excused>>

\* process_b64_image_field_value: absent, empty, or a new image.
ImageField(old, field) == IF field = "absent" THEN old ELSE field

\* AccountUpdateData::into_profile_data: the aliases are not carried over.
IntoProfileData(p, text, field) ==
    [p EXCEPT !.text = text, !.image = ImageField(p.image, field), !.aliases = {}]

\* ProfileUpdateData::from, and the alias is pushed.
WithAlias(p, a) == [p EXCEPT !.aliases = @ \cup {a}]

\* (Mutant of UpdateProfileData) The request goes on with the profile it has read.
UpdateProfileUnread(e, data) ==
    LET row == [data EXCEPT !.edit = profile.edit + 1]
    IN  /\ profile.edit < MaxEdits
        /\ profile' = row
        /\ editor' = [editor EXCEPT ![e].pc = "federate"]
        /\ UNCHANGED <<followed, mail, away, excused>>

\* update_profile writes every column and returns the row.
UpdateProfileData(e, data) ==
    LET row == [data EXCEPT !.edit = profile.edit + 1]
    IN  /\ profile.edit < MaxEdits
        /\ profile' = row
        /\ editor' = [editor EXCEPT ![e] = [pc |-> "federate", profile |-> row]]
        /\ UNCHANGED <<followed, mail, away, excused>>

UpdateCredentials(e, field) ==
    /\ editor[e].pc = "edit"
    /\ UpdateProfileData(e, IntoProfileData(editor[e].profile, profile.edit + 1, field))

\* The alias is looked up in between.
AddAlias(e, a) ==
    /\ editor[e].pc = "edit"
    /\ UpdateProfileData(e, WithAlias(editor[e].profile, a))

\* get_local_actor
GetLocalActor(p) == [text |-> p.text, image |-> p.image, aliases |-> p.aliases, edit |-> p.edit]

\* get_update_person_recipients
Recipients == IF followed THEN {"away"} ELSE {}

\* prepare_update_person and enqueue
Federate(e) ==
    /\ editor[e].pc = "federate"
    /\ mail' = mail \cup {GetLocalActor(editor[e].profile) : r \in Recipients}
    /\ editor' = [editor EXCEPT ![e] = Free]
    /\ UNCHANGED <<profile, followed, away, excused>>

\* The form is not valid or the alias not known; or a database error or a
\* crash, which may come between the edit and the activity.
EditorFails(e) ==
    /\ editor[e] # Free
    /\ excused' = (excused \/ editor[e].pc = "federate")
    /\ editor' = [editor EXCEPT ![e] = Free]
    /\ UNCHANGED <<profile, followed, mail, away>>

-----------------------------------------------------------------------------
(* Away *)

\* What is the same in the profile and in the copy: text, image and aliases.
Agrees(c, p) == c.text = p.text /\ c.image = p.image /\ c.aliases = p.aliases

\* A user follows or unfollows the actor.  Edits before the follow were not
\* sent, and the copy may be a day old.  A copy of an earlier edit that says the
\* same as the profile does not count either: the edits in between may be on
\* their way.
Follow ==
    /\ copy # None
    /\ followed' = ~followed
    /\ excused' = (excused \/ copy.edit # profile.edit \/ ~Agrees(copy, profile))
    /\ UNCHANGED <<profile, editor, mail, away>>

\* possibly_outdated
PossiblyOutdated(c) == c.outdated

\* There is no copy or an old one.
Stale(c) == c # None => PossiblyOutdated(c)

\* (Mutant of Lookup) A known actor is not fetched again.
LookupUnknown(i) ==
    /\ importer[i] = Free
    /\ copy = None
    /\ importer' = [importer EXCEPT ![i] = [pc |-> "fetch", row |-> copy]]
    /\ UNCHANGED <<home, mail, copy, excused>>

\* get_or_import_profile_by_actor_id, which returns a fresh copy as it is.
Lookup(i) ==
    /\ importer[i] = Free
    /\ Stale(copy)
    /\ importer' = [importer EXCEPT ![i] = [pc |-> "fetch", row |-> copy]]
    /\ UNCHANGED <<home, mail, copy, excused>>

\* get_profile_by_acct, for an actor that was not known by its id.
ByAcct(row) == IF row = None THEN copy ELSE row

\* fetch_actor, answered by actor_view
FetchActor(i) ==
    /\ importer[i].pc = "fetch"
    /\ importer' = [importer EXCEPT ![i] =
         [pc |-> "store", row |-> ByAcct(importer[i].row), actor |-> GetLocalActor(profile)]]
    /\ UNCHANGED <<home, mail, copy, excused>>

\* search_profiles_or_import, of an address that is not known.
SearchAddress(i) ==
    /\ importer[i] = Free
    /\ copy = None
    /\ importer' = [importer EXCEPT ![i] =
         [pc |-> "store", row |-> None, actor |-> GetLocalActor(profile)]]
    /\ UNCHANGED <<home, mail, copy, excused>>

\* mitractl refetch-actor, of a known profile.
RefetchActor(i) ==
    /\ importer[i] = Free
    /\ copy # None
    /\ importer' = [importer EXCEPT ![i] = [pc |-> "fetch", row |-> copy]]
    /\ UNCHANGED <<home, mail, copy, excused>>

\* handle_update_person, whose actor comes with the activity.
HandleUpdatePerson(m) ==
    /\ importer[Executor] = Free
    /\ m \in mail
    /\ copy # None
    /\ importer' = [importer EXCEPT ![Executor] = [pc |-> "handle", row |-> copy, actor |-> m]]
    /\ UNCHANGED <<home, mail, copy, excused>>

\* fetch_actor_images: what is not fetched is kept from the row read before.
FetchActorImages(row, actor, fetched) ==
    IF fetched \/ actor.image = None THEN actor.image
    ELSE IF row = None THEN None ELSE row.image

\* parse_attachments and parse_aliases, and the columns of the new row.
Parsed(actor, image) ==
    [text |-> actor.text, image |-> image, aliases |-> actor.aliases, edit |-> actor.edit,
     outdated |-> FALSE]

Overwrites(i, fetched) ==
    Parsed(importer[i].actor, FetchActorImages(importer[i].row, importer[i].actor, fetched))

CreateRemoteProfile(i, fetched) ==
    LET row == Overwrites(i, fetched)
    IN  /\ importer[i].pc = "store"
        /\ importer[i].row = None /\ copy = None
        /\ copy' = row
        /\ importer' = [importer EXCEPT ![i] = Free]
        /\ UNCHANGED <<home, mail, excused>>

UpdateRemoteProfile(i, fetched) ==
    LET row == Overwrites(i, fetched)
    IN  /\ importer[i].pc \in {"store", "handle"}
        /\ importer[i].row # None
        /\ copy' = row
        /\ importer' = [importer EXCEPT ![i] =
             IF @.pc = "handle" THEN [pc |-> "handled", actor |-> @.actor] ELSE Free]
        /\ excused' = (excused \/ importer[i].actor.edit < copy.edit
                               \/ row.image # importer[i].actor.image)
        /\ UNCHANGED <<home, mail>>

\* process_queued_incoming_activities deletes the job.
DeleteJob(i) ==
    /\ importer[i].pc = "handled"
    /\ mail' = mail \ {importer[i].actor}
    /\ importer' = [importer EXCEPT ![i] = Free]
    /\ UNCHANGED <<home, copy, excused>>

\* A fetch fails and the stored profile is used, another import was faster
\* (AlreadyExists), a handler ends with an error and is retried, or the executor
\* stops; from "handled", the job is there still, or the sender's retry of what
\* was delivered already.
ImporterFails(i) ==
    /\ importer[i] # Free
    /\ importer' = [importer EXCEPT ![i] = Free]
    /\ UNCHANGED <<home, mail, copy, excused>>

\* The retries of the sender or of the receiver are used up, or the receiver
\* does not know the actor.
Lose(m) ==
    /\ m \in mail
    /\ mail' = mail \ {m}
    /\ excused' = TRUE
    /\ UNCHANGED <<home, away>>

DayPasses ==
    /\ copy # None /\ ~copy.outdated
    /\ copy' = [copy EXCEPT !.outdated = TRUE]
    /\ UNCHANGED <<home, mail, importer, excused>>

-----------------------------------------------------------------------------
Edit(e) ==
    \/ \E field \in Image \cup {"absent", None} : UpdateCredentials(e, field)
    \/ \E a \in Alias : AddAlias(e, a)

Store(i, fetched) == CreateRemoteProfile(i, fetched) \/ UpdateRemoteProfile(i, fetched)

CopiesNext ==
    \/ \E e \in Editor : Begin(e) \/ Edit(e) \/ Federate(e) \/ EditorFails(e)
    \/ Follow
    \/ \E i \in Importer :
        \/ Lookup(i) \/ SearchAddress(i) \/ RefetchActor(i)
        \/ FetchActor(i)
        \/ \E fetched \in BOOLEAN : Store(i, fetched)
        \/ DeleteJob(i)
        \/ ImporterFails(i)
    \/ \E m \in mail : HandleUpdatePerson(m) \/ Lose(m)
    \/ DayPasses

\* Requests end, the incoming queue is processed and its jobs do not come back
\* for ever, days pass, and somebody looks the actor up again and again and now
\* and then succeeds.
Fairness ==
    /\ \A e \in Editor : WF_copyVars(Federate(e) \/ EditorFails(e))
    /\ WF_copyVars(\E m \in mail : HandleUpdatePerson(m) \/ Lose(m))
    /\ SF_copyVars(DeleteJob(Executor))
    /\ \A i \in Importer :
        WF_copyVars(FetchActor(i) \/ Store(i, TRUE) \/ Store(i, FALSE) \/ DeleteJob(i)
                    \/ ImporterFails(i))
    /\ WF_copyVars(\E i \in Importer : Lookup(i))
    /\ SF_copyVars(\E i \in Importer : FetchActor(i))
    /\ SF_copyVars(\E i \in Importer : Store(i, TRUE))
    /\ WF_copyVars(DayPasses)

CopiesSpec == CopiesInit /\ [][CopiesNext]_copyVars

CopiesFairSpec == CopiesSpec /\ Fairness

-----------------------------------------------------------------------------
(* Properties *)

Quiet == mail = {} /\ \A e \in Editor : editor[e].pc # "federate"

\* The Update(Person) of each edit carries the profile as edited, to the server
\* of every follower, and is taken over whole: when all of them are dealt with,
\* the copy of a followed actor is the profile.  Excused are edits made before
\* the follow, activities that were lost, requests that ended between the edit
\* and the activity, images that were not fetched, and documents that were older
\* than the copy they were stored over: an activity that was overtaken or came
\* again, or a lookup that had fetched the actor before the edit and stored it
\* after the activity.
CopyCurrent ==
    Quiet /\ followed /\ ~excused => Agrees(copy, profile)

\* Whatever was lost or came in the wrong order, a copy that is looked up now
\* and then has the text and the aliases of the profile when the edits end, and
\* keeps them.  Its image is the right one again and again, not for good: an
\* import that cannot fetch it puts back the one of the row it has read, which
\* may be older than the copy.
CopyConverges ==
    /\ <>[](copy # None /\ copy.text = profile.text /\ copy.aliases = profile.aliases)
    /\ []<>(copy # None /\ copy.image = profile.image)
=============================================================================
