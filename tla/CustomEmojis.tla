----------------------------- MODULE CustomEmojis -----------------------------
(***************************************************************************)
(* Custom emojis of remote actors: the tables emoji and profile_emoji and  *)
(* the copy of a profile's emojis that actor_profile keeps                 *)
(* (fedimovies-models emojis/queries.rs and profiles/queries.rs), written  *)
(* by every refresh of a remote profile (activitypub/actors/helpers.rs     *)
(* with handle_emoji) and by the task that deletes unused emojis           *)
(* (job_queue/periodic_tasks.rs).  update_emoji and delete_emoji run their *)
(* two statements outside of any transaction, so that other sessions and   *)
(* crashes come in between; update_profile is a transaction, which others  *)
(* see when it commits.  All is READ COMMITTED: a statement computes       *)
(* copies from what is committed when it begins and writes them when it    *)
(* has the locks of the profiles, whatever was committed in between.       *)
(*                                                                         *)
(* An emoji stands for its object ID; updated_at and the image are one     *)
(* version number.  Left out: the image files (see MediaFiles), the emojis *)
(* of posts (read by a join, not copied) and those of the server, which no *)
(* profile uses.                                                           *)
(***************************************************************************)
EXTENDS Integers, FiniteSets

CONSTANTS
    Actor,        \* remote profiles, all imported before
    Emoji,
    Session,      \* inbox, executor and periodic tasks
    MaxVersion    \* bound on the versions an origin publishes

ASSUME EmojisAssumption == MaxVersion \in Nat \ {0}

Version == 1..MaxVersion
Absent  == 0

Tag == Emoji \X Version         \* <<object ID, updated>>

VARIABLES
    emojis,        \* version of the row of emoji, Absent without one
    rows,          \* profile_emoji
    cache,         \* actor_profile.emojis, as sets of <<emoji, version>>
    session,       \* local variables of the sessions
    copies,        \* by session, the copies it has computed and not committed
    late,          \* history: <<session, profile>> whose copy others have overtaken
    missed         \* history: <<profile, emoji>> that a copy may be wrong about

emojisVars == <<emojis, rows, cache, session, copies, late, missed>>

Idle == [pc |-> "idle"]

Unset == <<>>

\* A refresh has `todo` tags to go, has found or stored the emojis `got` and
\* is at `tag`; `known` says whether the row of the tag was there.  lost: an
\* emoji whose ID the session holds has been deleted.
Refresh == [pc : {"tags", "fetch", "caches", "caching", "commit"}, actor : Actor, todo : SUBSET Tag,
            got : SUBSET Emoji, tag : Tag \cup {Unset}, known : BOOLEAN, lost : BOOLEAN]

Prune == [pc : {"prune", "unlinked", "unlinking"}, todo : SUBSET Emoji, emoji : Emoji \cup {Unset}, lost : BOOLEAN]

NoCopies == [a \in {} |-> {}]

Copies == UNION {[profiles -> SUBSET Tag] : profiles \in SUBSET Actor}

Existing == {e \in Emoji : emojis[e] # Absent}

EmojisTypeOK ==
    /\ emojis \in [Emoji -> 0..MaxVersion]
    /\ rows \subseteq Actor \X Existing
    /\ cache \in [Actor -> SUBSET Tag]
    /\ session \in [Session -> {Idle} \cup Refresh \cup Prune]
    /\ copies \in [Session -> Copies]
    /\ late \subseteq Session \X Actor
    /\ missed \subseteq Actor \X Emoji

EmojisInit ==
    /\ emojis = [e \in Emoji |-> Absent]
    /\ rows = {}
    /\ cache = [a \in Actor |-> {}]
    /\ session = [s \in Session |-> Idle]
    /\ copies = [s \in Session |-> NoCopies]
    /\ late = {}
    /\ missed = {}

-----------------------------------------------------------------------------
(* Queries *)

EmojisOf(a, links, images) == {<<e, images[e]>> : e \in {f \in Emoji : <<a, f>> \in links}}

CachedIds(a) == {c[1] : c \in cache[a]}

\* (Mutant of UpdateEmojiCaches) The profiles are found by their rows, which
\* the deletion of an emoji has taken along.
UpdateCachesByRows(e) ==
    [a \in {b \in Actor : <<b, e>> \in rows} |-> EmojisOf(a, rows, emojis)]

\* update_emoji_caches: new copies for the profiles whose copy names the emoji.
UpdateEmojiCaches(e) ==
    [a \in {b \in Actor : e \in CachedIds(b)} |-> EmojisOf(a, rows, emojis)]

\* The row of actor_profile is locked by an open update_profile.
Locked(a) == \E s \in Session : session[s].pc = "commit" /\ session[s].actor = a

\* Copies in the making of profile a, or that name emoji e.
MadeOf(a)    == {l \in Session \X {a} : a \in DOMAIN copies[l[1]]}
MadeNaming(e) ==
    {l \in Session \X Actor :
        l[2] \in DOMAIN copies[l[1]] /\ \E c \in copies[l[1]][l[2]] : c[1] = e}

\* The copies that s has computed are committed.
StoreCopies(s) ==
    /\ cache' = [a \in Actor |-> IF a \in DOMAIN copies[s] THEN copies[s][a] ELSE cache[a]]
    /\ copies' = [copies EXCEPT ![s] = NoCopies]
    /\ missed' = {m \in missed : m[1] \notin DOMAIN copies[s]}
                   \cup {m \in Actor \X Emoji : <<s, m[1]>> \in late}

-----------------------------------------------------------------------------
(* update_remote_profile *)

Working(s, pcs) == session[s].pc \in pcs

OneVersion(tags) == \A t, u \in tags : t[1] = u[1] => t = u

\* An actor document has been fetched or received.
StartRefresh(s, a) ==
    /\ session[s] = Idle
    /\ \E tags \in SUBSET Tag :
        /\ OneVersion(tags)
        /\ session' = [session EXCEPT ![s] =
             [pc |-> "tags", actor |-> a, todo |-> tags, got |-> {},
              tag |-> Unset, known |-> FALSE, lost |-> FALSE]]
    /\ UNCHANGED <<emojis, rows, cache, copies, late, missed>>

\* handle_emoji finds the emoji, as new as the tag.
FindEmoji(s) ==
    /\ Working(s, {"tags"})
    /\ \E t \in session[s].todo :
        /\ t[1] \in Existing /\ emojis[t[1]] >= t[2]
        /\ session' = [session EXCEPT ![s].todo = @ \ {t}, ![s].got = @ \cup {t[1]}]
    /\ UNCHANGED <<emojis, rows, cache, copies, late, missed>>

\* The emoji is unknown or older: the image is fetched, for as long as it takes.
FetchEmoji(s) ==
    /\ Working(s, {"tags"})
    /\ \E t \in session[s].todo :
        /\ emojis[t[1]] < t[2]
        /\ session' = [session EXCEPT ![s].todo = @ \ {t}, ![s].tag = t, ![s].pc = "fetch",
                                      ![s].known = t[1] \in Existing]
    /\ UNCHANGED <<emojis, rows, cache, copies, late, missed>>

\* A tag without effect: malformed, renamed, over the limit, not fetched, or
\* its emoji has been created by another session (AlreadyExists).
SkipTag(s) ==
    /\ \/ /\ Working(s, {"tags"})
          /\ \E t \in session[s].todo : session' = [session EXCEPT ![s].todo = @ \ {t}]
       \/ /\ Working(s, {"fetch"})
          /\ session' = [session EXCEPT ![s].pc = "tags", ![s].tag = Unset]
    /\ UNCHANGED <<emojis, rows, cache, copies, late, missed>>

CreateEmoji(s) ==
    /\ Working(s, {"fetch"})
    /\ ~session[s].known
    /\ LET t == session[s].tag IN
        /\ t[1] \notin Existing
        /\ emojis' = [emojis EXCEPT ![t[1]] = t[2]]
        /\ session' = [session EXCEPT ![s].pc = "tags", ![s].got = @ \cup {t[1]}, ![s].tag = Unset]
    /\ UNCHANGED <<rows, cache, copies, late, missed>>

\* update_emoji, the first statement ...
UpdateEmoji(s) ==
    /\ Working(s, {"fetch"})
    /\ session[s].known /\ ~session[s].lost
    /\ LET t == session[s].tag IN
        /\ emojis' = [emojis EXCEPT ![t[1]] = t[2]]
        /\ late' = late \cup MadeNaming(t[1])
    /\ session' = [session EXCEPT ![s].pc = "caches"]
    /\ UNCHANGED <<rows, cache, copies, missed>>

\* ... the second, which finds the profiles and computes their copies ...
UpdateEmojiRest(s) ==
    /\ Working(s, {"caches"})
    /\ copies' = [copies EXCEPT ![s] = UpdateEmojiCaches(session[s].tag[1])]
    /\ session' = [session EXCEPT ![s].pc = "caching"]
    /\ UNCHANGED <<emojis, rows, cache, late, missed>>

\* ... and writes them, after waiting for the locks of the profiles if need be.
EmojiUpdated(s) ==
    /\ Working(s, {"caching"})
    /\ \A a \in DOMAIN copies[s] : ~Locked(a)
    /\ StoreCopies(s)
    /\ late' = late \ ({s} \X Actor)
    /\ session' = [session EXCEPT ![s].pc = "tags", ![s].got = @ \cup {session[s].tag[1]}, ![s].tag = Unset]
    /\ UNCHANGED <<emojis, rows>>

\* update_profile before its COMMIT: the row of the profile is locked, its rows of
\* profile_emoji are replaced (a missing emoji makes it fail, see Fail, and others
\* cannot be deleted any more), then update_emoji_cache computes the copy.
UpdateProfile(s) ==
    /\ Working(s, {"tags"})
    /\ session[s].todo = {} /\ ~session[s].lost
    /\ ~Locked(session[s].actor)
    /\ LET links == {session[s].actor} \X session[s].got IN
        copies' = [copies EXCEPT ![s] = [a \in {session[s].actor} |-> EmojisOf(a, links, emojis)]]
    /\ session' = [session EXCEPT ![s].pc = "commit"]
    /\ UNCHANGED <<emojis, rows, cache, late, missed>>

\* COMMIT.
CommitProfile(s) ==
    /\ Working(s, {"commit"})
    /\ rows' = {r \in rows : r[1] # session[s].actor} \cup ({session[s].actor} \X session[s].got)
    /\ StoreCopies(s)
    /\ late' = (late \cup MadeOf(session[s].actor)) \ ({s} \X Actor)
    /\ session' = [session EXCEPT ![s] = Idle]
    /\ UNCHANGED emojis

-----------------------------------------------------------------------------
(* prune_remote_emojis *)

\* find_unused_remote_emojis (the others may be used by posts).
FindUnused(s) ==
    /\ session[s] = Idle
    /\ \E found \in SUBSET {e \in Existing : \A a \in Actor : <<a, e>> \notin rows} :
        /\ found # {}
        /\ session' = [session EXCEPT ![s] =
             [pc |-> "prune", todo |-> found, emoji |-> Unset, lost |-> FALSE]]
    /\ UNCHANGED <<emojis, rows, cache, copies, late, missed>>

\* The session holds the ID of the row of emoji e.
Holds(s, e) ==
    \/ Working(s, {"tags", "fetch", "caches", "caching", "commit"}) /\ e \in session[s].got
    \/ Working(s, {"fetch"}) /\ session[s].known /\ session[s].tag[1] = e
    \/ Working(s, {"caches", "caching"}) /\ session[s].tag[1] = e
    \/ Working(s, {"prune", "unlinked", "unlinking"}) /\ e \in session[s].todo

\* Open transactions that have deleted or inserted a row of emoji e.
Using(e) ==
    {t \in Session : /\ Working(t, {"commit"})
                     /\ e \in session[t].got \/ <<session[t].actor, e>> \in rows}

\* delete_emoji, the first statement: ON DELETE CASCADE takes the rows along
\* even if a profile has come to use the emoji since the list was made.  It
\* waits for transactions that write such rows.
DeleteEmoji(s, e) ==
    /\ Working(s, {"prune"})
    /\ e \in session[s].todo
    /\ e \in Existing /\ ~session[s].lost
    /\ Using(e) = {}
    /\ emojis' = [emojis EXCEPT ![e] = Absent]
    /\ rows' = {r \in rows : r[2] # e}
    /\ session' = [t \in Session |->
         IF t = s
         THEN [session[s] EXCEPT !.pc = "unlinked", !.todo = @ \ {e}, !.emoji = e]
         ELSE IF Holds(t, e) THEN [session[t] EXCEPT !.lost = TRUE] ELSE session[t]]
    /\ late' = late \cup MadeNaming(e)
    /\ UNCHANGED <<cache, copies, missed>>

\* The second statement, as in update_emoji.
DeleteEmojiRest(s) ==
    /\ Working(s, {"unlinked"})
    /\ copies' = [copies EXCEPT ![s] = UpdateEmojiCaches(session[s].emoji)]
    /\ session' = [session EXCEPT ![s].pc = "unlinking"]
    /\ UNCHANGED <<emojis, rows, cache, late, missed>>

EmojiDeleted(s) ==
    /\ Working(s, {"unlinking"})
    /\ \A a \in DOMAIN copies[s] : ~Locked(a)
    /\ StoreCopies(s)
    /\ late' = late \ ({s} \X Actor)
    /\ session' = [session EXCEPT ![s] = IF @.todo = {} THEN Idle ELSE [@ EXCEPT !.pc = "prune", !.emoji = Unset]]
    /\ UNCHANGED <<emojis, rows>>

-----------------------------------------------------------------------------
\* Whose copies a session is about to bring up to date, with which emoji: of all
\* profiles until the second statement has found those that it concerns.
Pending(s) ==
    CASE Working(s, {"caches"})    -> Actor \X {session[s].tag[1]}
      [] Working(s, {"unlinked"})  -> Actor \X {session[s].emoji}
      [] Working(s, {"caching"})   -> (DOMAIN copies[s]) \X {session[s].tag[1]}
      [] Working(s, {"unlinking"}) -> (DOMAIN copies[s]) \X {session[s].emoji}
      [] OTHER -> {}

\* An emoji that is gone, a database error (a deadlock among them) or a crash ends
\* the session's work; its open transaction is rolled back.
Fail(s) ==
    /\ session[s] # Idle
    /\ missed' = missed \cup Pending(s)
    /\ copies' = [copies EXCEPT ![s] = NoCopies]
    /\ late' = late \ ({s} \X Actor)
    /\ session' = [session EXCEPT ![s] = Idle]
    /\ UNCHANGED <<emojis, rows, cache>>

EmojisNext ==
    \E s \in Session :
        \/ \E a \in Actor : StartRefresh(s, a)
        \/ FindEmoji(s)
        \/ FetchEmoji(s)
        \/ SkipTag(s)
        \/ CreateEmoji(s)
        \/ UpdateEmoji(s)
        \/ UpdateEmojiRest(s)
        \/ EmojiUpdated(s)
        \/ UpdateProfile(s)
        \/ CommitProfile(s)
        \/ FindUnused(s)
        \/ \E e \in Emoji : DeleteEmoji(s, e)
        \/ DeleteEmojiRest(s)
        \/ EmojiDeleted(s)
        \/ Fail(s)

EmojisSpec == EmojisInit /\ [][EmojisNext]_emojisVars

-----------------------------------------------------------------------------
(* Properties *)

Unfinished == missed \cup UNION {Pending(s) : s \in Session}

\* The copy that a profile is shown with is what the tables say: the emojis of the
\* profile, in their present versions.  Three things are excepted: an emoji that is
\* between the statements of update_emoji or delete_emoji; one that was there when
\* the session stopped; and a profile whose copy was computed, by a statement or in
\* update_profile, before another session changed its rows or an emoji in the copy
\* and committed after that (see the README).  The exceptions of a profile end when
\* its copy is next written without being overtaken.
CacheAgrees ==
    \A a \in Actor :
        {c \in cache[a] : <<a, c[1]>> \notin Unfinished}
            = {c \in EmojisOf(a, rows, emojis) : <<a, c[1]>> \notin Unfinished}
=============================================================================
