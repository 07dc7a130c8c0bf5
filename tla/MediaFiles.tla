------------------------------- MODULE MediaFiles -------------------------------
(***************************************************************************)
(* Files of the media directory and the rows that refer to them:           *)
(* attachments of posts, images of profiles and of custom emojis.  A file  *)
(* is named after its content, so that rows of any kind may share one.     *)
(*                                                                         *)
(* A file is saved before its row is inserted, and it is removed after the *)
(* rows are gone and find_orphaned_files has found no other reference: the *)
(* database does not know of the directory, so a request, a task or a      *)
(* command is a process that may stop at any step.  Deletions of posts and *)
(* profiles are transactions of READ COMMITTED: their rows are seen by all *)
(* others until COMMIT.  Reposts have no attachments and are left out, as  *)
(* are IPFS objects; avatar and banner are one image.                      *)
(***************************************************************************)
EXTENDS Naturals, FiniteSets

CONSTANTS
    File,            \* names, one for each content
    Profile,         \* profiles
    RemoteEmoji, LocalEmoji, \* ids of custom emojis
    Post, Attachment, \* ids of posts and of attachments
    Request,         \* requests, tasks and commands that may be open at a time
    None             \* SQL NULL

ASSUME MediaFilesAssumption == None \notin File \cup Profile \cup Post

Emoji == RemoteEmoji \cup LocalEmoji

VARIABLES
    disk,          \* files in the media directory
    images,        \* actor_profile: profile -> avatar or banner, or None
    emojis,        \* emoji: id -> image
    posts,         \* post: id -> [author, parent]
    attachments,   \* media_attachment: id -> [owner, file, post]
    req,           \* requests
    raced,         \* history: files found to be orphaned that a request was to refer to
    leaked         \* history: files left behind, see NothingLeaks

tables == <<images, emojis, posts, attachments>>
vars   == <<disk, tables, req, raced, leaked>>

Free == [step |-> "free"]

Init ==
    /\ disk = {} /\ raced = {} /\ leaked = {}
    /\ images = [p \in Profile |-> None]
    /\ emojis = [e \in {} |-> None]
    /\ posts = [p \in {} |-> None]
    /\ attachments = [a \in {} |-> None]
    /\ req = [r \in Request |-> Free]

In(step)  == {r \in Request : req[r].step = step}
With(f, k, v) == [x \in DOMAIN f \cup {k} |-> IF x = k THEN v ELSE f[x]]
Without(f, S) == [x \in DOMAIN f \ S |-> f[x]]
FilesOf(S)    == {attachments[a].file : a \in S}

-----------------------------------------------------------------------------
(* References *)

ReferredBy(at, im, em) ==
    {at[a].file : a \in DOMAIN at} \cup {im[p] : p \in DOMAIN im} \cup {em[e] : e \in DOMAIN em}

Referred == ReferredBy(attachments, images, emojis) \ {None}
Held     == {req[r].file : r \in In("saved")}
Queued   == UNION {req[r].files : r \in In("deleted") \cup In("remove")}

\* A file in the hands of a request that is to refer to it and of one that has
\* found it orphaned.
Races(fresh) == raced' = (raced \ fresh) \cup (Held' \cap Queued')

\* (Mutant of FindOrphanedFiles) Images of emojis are not looked up.
FindUnattached(files, at, im, em) == files \ ReferredBy(at, im, Without(em, DOMAIN em))

FindOrphanedFiles(files, at, im, em) == files \ ReferredBy(at, im, em)

-----------------------------------------------------------------------------
(* Transactions that delete *)

Deleting == In("deleted")

\* Rows locked until COMMIT: a deletion updates the counters of all authors.
LockedProfiles == UNION {req[r].authors : r \in Deleting}
DoomedProfiles == {req[r].profile : r \in Deleting}
LockedPosts    == UNION {req[r].posts : r \in Deleting}

Below(roots) ==
    LET reach[n \in 0..Cardinality(Post)] ==
          IF n = 0 THEN roots
                   ELSE reach[n - 1] \cup {p \in DOMAIN posts : posts[p].parent \in reach[n - 1]}
    IN  reach[Cardinality(Post)]

DoomedRows     == UNION {req[r].rows : r \in Deleting}

\* Files that find_orphaned_files (in a transaction that has deleted rows and
\* profiles ps) takes to be in use because of rows that others are deleting.
Overlooked(files, rows, ps) ==
    LET left == FindOrphanedFiles(files, Without(attachments, rows), Without(images, ps), emojis)
    IN  FindOrphanedFiles(files \ left, Without(attachments, rows \cup DoomedRows),
                          Without(images, ps \cup DoomedProfiles), emojis)

\* Files that are not removed although their last row may be gone.
Leaves(files) ==
    leaked' = leaked \cup (files \ ({None} \cup
      ReferredBy(Without(attachments, DoomedRows), Without(images, DoomedProfiles), emojis)'))

AttachedTo(S) == {a \in DOMAIN attachments : attachments[a].post \in S}
OwnedBy(p)    == {a \in DOMAIN attachments : attachments[a].owner = p}

-----------------------------------------------------------------------------
(* Saving a file, then the row that refers to it *)

\* save_b64_file of an upload, or fetch_file: of an attachment, an image of an
\* actor or of an emoji.
SaveFile(r, f, use, id) ==
    /\ req[r] = Free
    /\ disk' = disk \cup {f}
    /\ leaked' = leaked \ {f}
    /\ req' = [req EXCEPT ![r] = [step |-> "saved", file |-> f, use |-> use, id |-> id]]
    /\ Races({f})
    /\ UNCHANGED tables

\* A profile is read and written back with the image that it had: update_profile
\* after ProfileUpdateData::from, or after an image that could not be fetched.
KeepImage(r, p) ==
    /\ req[r] = Free /\ images[p] # None
    /\ req' = [req EXCEPT ![r] = [step |-> "saved", file |-> images[p], use |-> "image", id |-> p]]
    /\ Races({})
    /\ UNCHANGED <<disk, tables, leaked>>

\* The command import-emoji: a row of a local emoji with the image of another.
ImportEmoji(r, e, new) ==
    /\ req[r] = Free /\ new \notin DOMAIN emojis
    /\ req' = [req EXCEPT ![r] = [step |-> "saved", file |-> emojis[e], use |-> "create_emoji", id |-> new]]
    /\ Races({})
    /\ UNCHANGED <<disk, tables, leaked>>

Done(r) == req' = [req EXCEPT ![r] = Free]

Removes(r, files) ==
    req' = [req EXCEPT ![r] = IF files = {} THEN Free ELSE [step |-> "remove", files |-> files]]

\* Ids are UUIDs: none is used again while a request remembers its row.
Remembered == UNION {req[r].rows : r \in In("selected") \cup In("deleted")}

CreateAttachment(r, a) ==
    /\ req[r].step = "saved" /\ req[r].use = "attachment"
    /\ req[r].id \in DOMAIN images \ DoomedProfiles
    /\ a \notin DOMAIN attachments \cup Remembered
    /\ attachments' = With(attachments, a, [owner |-> req[r].id, file |-> req[r].file, post |-> None])
    /\ Done(r)
    /\ Races({})
    /\ UNCHANGED <<disk, images, emojis, posts, leaked>>

\* update_profile; the file of the old image stays.
UpdateImage(r) ==
    /\ req[r].step = "saved" /\ req[r].use = "image"
    /\ req[r].id \in DOMAIN images \ LockedProfiles
    /\ images' = [images EXCEPT ![req[r].id] = req[r].file]
    /\ Done(r)
    /\ Races({})
    /\ UNCHANGED <<disk, emojis, posts, attachments>>
    /\ Leaves({images[req[r].id]})

\* An update with no image, such as that of an actor whose icon has been removed.
DropImage(p) ==
    /\ p \notin LockedProfiles
    /\ images' = [images EXCEPT ![p] = None]
    /\ UNCHANGED <<disk, emojis, posts, attachments, req, raced>>
    /\ Leaves({images[p]})

\* create_emoji fails when another request has created it, and update_emoji when it
\* is gone; the file of the old image stays.
SetEmoji(r) ==
    /\ req[r].step = "saved"
    /\ \/ req[r].use = "create_emoji" /\ req[r].id \notin DOMAIN emojis
       \/ req[r].use = "update_emoji" /\ req[r].id \in DOMAIN emojis
    /\ emojis' = With(emojis, req[r].id, req[r].file)
    /\ Done(r)
    /\ Races({})
    /\ UNCHANGED <<disk, images, posts, attachments>>
    /\ Leaves({emojis[e] : e \in DOMAIN emojis \cap {req[r].id}})

-----------------------------------------------------------------------------
(* Posts take attachments of their author, also those of another post *)

Attach(at, S, p) == [a \in DOMAIN at |-> IF a \in S THEN [at[a] EXCEPT !.post = p] ELSE at[a]]

CreatePost(p, author, parent, S) ==
    /\ p \notin DOMAIN posts
    /\ author \in DOMAIN images \ LockedProfiles
    /\ parent = None \/ parent \in DOMAIN posts \ LockedPosts
    /\ S \subseteq OwnedBy(author) \ AttachedTo(LockedPosts)
    /\ posts' = With(posts, p, [author |-> author, parent |-> parent])
    /\ attachments' = Attach(attachments, S, p)
    /\ UNCHANGED <<disk, images, emojis, req, raced, leaked>>

\* update_post of a remote note, whose attachments are fetched and created again:
\* the old rows are deleted, their files stay.
UpdatePost(p, S) ==
    LET old == AttachedTo({p})
    IN  /\ p \notin LockedPosts
        /\ S \subseteq OwnedBy(posts[p].author) \ (old \cup AttachedTo(LockedPosts))
        /\ attachments' = Attach(Without(attachments, old), S, p)
        /\ UNCHANGED <<disk, images, emojis, posts, req, raced>>
        /\ Leaves(FilesOf(old))

-----------------------------------------------------------------------------
(* delete_post and delete_profile *)

Selects(r, p, roots, rows, imgs, files) ==
    /\ req[r] = Free
    /\ req' = [req EXCEPT ![r] = [step |-> "selected", profile |-> p, roots |-> roots,
          posts |-> Below(roots), rows |-> rows, imgs |-> imgs, files |-> files]]
    /\ UNCHANGED <<disk, tables, raced, leaked>>

\* (Mutant of SelectContext) Only files of the posts themselves, not of the replies.
SelectRoots(r, p, roots, imgs) ==
    Selects(r, p, roots, AttachedTo(Below(roots)), imgs, FilesOf(AttachedTo(roots)) \cup imgs)

\* The posts to be deleted and the files of their attachments; of a profile (p),
\* also its images.
SelectContext(r, p, roots, imgs) ==
    LET rows == AttachedTo(Below(roots)) IN Selects(r, p, roots, rows, imgs, FilesOf(rows) \cup imgs)

DeletePost(r, p) == SelectContext(r, None, {p}, {})

DeleteProfile(r, p) ==
    SelectContext(r, p, {q \in DOMAIN posts : posts[q].author = p}, {images[p]} \ {None})

\* Counters, DELETE with everything that cascades, and find_orphaned_files, which
\* does not see what other open transactions delete.
DeleteRows(r) ==
    LET q      == req[r]
        p      == q.profile
        mine   == {x \in DOMAIN posts : posts[x].author = p}
        doomed == Below(q.roots \cup mine) \cap DOMAIN posts
        rows   == AttachedTo(doomed) \cup OwnedBy(p)
        imgs   == {images[x] : x \in DOMAIN images \cap {p}} \ {None}
        authors == {posts[x].author : x \in doomed \cup (q.posts \cap DOMAIN posts)}
                     \cup ({p} \cap DOMAIN images)
    IN  /\ q.step = "selected"
        /\ IF p = None THEN q.roots \subseteq DOMAIN posts ELSE p \in DOMAIN images
        /\ authors \cap LockedProfiles = {} /\ doomed \cap LockedPosts = {}
        /\ req' = [req EXCEPT ![r] = [step |-> "deleted", profile |-> p, authors |-> authors,
              posts |-> doomed, rows |-> rows, late |-> FilesOf(rows \ q.rows) \cup (imgs \ q.imgs),
              files |-> FindOrphanedFiles(q.files, Without(attachments, rows), Without(images, {p}), emojis)]]
        /\ leaked' = leaked \cup Overlooked(q.files, rows, {p})
        /\ Races({})
        /\ UNCHANGED <<disk, tables>>

\* Left behind: files of rows that came after the selection, and of unused
\* attachments of the profile.
CommitDelete(r) ==
    LET q == req[r]
    IN  /\ q.step = "deleted"
        /\ posts' = Without(posts, q.posts)
        /\ attachments' = Without(attachments, q.rows)
        /\ images' = Without(images, {q.profile})
        /\ Removes(r, q.files)
        /\ Races({})
        /\ UNCHANGED <<disk, emojis>>
        /\ Leaves(q.late)

-----------------------------------------------------------------------------
(* Deletions that are no transactions: DELETE, find, remove *)

Finds(r, files) == req' = [req EXCEPT ![r] = [step |-> "find", files |-> files]]

\* delete_emoji, of the pruning task or the command line.
DeleteEmoji(r, e) ==
    /\ req[r] = Free
    /\ emojis' = Without(emojis, {e})
    /\ Finds(r, {emojis[e]})
    /\ UNCHANGED <<disk, images, posts, attachments, raced, leaked>>

\* delete_unused_attachments, of those of no post that are old enough.
DeleteUnusedAttachments(r, old) ==
    /\ req[r] = Free
    /\ old # {} /\ old \subseteq AttachedTo({None}) \ DoomedRows
    /\ attachments' = Without(attachments, old)
    /\ Finds(r, FilesOf(old))
    /\ UNCHANGED <<disk, images, emojis, posts, raced, leaked>>

\* The command delete-orphaned-files: read_dir.
DeleteOrphanedFiles(r) ==
    /\ req[r] = Free /\ disk # {}
    /\ Finds(r, disk)
    /\ UNCHANGED <<disk, tables, raced, leaked>>

Find(r) ==
    /\ req[r].step = "find"
    /\ Removes(r, FindOrphanedFiles(req[r].files, attachments, images, emojis))
    /\ leaked' = leaked \cup Overlooked(req[r].files, {}, {})
    /\ Races({})
    /\ UNCHANGED <<disk, tables>>

\* remove_files, of one file after another.
RemoveFile(r) ==
    /\ req[r].step = "remove"
    /\ \E f \in req[r].files :
        /\ disk' = disk \ {f}
        /\ leaked' = leaked \ {f}
        /\ Removes(r, req[r].files \ {f})
    /\ UNCHANGED <<tables, raced>>

\* An error, a lost connection (ROLLBACK of a transaction) or a crash.
RequestFails(r) ==
    /\ req[r] # Free
    /\ Done(r)
    /\ Races({})
    /\ UNCHANGED <<disk, tables>>
    /\ Leaves(CASE req[r].step = "saved" -> {req[r].file}
                [] req[r].step \in {"find", "remove"} -> req[r].files
                [] OTHER -> {})

-----------------------------------------------------------------------------
Next ==
    \/ \E r \in Request :
        \/ \E f \in File :
            \/ \E p \in DOMAIN images : SaveFile(r, f, "attachment", p) \/ SaveFile(r, f, "image", p)
            \/ \E e \in RemoteEmoji :
                  SaveFile(r, f, IF e \in DOMAIN emojis THEN "update_emoji" ELSE "create_emoji", e)
        \/ \E p \in DOMAIN images : KeepImage(r, p) \/ DeleteProfile(r, p)
        \/ \E e \in DOMAIN emojis : DeleteEmoji(r, e) \/ \E new \in LocalEmoji : ImportEmoji(r, e, new)
        \/ \E a \in Attachment : CreateAttachment(r, a)
        \/ UpdateImage(r)
        \/ SetEmoji(r)
        \/ \E p \in DOMAIN posts : DeletePost(r, p)
        \/ DeleteRows(r)
        \/ CommitDelete(r)
        \/ \E old \in SUBSET DOMAIN attachments : DeleteUnusedAttachments(r, old)
        \/ DeleteOrphanedFiles(r)
        \/ Find(r)
        \/ RemoveFile(r)
        \/ RequestFails(r)
    \/ \E p \in DOMAIN images : DropImage(p)
    \/ \E S \in SUBSET DOMAIN attachments :
        \/ \E p \in Post, author \in Profile, parent \in Post \cup {None} :
              CreatePost(p, author, parent, S)
        \/ \E p \in DOMAIN posts : UpdatePost(p, S)

Spec == Init /\ [][Next]_vars

-----------------------------------------------------------------------------
(* Properties *)

\* Posts and attachments belong to profiles and posts that exist.
TypeOK ==
    /\ disk \subseteq File /\ raced \subseteq File /\ leaked \subseteq File
    /\ DOMAIN images \subseteq Profile /\ \A p \in DOMAIN images : images[p] \in File \cup {None}
    /\ DOMAIN emojis \subseteq Emoji /\ \A e \in DOMAIN emojis : emojis[e] \in File
    /\ posts \in [DOMAIN posts -> [author : DOMAIN images, parent : DOMAIN posts \cup {None}]]
    /\ attachments \in [DOMAIN attachments ->
          [owner : DOMAIN images, file : File, post : DOMAIN posts \cup {None}]]

\* A file is not removed while a row refers to it, unless a request had saved (or
\* read the name of) the file and not yet inserted its row when another had found
\* it orphaned: whatever kinds of rows share the file and however they are
\* deleted at the same time.
FilesKept == Referred \subseteq disk \cup raced

\* No file is left behind when its last row is deleted, except in the ways that
\* the code has: an image replaced, the attachments of an updated note, unused
\* attachments of a deleted profile, replies that come while their parent is
\* deleted, two deletions at the same time, and a process that stops before
\* inserting the row or before removing the file.
NothingLeaks ==
    disk \subseteq Referred \cup leaked \cup Held \cup Queued
      \cup UNION {req[r].files : r \in In("find")}
=============================================================================
