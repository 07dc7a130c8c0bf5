---------------------------- MODULE MediaFiles_proofs ----------------------------
(***************************************************************************)
(* MediaFiles, for any sets of files, rows and requests: proofs that no    *)
(* file is removed while a row refers to it, but for the races of raced,   *)
(* and that no file stays behind but in the ways of leaked.                *)
(***************************************************************************)
EXTENDS MediaFiles, TLAPS

-----------------------------------------------------------------------------
(* Tables and requests *)

\* Rows of attachments are records of three fields.
Shaped(row) == row = [owner |-> row.owner, file |-> row.file, post |-> row.post]

Typed ==
    /\ disk \subseteq File
    /\ \A a \in DOMAIN attachments : Shaped(attachments[a])
    /\ DOMAIN req = Request

\* Attaching changes the posts of attachments only.
LEMMA AttachFacts ==
    ASSUME NEW at, NEW S, NEW p, \A a \in DOMAIN at : Shaped(at[a])
    PROVE  /\ DOMAIN Attach(at, S, p) = DOMAIN at
           /\ \A a \in DOMAIN at :
                /\ Shaped(Attach(at, S, p)[a])
                /\ Attach(at, S, p)[a].owner = at[a].owner
                /\ Attach(at, S, p)[a].file = at[a].file
                /\ Attach(at, S, p)[a].post = IF a \in S THEN p ELSE at[a].post
<1>1. DOMAIN Attach(at, S, p) = DOMAIN at
  BY DEF Attach
<1>2. ASSUME NEW a \in DOMAIN at
      PROVE  /\ Shaped(Attach(at, S, p)[a])
             /\ Attach(at, S, p)[a].owner = at[a].owner
             /\ Attach(at, S, p)[a].file = at[a].file
             /\ Attach(at, S, p)[a].post = IF a \in S THEN p ELSE at[a].post
  <2>1. PICK row : row = at[a] /\ Shaped(row)
    OBVIOUS
  <2>2. PICK x : x = [row EXCEPT !.post = p]
    OBVIOUS
  <2>3. row = [owner |-> row.owner, file |-> row.file, post |-> row.post]
    BY <2>1 DEF Shaped
  <2>4. x = [owner |-> row.owner, file |-> row.file, post |-> p]
    BY <2>2, <2>3
  <2>5. Shaped(x) /\ x.owner = row.owner /\ x.file = row.file /\ x.post = p
    BY <2>4 DEF Shaped
  <2>6. Attach(at, S, p)[a] = IF a \in S THEN x ELSE row
    BY <2>1, <2>2 DEF Attach
  <2> QED
    BY <2>1, <2>5, <2>6
<1> QED
  BY <1>1, <1>2

\* A step of one request, to v.
LEMMA OneRequest ==
    ASSUME DOMAIN req = Request, NEW r \in Request, NEW v, req' = [req EXCEPT ![r] = v]
    PROVE  /\ DOMAIN req' = Request /\ req'[r] = v
           /\ \A s \in Request \ {r} : req'[s] = req[s]
OBVIOUS

\* The files that rows of the three tables refer to come from old rows or from new.
TablesFrom(new) ==
    /\ \A a \in DOMAIN attachments' :
         \/ a \in DOMAIN attachments /\ attachments'[a].file = attachments[a].file
         \/ attachments'[a].file \in new
    /\ \A p \in DOMAIN images' :
         \/ p \in DOMAIN images /\ images'[p] = images[p]
         \/ images'[p] \in new \cup {None}
    /\ \A e \in DOMAIN emojis' :
         \/ e \in DOMAIN emojis /\ emojis'[e] = emojis[e]
         \/ emojis'[e] \in new

-----------------------------------------------------------------------------
(* No file is removed that is referred to *)

Removing == UNION {req[r].files : r \in In("remove")}

\* What a row refers to, or a request is to refer to, is there.
Present == (Held \cup Referred) \ {None} \subseteq disk \cup raced

\* A file in two hands is a race.
TwoHands == Held \cap Queued \subseteq raced

\* What a request removes, no row refers to ...
RemovedUnreferred == Removing \cap Referred \subseteq raced

\* ... and of the files of a deletion that has not committed, no other rows than
\* its own.
OtherRefs(at, im, em, q) == ReferredBy(Without(at, q.rows), Without(im, {q.profile}), em)

DeletedUnreferred ==
    \A r \in Deleting :
        (req[r].files \cap OtherRefs(attachments, images, emojis, req[r])) \ {None} \subseteq raced

KInv == Typed /\ Present /\ TwoHands /\ RemovedUnreferred /\ DeletedUnreferred

LEMMA ReferencesFrom ==
    ASSUME NEW new, TablesFrom(new)
    PROVE  /\ Referred' \subseteq Referred \cup new
           /\ \A q : OtherRefs(attachments', images', emojis', q)
                       \subseteq OtherRefs(attachments, images, emojis, q) \cup new \cup {None}
<1>1. ASSUME NEW A, NEW P
      PROVE  ReferredBy(Without(attachments', A), Without(images', P), emojis')
               \subseteq ReferredBy(Without(attachments, A), Without(images, P), emojis) \cup new \cup {None}
  <2>a. PICK at : at = attachments'
    OBVIOUS
  <2>b. PICK im : im = images'
    OBVIOUS
  <2> SUFFICES ASSUME NEW x, x \notin new \cup {None},
                      x \in ReferredBy(Without(at, A), Without(im, P), emojis')
               PROVE  x \in ReferredBy(Without(attachments, A), Without(images, P), emojis)
    BY <2>a, <2>b
  <2>1. CASE \E a \in DOMAIN Without(at, A) : x = Without(at, A)[a].file
    <3>1. PICK a \in DOMAIN at \ A : x = at[a].file
      BY <2>1 DEF Without
    <3>2. a \in DOMAIN attachments \ A /\ x = attachments[a].file
      BY <2>a, <3>1 DEF TablesFrom
    <3>3. a \in DOMAIN Without(attachments, A) /\ x = Without(attachments, A)[a].file
      BY <3>2 DEF Without
    <3> QED
      BY <3>3 DEF ReferredBy
  <2>2. CASE \E p \in DOMAIN Without(im, P) : x = Without(im, P)[p]
    <3>1. PICK p \in DOMAIN im \ P : x = im[p]
      BY <2>2 DEF Without
    <3>2. p \in DOMAIN images \ P /\ x = images[p]
      BY <2>b, <3>1 DEF TablesFrom
    <3> QED
      BY <3>2 DEF ReferredBy, Without
  <2>3. CASE \E e \in DOMAIN emojis' : x = emojis'[e]
    BY <2>3 DEF TablesFrom, ReferredBy
  <2> QED
    BY <2>1, <2>2, <2>3 DEF ReferredBy
<1>2. Referred' \subseteq Referred \cup new
  BY DEF TablesFrom, Referred, ReferredBy
<1> QED
  BY <1>1, <1>2 DEF OtherRefs

\* Any step but the removal of a file: what is held or referred to comes from what
\* was, or is fresh, that is, saved just now.
LEMMA StepKeeps ==
    ASSUME KInv, Typed', NEW fresh, fresh \subseteq disk' \cap Held', disk \subseteq disk',
           (raced \ fresh) \cup (Held' \cap Queued') \subseteq raced',
           Held' \subseteq Held \cup Referred \cup fresh \cup {None},
           TablesFrom(Held),
           \A x \in Removing' : x \in Removing \/ x \notin Referred' \/ x \in raced,
           \A s \in Deleting' :
              \/ s \in Deleting /\ req'[s] = req[s]
              \/ req'[s].files \cap OtherRefs(attachments', images', emojis', req'[s]) = {}
    PROVE  KInv'
<1>1. Referred' \subseteq Referred \cup Held
  BY ReferencesFrom
<1>2. Present'
  BY <1>1 DEF KInv, Present
<1>3. TwoHands'
  BY DEF TwoHands
<1>4. \A x : x \in raced /\ x \in Queued' => x \in raced'
  OBVIOUS
<1>5. RemovedUnreferred'
  <2> SUFFICES ASSUME NEW x \in Removing' \cap Referred' PROVE x \in raced'
    BY DEF RemovedUnreferred
  <2>1. Removing' \subseteq Queued' /\ Removing \subseteq Queued
    BY DEF Removing, Queued
  <2>2. x \in raced
    BY <1>1, <2>1 DEF KInv, RemovedUnreferred, TwoHands
  <2> QED
    BY <1>4, <2>1, <2>2
<1>6. DeletedUnreferred'
  <2> SUFFICES ASSUME NEW s \in Deleting',
                      NEW x \in req'[s].files \cap OtherRefs(attachments', images', emojis', req'[s]),
                      x # None
               PROVE  x \in raced'
    BY DEF DeletedUnreferred
  <2>1. s \in Deleting /\ req'[s] = req[s]
    OBVIOUS
  <2>2. x \in Queued /\ x \in Queued'
    BY <2>1 DEF Queued, Deleting, In
  <2>3. x \in OtherRefs(attachments, images, emojis, req[s]) \cup Held
    BY <2>1, ReferencesFrom
  <2>4. x \in raced
    BY <2>1, <2>2, <2>3 DEF KInv, DeletedUnreferred, TwoHands
  <2> QED
    BY <1>4, <2>2, <2>4
<1> QED
  BY <1>2, <1>3, <1>5, <1>6 DEF KInv
\* What a step of request r to v makes of the files held and removed and of the
\* deletions.
StepTo(r, v) ==
    /\ DOMAIN req' = Request
    /\ Held' \subseteq Held \cup {x \in {v.file} : v.step = "saved"}
    /\ v.step = "saved" => v.file \in Held'
    /\ Removing' \subseteq Removing \cup {x \in v.files : v.step = "remove"}
    /\ \A s \in Deleting' :
         \/ s \in Deleting /\ req'[s] = req[s]
         \/ v.step = "deleted" /\ s = r /\ req'[s] = v

LEMMA StepFacts ==
    ASSUME Typed, NEW r \in Request, NEW v, req' = [req EXCEPT ![r] = v]
    PROVE  StepTo(r, v)
<1>1. /\ DOMAIN req' = Request /\ req'[r] = v
      /\ \A s \in Request \ {r} : req'[s] = req[s]
  BY OneRequest DEF Typed
<1>2. Held' \subseteq Held \cup {x \in {v.file} : v.step = "saved"}
  BY <1>1 DEF Held, In
<1>3. v.step = "saved" => v.file \in Held'
  BY <1>1 DEF Held, In
<1>4. Removing' \subseteq Removing \cup {x \in v.files : v.step = "remove"}
  BY <1>1 DEF Removing, In
<1>5. ASSUME NEW s \in Deleting'
      PROVE  \/ s \in Deleting /\ req'[s] = req[s]
             \/ v.step = "deleted" /\ s = r /\ req'[s] = v
  BY <1>1 DEF Deleting, In
<1> QED
  BY <1>1, <1>2, <1>3, <1>4, <1>5 DEF StepTo

\* Steps that neither save, remove nor delete.
LEMMA IdleStep ==
    ASSUME KInv, Typed', NEW r, NEW v, StepTo(r, v), v.step \in {"free", "selected", "find"},
           disk' = disk, Races({}), TablesFrom(Held)
    PROVE  KInv'
<1>1. /\ Held' \subseteq Held /\ Removing' \subseteq Removing
      /\ \A s \in Deleting' : s \in Deleting /\ req'[s] = req[s]
  BY DEF StepTo
<1>2. raced \cup (Held' \cap Queued') \subseteq raced'
  BY DEF Races
<1> QED
  BY <1>1, <1>2, StepKeeps, {} \subseteq disk' \cap Held'

LEMMA FreeStep == Free.step = "free"
BY DEF Free

LEMMA SaveFileKeeps ==
    ASSUME KInv, NEW r \in Request, NEW f \in File, NEW use, NEW id, SaveFile(r, f, use, id)
    PROVE  KInv'
<1>1. PICK v : v = [step |-> "saved", file |-> f, use |-> use, id |-> id]
  OBVIOUS
<1>2. v.step = "saved" /\ v.file = f
  BY <1>1
<1>3. StepTo(r, v)
  BY <1>1, StepFacts DEF KInv, SaveFile
<1>4. TablesFrom(Held)
  BY DEF TablesFrom, SaveFile, tables
<1>5. Typed'
  BY <1>3 DEF KInv, Typed, StepTo, SaveFile, tables
<1>6. {f} \subseteq disk' \cap Held' /\ disk \subseteq disk'
  BY <1>2, <1>3 DEF StepTo, SaveFile
<1>7. /\ Held' \subseteq Held \cup {f} /\ Removing' \subseteq Removing
      /\ \A s \in Deleting' : s \in Deleting /\ req'[s] = req[s]
  BY <1>2, <1>3 DEF StepTo
<1>8. (raced \ {f}) \cup (Held' \cap Queued') \subseteq raced'
  BY DEF SaveFile, Races
<1> QED
  BY <1>4, <1>5, <1>6, <1>7, <1>8, StepKeeps

\* A request takes the name of a file that a row refers to.
LEMMA TakeNameKeeps ==
    ASSUME KInv, NEW r \in Request, NEW f \in Referred \cup {None}, NEW use, NEW id,
           req' = [req EXCEPT ![r] = [step |-> "saved", file |-> f, use |-> use, id |-> id]],
           Races({}), UNCHANGED <<disk, tables>>
    PROVE  KInv'
<1>1. PICK v : v = [step |-> "saved", file |-> f, use |-> use, id |-> id]
  OBVIOUS
<1>2. v.step = "saved" /\ v.file = f
  BY <1>1
<1>3. StepTo(r, v)
  BY <1>1, StepFacts DEF KInv
<1>4. TablesFrom(Held)
  BY DEF TablesFrom, tables
<1>5. Typed'
  BY <1>3 DEF KInv, Typed, StepTo, tables
<1>7. /\ Held' \subseteq Held \cup {f} /\ Removing' \subseteq Removing
      /\ \A s \in Deleting' : s \in Deleting /\ req'[s] = req[s]
  BY <1>2, <1>3 DEF StepTo
<1>8. raced \cup (Held' \cap Queued') \subseteq raced'
  BY DEF Races
<1> QED
  BY <1>4, <1>5, <1>7, <1>8, StepKeeps, {} \subseteq disk' \cap Held'

LEMMA InsertKeeps ==
    ASSUME KInv, NEW r \in Request,
           (\E a \in Attachment : CreateAttachment(r, a)) \/ UpdateImage(r) \/ SetEmoji(r)
    PROVE  KInv'
<1>1. StepTo(r, Free)
  BY StepFacts DEF KInv, CreateAttachment, UpdateImage, SetEmoji, Done
<1>2. req[r].step = "saved" /\ r \in DOMAIN req /\ disk' = disk /\ Races({})
  BY DEF CreateAttachment, UpdateImage, SetEmoji, KInv, Typed
<1>3. req[r].file \in Held
  BY <1>2 DEF Held, In
<1>4. CASE \E a \in Attachment : CreateAttachment(r, a)
  <2>1. PICK a \in Attachment : CreateAttachment(r, a)
    BY <1>4
  <2>2. PICK row : row = [owner |-> req[r].id, file |-> req[r].file, post |-> None]
    OBVIOUS
  <2>3. row.file = req[r].file /\ Shaped(row)
    BY <2>2 DEF Shaped
  <2>4. /\ DOMAIN attachments' = DOMAIN attachments \cup {a} /\ attachments'[a] = row
        /\ \A x \in DOMAIN attachments \ {a} : attachments'[x] = attachments[x]
    BY <2>1, <2>2 DEF CreateAttachment, With
  <2>5. TablesFrom(Held)
    BY <1>3, <2>1, <2>3, <2>4 DEF TablesFrom, CreateAttachment
  <2>6. Typed'
    BY <1>1, <1>2, <2>3, <2>4 DEF KInv, Typed, StepTo
  <2> QED
    BY <1>1, <1>2, <2>5, <2>6, IdleStep, FreeStep
<1>5. CASE UpdateImage(r)
  <2>1. TablesFrom(Held)
    BY <1>3, <1>5 DEF TablesFrom, UpdateImage
  <2>2. Typed'
    BY <1>1, <1>2, <1>5 DEF KInv, Typed, StepTo, UpdateImage
  <2> QED
    BY <1>1, <1>2, <2>1, <2>2, IdleStep, FreeStep
<1>6. CASE SetEmoji(r)
  <2>1. TablesFrom(Held)
    BY <1>3, <1>6 DEF TablesFrom, SetEmoji, With
  <2>2. Typed'
    BY <1>1, <1>2, <1>6 DEF KInv, Typed, StepTo, SetEmoji
  <2> QED
    BY <1>1, <1>2, <2>1, <2>2, IdleStep, FreeStep
<1> QED
  BY <1>4, <1>5, <1>6

\* Steps of posts and profiles that no request goes through.
LEMMA RequestlessKeeps ==
    ASSUME KInv, Typed', disk' = disk, req' = req, raced' = raced, TablesFrom({})
    PROVE  KInv'
<1>1. /\ Held' = Held /\ Removing' = Removing /\ Queued' = Queued
      /\ \A s \in Deleting' : s \in Deleting /\ req'[s] = req[s]
  BY DEF Held, Removing, Queued, Deleting, In
<1>2. TablesFrom(Held)
  BY DEF TablesFrom
<1>3. raced \cup (Held' \cap Queued') \subseteq raced'
  BY <1>1 DEF KInv, TwoHands
<1> QED
  BY <1>1, <1>2, <1>3, StepKeeps, {} \subseteq disk' \cap Held'

LEMMA DropImageKeeps ==
    ASSUME KInv, NEW p \in DOMAIN images, DropImage(p)
    PROVE  KInv'
<1>1. TablesFrom({})
  BY DEF TablesFrom, DropImage
<1>2. Typed'
  BY DEF KInv, Typed, DropImage
<1> QED
  BY <1>1, <1>2, RequestlessKeeps DEF DropImage

LEMMA AttachingKeeps ==
    ASSUME KInv, NEW at, NEW S, NEW p, attachments' = Attach(at, S, p),
           DOMAIN at \subseteq DOMAIN attachments,
           \A a \in DOMAIN at : at[a] = attachments[a],
           UNCHANGED <<disk, images, emojis, req, raced>>
    PROVE  KInv'
<1>1. \A a \in DOMAIN at : Shaped(at[a])
  BY DEF KInv, Typed
<1>2. /\ DOMAIN attachments' = DOMAIN at
      /\ \A a \in DOMAIN at : Shaped(attachments'[a]) /\ attachments'[a].file = at[a].file
  BY <1>1, AttachFacts
<1>3. TablesFrom({})
  BY <1>2 DEF TablesFrom
<1>4. Typed'
  BY <1>2 DEF KInv, Typed
<1> QED
  BY <1>3, <1>4, RequestlessKeeps

LEMMA PostKeeps ==
    ASSUME KInv,
           NEW p, NEW S,
           (\E author, parent : CreatePost(p, author, parent, S)) \/ UpdatePost(p, S)
    PROVE  KInv'
<1>1. CASE \E author, parent : CreatePost(p, author, parent, S)
  BY <1>1, AttachingKeeps DEF CreatePost
<1>2. CASE UpdatePost(p, S)
  <2>1. PICK at : at = Without(attachments, AttachedTo({p}))
    OBVIOUS
  <2>2. DOMAIN at \subseteq DOMAIN attachments /\ \A a \in DOMAIN at : at[a] = attachments[a]
    BY <2>1 DEF Without
  <2>3. /\ attachments' = Attach(at, S, p)
        /\ UNCHANGED <<disk, images, emojis, req, raced>>
    BY <1>2, <2>1 DEF UpdatePost
  <2> QED
    BY <2>2, <2>3, AttachingKeeps
<1> QED
  BY <1>1, <1>2

\* What find_orphaned_files returns, no row refers to.
LEMMA FoundUnreferred ==
    ASSUME NEW files
    PROVE  /\ FindOrphanedFiles(files, attachments, images, emojis) \subseteq files
           /\ FindOrphanedFiles(files, attachments, images, emojis) \cap Referred = {}
BY DEF FindOrphanedFiles, Referred

\* No file is queued but by a deletion that finds it or a request that removes it.
LEMMA QueuedFrom ==
    ASSUME Removing' \subseteq Removing,
           \A s \in Deleting' : s \in Deleting /\ req'[s] = req[s]
    PROVE  Queued' \subseteq Queued
<1> SUFFICES ASSUME NEW x \in Queued' PROVE x \in Queued
  OBVIOUS
<1>1. CASE x \in Removing'
  BY <1>1 DEF Queued, Removing
<1>2. CASE \E s \in Deleting' : x \in req'[s].files
  BY <1>2 DEF Queued, Deleting
<1> QED
  BY <1>1, <1>2 DEF Queued, Removing, Deleting

LEMMA SelectKeeps ==
    ASSUME KInv, NEW r \in Request, NEW p, NEW roots, NEW imgs, SelectContext(r, p, roots, imgs)
    PROVE  KInv'
<1> DEFINE rows == AttachedTo(Below(roots))
<1>1. PICK v : v = [step |-> "selected", profile |-> p, roots |-> roots, posts |-> Below(roots),
                    rows |-> rows, imgs |-> imgs, files |-> FilesOf(rows) \cup imgs]
  OBVIOUS
<1>2. v.step = "selected"
  BY <1>1
<1>3. StepTo(r, v) /\ disk' = disk /\ raced' = raced /\ UNCHANGED tables
  BY <1>1, StepFacts DEF KInv, SelectContext, Selects
<1>4. TablesFrom(Held) /\ Typed'
  BY <1>3 DEF KInv, Typed, TablesFrom, StepTo, tables
<1>5. /\ Held' \subseteq Held /\ Removing' \subseteq Removing
      /\ \A s \in Deleting' : s \in Deleting /\ req'[s] = req[s]
  BY <1>2, <1>3 DEF StepTo
<1>6. Queued' \subseteq Queued
  BY <1>5, QueuedFrom
<1>7. raced \cup (Held' \cap Queued') \subseteq raced'
  BY <1>3, <1>5, <1>6 DEF KInv, TwoHands
<1> QED
  BY <1>3, <1>4, <1>5, <1>7, StepKeeps, {} \subseteq disk' \cap Held'

\* DELETE of rows, or a listing of the directory: the files are then looked up.
LEMMA FindingKeeps ==
    ASSUME KInv, NEW r \in Request, NEW files, Finds(r, files),
           disk' = disk, raced' = raced, TablesFrom({}), Typed'
    PROVE  KInv'
<1>1. PICK v : v = [step |-> "find", files |-> files]
  OBVIOUS
<1>2. v.step = "find"
  BY <1>1
<1>3. StepTo(r, v)
  BY <1>1, StepFacts DEF KInv, Finds
<1>4. TablesFrom(Held)
  BY DEF TablesFrom
<1>5. /\ Held' \subseteq Held /\ Removing' \subseteq Removing
      /\ \A s \in Deleting' : s \in Deleting /\ req'[s] = req[s]
  BY <1>2, <1>3 DEF StepTo
<1>6. Queued' \subseteq Queued
  BY <1>5, QueuedFrom
<1>7. raced \cup (Held' \cap Queued') \subseteq raced'
  BY <1>5, <1>6 DEF KInv, TwoHands
<1> QED
  BY <1>4, <1>5, <1>7, StepKeeps, {} \subseteq disk' \cap Held'

LEMMA DeletionKeeps ==
    ASSUME KInv, NEW r \in Request,
           (\E e : DeleteEmoji(r, e)) \/ (\E old : DeleteUnusedAttachments(r, old)) \/ DeleteOrphanedFiles(r)
    PROVE  KInv'
<1>1. DOMAIN req' = Request
  BY DEF KInv, Typed, DeleteEmoji, DeleteUnusedAttachments, DeleteOrphanedFiles, Finds
<1>2. CASE \E e : DeleteEmoji(r, e)
  <2>1. TablesFrom({}) /\ Typed'
    BY <1>1, <1>2 DEF KInv, Typed, TablesFrom, DeleteEmoji, Without
  <2> QED
    BY <1>2, <2>1, FindingKeeps DEF DeleteEmoji
<1>3. CASE \E old : DeleteUnusedAttachments(r, old)
  <2>1. TablesFrom({}) /\ Typed'
    BY <1>1, <1>3 DEF KInv, Typed, TablesFrom, DeleteUnusedAttachments, Without
  <2> QED
    BY <1>3, <2>1, FindingKeeps DEF DeleteUnusedAttachments
<1>4. CASE DeleteOrphanedFiles(r)
  <2>1. TablesFrom({}) /\ Typed'
    BY <1>1, <1>4 DEF KInv, Typed, TablesFrom, DeleteOrphanedFiles, tables
  <2> QED
    BY <1>4, <2>1, FindingKeeps DEF DeleteOrphanedFiles
<1> QED
  BY <1>2, <1>3, <1>4

\* A request goes on to remove files, or has none to remove.
LEMMA RemovesTo ==
    ASSUME Typed, NEW r \in Request, NEW files, Removes(r, files)
    PROVE  /\ DOMAIN req' = Request
           /\ Held' \subseteq Held /\ Removing' \subseteq Removing \cup files
           /\ \A s \in Deleting' : s \in Deleting /\ req'[s] = req[s]
<1>1. PICK v : v = IF files = {} THEN Free ELSE [step |-> "remove", files |-> files]
  OBVIOUS
<1>2. v.step \in {"free", "remove"} /\ (v.step = "remove" => v.files = files)
  BY <1>1 DEF Free
<1>3. StepTo(r, v)
  BY <1>1, StepFacts DEF Removes
<1> QED
  BY <1>2, <1>3 DEF StepTo

LEMMA FindKeeps ==
    ASSUME KInv, NEW r \in Request, Find(r)
    PROVE  KInv'
<1> DEFINE files == FindOrphanedFiles(req[r].files, attachments, images, emojis)
<1>1. UNCHANGED <<disk, tables>> /\ Removes(r, files)
  BY DEF Find
<1>2. Referred' = Referred /\ files \cap Referred = {}
  BY <1>1, FoundUnreferred DEF Referred, tables
<1>3. /\ DOMAIN req' = Request
      /\ Held' \subseteq Held /\ Removing' \subseteq Removing \cup files
      /\ \A s \in Deleting' : s \in Deleting /\ req'[s] = req[s]
  BY <1>1, RemovesTo DEF KInv
<1>4. TablesFrom(Held) /\ Typed'
  BY <1>1, <1>3 DEF KInv, Typed, TablesFrom, tables
<1>5. raced \cup (Held' \cap Queued') \subseteq raced'
  BY DEF Find, Races
<1>6. \A x \in Removing' : x \in Removing \/ x \notin Referred' \/ x \in raced
  BY <1>2, <1>3
<1> QED
  BY <1>1, <1>3, <1>4, <1>5, <1>6, StepKeeps, {} \subseteq disk' \cap Held'

LEMMA FailKeeps ==
    ASSUME KInv, NEW r \in Request, RequestFails(r)
    PROVE  KInv'
<1>1. StepTo(r, Free) /\ disk' = disk /\ Races({}) /\ UNCHANGED tables
  BY StepFacts DEF KInv, RequestFails, Done
<1>2. TablesFrom(Held) /\ Typed'
  BY <1>1 DEF KInv, Typed, TablesFrom, StepTo, tables
<1> QED
  BY <1>1, <1>2, IdleStep, FreeStep

\* What the transaction finds orphaned, no rows refer to but its own.
LEMMA DeleteRowsKeeps ==
    ASSUME KInv, NEW r \in Request, DeleteRows(r)
    PROVE  KInv'
<1> DEFINE q      == req[r]
           p      == q.profile
           mine   == {x \in DOMAIN posts : posts[x].author = p}
           doomed == Below(q.roots \cup mine) \cap DOMAIN posts
           rows   == AttachedTo(doomed) \cup OwnedBy(p)
           imgs   == {images[x] : x \in DOMAIN images \cap {p}} \ {None}
           authors == {posts[x].author : x \in doomed \cup (q.posts \cap DOMAIN posts)}
                        \cup ({p} \cap DOMAIN images)
           late   == FilesOf(rows \ q.rows) \cup (imgs \ q.imgs)
           found  == FindOrphanedFiles(q.files, Without(attachments, rows), Without(images, {p}), emojis)
<1>1. PICK v :
        /\ req' = [req EXCEPT ![r] = v] /\ v.step = "deleted"
        /\ v.rows = rows /\ v.profile = p /\ v.files = found
  <2>1. req' = [req EXCEPT ![r] = [step |-> "deleted", profile |-> p, authors |-> authors,
          posts |-> doomed, rows |-> rows, late |-> late, files |-> found]]
    BY DEF DeleteRows
  <2> HIDE DEF p, authors, doomed, rows, late, found
  <2>2. PICK v : v = [step |-> "deleted", profile |-> p, authors |-> authors,
          posts |-> doomed, rows |-> rows, late |-> late, files |-> found]
    OBVIOUS
  <2>3. v.step = "deleted" /\ v.rows = rows /\ v.profile = p /\ v.files = found
    BY <2>2
  <2> QED
    BY <2>1, <2>2, <2>3
<1>2. disk' = disk /\ Races({}) /\ UNCHANGED tables
  BY DEF DeleteRows
<1>3. StepTo(r, v)
  BY <1>1, StepFacts DEF KInv
<1>4. TablesFrom(Held) /\ Typed'
  BY <1>2, <1>3 DEF KInv, Typed, TablesFrom, StepTo, tables
<1>5. v.files \cap OtherRefs(attachments, images, emojis, v) = {}
  BY <1>1 DEF FindOrphanedFiles, OtherRefs
<1>6. \A s \in Deleting' :
         \/ s \in Deleting /\ req'[s] = req[s]
         \/ req'[s].files \cap OtherRefs(attachments', images', emojis', req'[s]) = {}
  BY <1>2, <1>3, <1>5 DEF StepTo, tables
<1>7. Held' \subseteq Held /\ Removing' \subseteq Removing
  BY <1>1, <1>3 DEF StepTo
<1>8. raced \cup (Held' \cap Queued') \subseteq raced'
  BY <1>2 DEF Races
<1> QED
  BY <1>2, <1>4, <1>6, <1>7, <1>8, StepKeeps, {} \subseteq disk' \cap Held'

\* After COMMIT the rows that are left are those that the transaction looked up and
\* those inserted since.
LEMMA CommitDeleteKeeps ==
    ASSUME KInv, NEW r \in Request, CommitDelete(r)
    PROVE  KInv'
<1>1. PICK q : q = req[r]
  OBVIOUS
<1>2. /\ q.step = "deleted" /\ Removes(r, q.files) /\ Races({})
      /\ attachments' = Without(attachments, q.rows) /\ images' = Without(images, {q.profile})
      /\ emojis' = emojis /\ disk' = disk
  BY <1>1 DEF CommitDelete
<1>3. r \in Deleting
  BY <1>1, <1>2 DEF Deleting, In, KInv, Typed
<1>4. Referred' = OtherRefs(attachments, images, emojis, q) \ {None}
  BY <1>2 DEF Referred, OtherRefs
<1>5. q.files \cap Referred' \subseteq raced
  BY <1>1, <1>3, <1>4 DEF KInv, DeletedUnreferred
<1>6. /\ DOMAIN req' = Request
      /\ Held' \subseteq Held /\ Removing' \subseteq Removing \cup q.files
      /\ \A s \in Deleting' : s \in Deleting /\ req'[s] = req[s]
  BY <1>2, RemovesTo DEF KInv
<1>7. TablesFrom(Held)
  BY <1>2 DEF TablesFrom, Without
<1>8. Typed'
  BY <1>2, <1>6 DEF KInv, Typed, Without
<1>9. raced \cup (Held' \cap Queued') \subseteq raced'
  BY <1>2 DEF Races
<1>10. \A x \in Removing' : x \in Removing \/ x \notin Referred' \/ x \in raced
  BY <1>5, <1>6
<1> QED
  BY <1>2, <1>6, <1>7, <1>8, <1>9, <1>10, StepKeeps, {} \subseteq disk' \cap Held'

\* Only here does a file go: it is in the hands of the request, so that a row or a
\* request that has its name is a race.
LEMMA RemoveFileKeeps ==
    ASSUME KInv, NEW r \in Request, RemoveFile(r)
    PROVE  KInv'
<1>1. PICK f \in req[r].files : disk' = disk \ {f} /\ Removes(r, req[r].files \ {f})
  BY DEF RemoveFile
<1>2. UNCHANGED <<tables, raced>> /\ r \in In("remove")
  BY DEF RemoveFile, KInv, Typed, In
<1>3. f \in Removing /\ req[r].files \subseteq Removing
  BY <1>1, <1>2 DEF Removing
<1>4. /\ DOMAIN req' = Request
      /\ Held' \subseteq Held /\ Removing' \subseteq Removing
      /\ \A s \in Deleting' : s \in Deleting /\ req'[s] = req[s]
  BY <1>1, <1>3, RemovesTo DEF KInv
<1>5. Removing \subseteq Queued
  BY DEF Queued, Removing
<1>6. Queued' \subseteq Queued
  BY <1>4, QueuedFrom
<1>7. Referred' = Referred
  BY <1>2 DEF Referred, tables
<1>8. Typed'
  BY <1>1, <1>2, <1>4 DEF KInv, Typed, tables
<1>9. Present'
  <2>1. f \in Held \cup Referred => f \in raced
    BY <1>3, <1>5 DEF KInv, TwoHands, RemovedUnreferred
  <2> QED
    BY <1>1, <1>2, <1>4, <1>7, <2>1 DEF KInv, Present
<1>10. TwoHands' /\ RemovedUnreferred'
  BY <1>2, <1>4, <1>6, <1>7 DEF KInv, TwoHands, RemovedUnreferred
<1>11. DeletedUnreferred'
  BY <1>2, <1>4 DEF KInv, DeletedUnreferred, OtherRefs, tables
<1> QED
  BY <1>8, <1>9, <1>10, <1>11 DEF KInv

LEMMA InitKInv == Init => KInv
<1> SUFFICES ASSUME Init PROVE KInv
  OBVIOUS
<1>1. \A r \in Request : req[r].step = "free"
  BY FreeStep DEF Init
<1>2. DOMAIN req = Request
  BY DEF Init
<1>3. Held = {} /\ Queued = {} /\ Removing = {} /\ Deleting = {}
  BY <1>1, <1>2 DEF Held, Queued, Removing, Deleting, In
<1>4. DOMAIN attachments = {} /\ DOMAIN emojis = {} /\ \A p \in DOMAIN images : images[p] = None
  BY DEF Init
<1>5. Referred = {}
  BY <1>4 DEF Referred, ReferredBy
<1>6. Typed
  BY <1>2, <1>4 DEF Typed, Init
<1> QED
  BY <1>3, <1>5, <1>6 DEF KInv, Present, TwoHands, RemovedUnreferred, DeletedUnreferred

LEMMA NextKInv == KInv /\ [Next]_vars => KInv'
<1> SUFFICES ASSUME KInv, [Next]_vars PROVE KInv'
  OBVIOUS
<1>1. ASSUME NEW r \in Request, NEW f \in File, NEW use, NEW id, SaveFile(r, f, use, id)
      PROVE  KInv'
  BY <1>1, SaveFileKeeps
<1>2. ASSUME NEW r \in Request, NEW p \in DOMAIN images, KeepImage(r, p)
      PROVE  KInv'
  <2>1. images[p] \in Referred \cup {None}
    BY DEF Referred, ReferredBy
  <2> QED
    BY <1>2, <2>1, TakeNameKeeps DEF KeepImage
<1>3. ASSUME NEW r \in Request, NEW e \in DOMAIN emojis, NEW new, ImportEmoji(r, e, new)
      PROVE  KInv'
  <2>1. emojis[e] \in Referred \cup {None}
    BY DEF Referred, ReferredBy
  <2> QED
    BY <1>3, <2>1, TakeNameKeeps DEF ImportEmoji
<1>4. ASSUME NEW r \in Request, NEW p, DeleteProfile(r, p) \/ DeletePost(r, p)
      PROVE  KInv'
  BY <1>4, SelectKeeps DEF DeleteProfile, DeletePost
<1>5. CASE UNCHANGED vars
  <2>1. TablesFrom({}) /\ Typed' /\ disk' = disk /\ req' = req /\ raced' = raced
    BY <1>5 DEF KInv, Typed, TablesFrom, vars, tables
  <2> QED
    BY <2>1, RequestlessKeeps
<1> QED
  BY <1>1, <1>2, <1>3, <1>4, <1>5, InsertKeeps, DropImageKeeps, PostKeeps, DeletionKeeps, FindKeeps,
     FailKeeps, DeleteRowsKeeps, CommitDeleteKeeps, RemoveFileKeeps
  DEF Next

-----------------------------------------------------------------------------
(* Rows that open deletions are to delete *)

\* Attachments belong to profiles, and to posts of the same profile.
Owned ==
    /\ DOMAIN images \subseteq Profile /\ DOMAIN posts \subseteq Post
    /\ \A a \in DOMAIN attachments :
         /\ attachments[a].owner \in Profile
         /\ attachments[a].post # None =>
              /\ attachments[a].post \in DOMAIN posts
              /\ posts[attachments[a].post].author = attachments[a].owner

\* A selection has the files of its rows, as long as they are there.
Covers(q) ==
    /\ q.imgs \subseteq q.files
    /\ \A a \in q.rows \cap DOMAIN attachments : attachments[a].file \in q.files

SelectedRows == \A r \in In("selected") : Covers(req[r])

\* A deletion has locked the posts it is to delete and their authors, and its rows
\* are those of its posts and of its profile.
Locks(q) ==
    /\ q.posts \subseteq DOMAIN posts
    /\ \A x \in q.posts : posts[x].author \in q.authors
    /\ q.profile # None => q.profile \in q.authors

RowsOf(q) ==
    /\ \A a \in DOMAIN attachments : attachments[a].post \in q.posts => a \in q.rows
    /\ \A a \in q.rows \cap DOMAIN attachments :
         attachments[a].post \in q.posts \/ attachments[a].owner = q.profile

DeletedRows == \A r \in Deleting : Locks(req[r]) /\ RowsOf(req[r])

\* No two deletions have locked the same rows.
DeletedApart ==
    \A r, s \in Deleting : r # s =>
      /\ req[r].authors \cap req[s].authors = {}
      /\ req[r].posts \cap req[s].posts = {}

SInv == Owned /\ SelectedRows /\ DeletedRows /\ DeletedApart

\* Two deletions do not share an attachment, nor a profile.
LEMMA Disjoint ==
    ASSUME SInv, NEW r \in Deleting, NEW s \in Deleting, r # s
    PROVE  /\ \A a \in DOMAIN attachments : a \notin req[r].rows \cap req[s].rows
           /\ \A p \in DOMAIN images : p # req[r].profile \/ p # req[s].profile
<1>1. \A x \in Profile \cup Post : x # None
  BY MediaFilesAssumption
<1>2. /\ Locks(req[r]) /\ RowsOf(req[r]) /\ Locks(req[s]) /\ RowsOf(req[s])
      /\ req[r].authors \cap req[s].authors = {} /\ req[r].posts \cap req[s].posts = {}
  BY DEF SInv, DeletedRows, DeletedApart
<1>3. ASSUME NEW a \in DOMAIN attachments, a \in req[r].rows, a \in req[s].rows
      PROVE  FALSE
  <2>1. attachments[a].owner \in Profile /\ attachments[a].owner # None
    BY <1>1 DEF SInv, Owned
  <2>2. attachments[a].post \in req[r].posts \/ attachments[a].post \in req[s].posts
          => attachments[a].post \in Post /\ attachments[a].post # None
    BY <1>1, <1>2 DEF SInv, Owned, Locks
  <2>3. attachments[a].owner \in req[r].authors
    BY <1>2, <1>3, <2>1, <2>2 DEF SInv, Owned, Locks, RowsOf
  <2>4. attachments[a].owner \in req[s].authors
    BY <1>2, <1>3, <2>1, <2>2 DEF SInv, Owned, Locks, RowsOf
  <2> QED
    BY <1>2, <2>3, <2>4
<1>4. ASSUME NEW p \in DOMAIN images, p = req[r].profile, p = req[s].profile
      PROVE  FALSE
  BY <1>1, <1>2, <1>4 DEF SInv, Owned, Locks
<1> QED
  BY <1>3, <1>4

\* Steps that keep posts, and rows but for new ones that no request remembers.
LEMMA StructureKept ==
    ASSUME SInv,
           posts' = posts, DOMAIN images' \subseteq Profile,
           \A a \in DOMAIN attachments' :
              \/ a \in DOMAIN attachments /\ attachments'[a] = attachments[a]
              \/ a \notin Remembered /\ attachments'[a].owner \in Profile /\ attachments'[a].post = None,
           \A s \in Deleting' : s \in Deleting /\ req'[s] = req[s],
           \A s \in In("selected")' : \/ s \in In("selected") /\ req'[s] = req[s]
                                      \/ Covers(req[s])'
    PROVE  SInv'
<1>1. Owned'
  BY DEF SInv, Owned
<1>2. None \notin Post
  BY MediaFilesAssumption
<1>3. ASSUME NEW s \in Deleting'
      PROVE  Locks(req[s])' /\ RowsOf(req[s])'
  <2>1. s \in Deleting /\ req'[s] = req[s] /\ Locks(req[s]) /\ RowsOf(req[s])
    BY DEF SInv, DeletedRows
  <2>2. Locks(req[s])'
    BY <2>1 DEF Locks
  <2>3. None \notin req[s].posts /\ \A a \in req[s].rows : a \in Remembered
    BY <1>2, <2>1 DEF SInv, Owned, Locks, Remembered, Deleting
  <2>4. RowsOf(req[s])'
    BY <2>1, <2>3 DEF RowsOf
  <2> QED
    BY <2>2, <2>4
<1>4. ASSUME NEW s \in In("selected"), req'[s] = req[s]
      PROVE  Covers(req[s])'
  <2>1. Covers(req[s]) /\ \A a \in req[s].rows : a \in Remembered
    BY DEF SInv, SelectedRows, Remembered
  <2> QED
    BY <1>4, <2>1 DEF Covers
<1>5. SelectedRows'
  BY <1>4 DEF SelectedRows
<1>6. DeletedRows'
  BY <1>3 DEF DeletedRows
<1>7. DeletedApart'
  BY DEF SInv, DeletedApart
<1> QED
  BY <1>1, <1>5, <1>6, <1>7 DEF SInv

LEMMA SelectedFacts ==
    ASSUME Typed, NEW r \in Request, NEW v, req' = [req EXCEPT ![r] = v],
           NEW s \in In("selected")'
    PROVE  \/ s \in In("selected") /\ req'[s] = req[s]
           \/ v.step = "selected" /\ s = r /\ req'[s] = v
BY OneRequest DEF Typed, In

\* The same for a step of a request that is no deletion.
LEMMA StructureStep ==
    ASSUME Typed, SInv, NEW r \in Request, NEW v, req' = [req EXCEPT ![r] = v],
           v.step \notin {"selected", "deleted"},
           posts' = posts, DOMAIN images' \subseteq Profile,
           \A a \in DOMAIN attachments' :
              \/ a \in DOMAIN attachments /\ attachments'[a] = attachments[a]
              \/ a \notin Remembered /\ attachments'[a].owner \in Profile /\ attachments'[a].post = None
    PROVE  SInv'
<1>0. StepTo(r, v)
  BY StepFacts
<1>1. \A s \in Deleting' : s \in Deleting /\ req'[s] = req[s]
  BY <1>0 DEF StepTo
<1>2. \A s \in In("selected")' : s \in In("selected") /\ req'[s] = req[s]
  BY SelectedFacts
<1> QED
  BY <1>1, <1>2, StructureKept

LEMMA SavingStructure ==
    ASSUME Typed, SInv, NEW r \in Request,
           \/ \E f, use, id : SaveFile(r, f, use, id)
           \/ \E p : KeepImage(r, p)
           \/ \E e, new : ImportEmoji(r, e, new)
    PROVE  SInv'
<1>1. PICK f, use, id : req' = [req EXCEPT ![r] = [step |-> "saved", file |-> f, use |-> use, id |-> id]]
  BY DEF SaveFile, KeepImage, ImportEmoji
<1>2. PICK v : v = [step |-> "saved", file |-> f, use |-> use, id |-> id]
  OBVIOUS
<1>3. v.step = "saved"
  BY <1>2
<1>4. UNCHANGED tables
  BY DEF SaveFile, KeepImage, ImportEmoji
<1> QED
  BY <1>1, <1>2, <1>3, <1>4, StructureStep DEF SInv, Owned, tables

LEMMA InsertStructure ==
    ASSUME Typed, SInv, NEW r \in Request,
           (\E a \in Attachment : CreateAttachment(r, a)) \/ UpdateImage(r) \/ SetEmoji(r)
    PROVE  SInv'
<1>1. req' = [req EXCEPT ![r] = Free] /\ posts' = posts
  BY DEF CreateAttachment, UpdateImage, SetEmoji, Done
<1>2. DOMAIN images' \subseteq Profile
  BY DEF CreateAttachment, UpdateImage, SetEmoji, SInv, Owned
<1>3. CASE \E a \in Attachment : CreateAttachment(r, a)
  <2>1. PICK a \in Attachment : CreateAttachment(r, a)
    BY <1>3
  <2>2. PICK row : row = [owner |-> req[r].id, file |-> req[r].file, post |-> None]
    OBVIOUS
  <2>3. row.owner \in Profile /\ row.post = None
    BY <2>1, <2>2 DEF CreateAttachment, SInv, Owned
  <2>4. a \notin Remembered /\ attachments' = With(attachments, a, row)
    BY <2>1, <2>2 DEF CreateAttachment
  <2>5. \A x \in DOMAIN attachments' :
          \/ x \in DOMAIN attachments /\ attachments'[x] = attachments[x]
          \/ x \notin Remembered /\ attachments'[x].owner \in Profile /\ attachments'[x].post = None
    BY <2>3, <2>4 DEF With
  <2> QED
    BY <1>1, <1>2, <2>5, StructureStep, FreeStep
<1>4. CASE UpdateImage(r) \/ SetEmoji(r)
  <2>1. attachments' = attachments
    BY <1>4 DEF UpdateImage, SetEmoji
  <2> QED
    BY <1>1, <1>2, <2>1, StructureStep, FreeStep
<1> QED
  BY <1>3, <1>4

LEMMA DropImageStructure ==
    ASSUME SInv, NEW p \in DOMAIN images, DropImage(p)
    PROVE  SInv'
<1>1. /\ posts' = posts /\ attachments' = attachments /\ req' = req
      /\ DOMAIN images' \subseteq Profile
  BY DEF DropImage, SInv, Owned
<1>2. /\ \A s \in Deleting' : s \in Deleting /\ req'[s] = req[s]
      /\ \A s \in In("selected")' : s \in In("selected") /\ req'[s] = req[s]
  BY <1>1 DEF Deleting, In
<1> QED
  BY <1>1, <1>2, StructureKept

LEMMA SelectStructure ==
    ASSUME Typed, SInv, NEW r \in Request, NEW p, NEW roots, NEW imgs, SelectContext(r, p, roots, imgs)
    PROVE  SInv'
<1> DEFINE rows == AttachedTo(Below(roots))
<1>1. PICK v : v = [step |-> "selected", profile |-> p, roots |-> roots, posts |-> Below(roots),
                    rows |-> rows, imgs |-> imgs, files |-> FilesOf(rows) \cup imgs]
  OBVIOUS
<1>2. v.step = "selected" /\ v.imgs = imgs /\ v.rows = rows /\ v.files = FilesOf(rows) \cup imgs
  BY <1>1
<1>3. req' = [req EXCEPT ![r] = v] /\ UNCHANGED tables
  BY <1>1 DEF SelectContext, Selects
<1>4. Covers(v)
  BY <1>2 DEF Covers, FilesOf
<1>5. \A s \in Deleting' : s \in Deleting /\ req'[s] = req[s]
  BY <1>2, <1>3, StepFacts DEF StepTo
<1>6. ASSUME NEW s \in In("selected")'
      PROVE  \/ s \in In("selected") /\ req'[s] = req[s]
             \/ Covers(req[s])'
  <2>1. CASE req'[s] = v
    BY <1>3, <1>4, <2>1 DEF Covers, tables
  <2> QED
    BY <1>3, <2>1, SelectedFacts
<1> QED
  BY <1>3, <1>5, <1>6, StructureKept DEF tables, SInv, Owned

LEMMA FindingStructure ==
    ASSUME Typed, SInv, NEW r \in Request, NEW files, Finds(r, files) \/ Removes(r, files),
           posts' = posts, images' = images,
           \A a \in DOMAIN attachments' : a \in DOMAIN attachments /\ attachments'[a] = attachments[a]
    PROVE  SInv'
<1>1. PICK v : v \in {Free, [step |-> "find", files |-> files], [step |-> "remove", files |-> files]}
               /\ req' = [req EXCEPT ![r] = v]
  BY DEF Finds, Removes
<1>2. v.step \in {"free", "find", "remove"}
  BY <1>1 DEF Free
<1> QED
  BY <1>1, <1>2, StructureStep DEF SInv, Owned

LEMMA RequestStructure ==
    ASSUME Typed, SInv, NEW r \in Request,
           \/ \E e : DeleteEmoji(r, e)
           \/ \E old : DeleteUnusedAttachments(r, old)
           \/ DeleteOrphanedFiles(r)
           \/ Find(r)
           \/ RemoveFile(r)
           \/ RequestFails(r)
    PROVE  SInv'
<1>1. CASE \E e : DeleteEmoji(r, e)
  BY <1>1, FindingStructure DEF DeleteEmoji
<1>2. CASE \E old : DeleteUnusedAttachments(r, old)
  BY <1>2, FindingStructure DEF DeleteUnusedAttachments, Without
<1>3. CASE DeleteOrphanedFiles(r)
  BY <1>3, FindingStructure DEF DeleteOrphanedFiles, tables
<1>4. CASE Find(r) \/ RemoveFile(r)
  BY <1>4, FindingStructure DEF Find, RemoveFile, tables
<1>5. CASE RequestFails(r)
  BY <1>5, StructureStep, FreeStep DEF RequestFails, Done, tables, SInv, Owned
<1> QED
  BY <1>1, <1>2, <1>3, <1>4, <1>5

\* A post that no deletion has locked takes attachments of its author that no
\* deletion has by their post.
LEMMA AttachingStructure ==
    ASSUME Typed, SInv, NEW at, NEW S, NEW p, attachments' = Attach(at, S, p),
           DOMAIN at \subseteq DOMAIN attachments, \A a \in DOMAIN at : at[a] = attachments[a],
           p \notin LockedPosts, S \cap AttachedTo(LockedPosts) = {},
           p \in DOMAIN posts', DOMAIN posts \subseteq DOMAIN posts', DOMAIN posts' \subseteq Post,
           \A x \in DOMAIN posts : posts'[x].author = posts[x].author,
           \A a \in S : attachments[a].owner = posts'[p].author,
           req' = req, images' = images
    PROVE  SInv'
<1>1. \A a \in DOMAIN at : Shaped(at[a])
  BY DEF Typed
<1>2. /\ DOMAIN attachments' = DOMAIN at
      /\ \A a \in DOMAIN at :
           /\ attachments'[a].owner = attachments[a].owner
           /\ attachments'[a].file = attachments[a].file
           /\ attachments'[a].post = IF a \in S THEN p ELSE attachments[a].post
  BY <1>1, AttachFacts
<1>3. Deleting' = Deleting /\ In("selected")' = In("selected")
  BY DEF Deleting, In
<1>4. Owned'
  <2>1. DOMAIN images' \subseteq Profile /\ DOMAIN posts' \subseteq Post
    BY DEF SInv, Owned
  <2>2. ASSUME NEW a \in DOMAIN at
        PROVE  /\ attachments'[a].owner \in Profile
               /\ attachments'[a].post # None =>
                    /\ attachments'[a].post \in DOMAIN posts'
                    /\ posts'[attachments'[a].post].author = attachments'[a].owner
    <3>1. CASE a \in S
      BY <1>2, <3>1 DEF SInv, Owned
    <3>2. CASE a \notin S
      BY <1>2, <3>2 DEF SInv, Owned
    <3> QED
      BY <3>1, <3>2
  <2> QED
    BY <1>2, <2>1, <2>2 DEF Owned
<1>5. SelectedRows'
  BY <1>2, <1>3 DEF SInv, SelectedRows, Covers
<1>6. ASSUME NEW s \in Deleting
      PROVE  (Locks(req[s]) /\ RowsOf(req[s]))'
  <2>1. Locks(req[s]) /\ RowsOf(req[s])
    BY DEF SInv, DeletedRows
  <2>2. Locks(req[s])'
    BY <2>1 DEF Locks
  <2>3. p \notin req[s].posts /\ \A a \in S \cap DOMAIN attachments : attachments[a].post \notin req[s].posts
    BY DEF LockedPosts, AttachedTo
  <2>4. RowsOf(req[s])'
    BY <1>2, <2>1, <2>3 DEF RowsOf
  <2> QED
    BY <2>2, <2>4
<1>7. DeletedRows'
  BY <1>3, <1>6 DEF DeletedRows
<1>8. DeletedApart'
  BY <1>3 DEF SInv, DeletedApart
<1> QED
  BY <1>4, <1>5, <1>7, <1>8 DEF SInv

LEMMA PostStructure ==
    ASSUME Typed, SInv, NEW p, NEW S,
           \/ p \in Post /\ \E author, parent : CreatePost(p, author, parent, S)
           \/ p \in DOMAIN posts /\ UpdatePost(p, S)
    PROVE  SInv'
<1>1. CASE p \in Post /\ \E author, parent : CreatePost(p, author, parent, S)
  <2>1. PICK author, parent : CreatePost(p, author, parent, S)
    BY <1>1
  <2>2. PICK row : row = [author |-> author, parent |-> parent]
    OBVIOUS
  <2>3. row.author = author /\ posts' = With(posts, p, row) /\ p \notin DOMAIN posts
    BY <2>1, <2>2 DEF CreatePost
  <2>4. /\ DOMAIN posts' = DOMAIN posts \cup {p} /\ posts'[p].author = author
        /\ \A x \in DOMAIN posts : posts'[x].author = posts[x].author
    BY <2>3 DEF With
  <2>5. p \notin LockedPosts
    BY <2>3 DEF LockedPosts, SInv, DeletedRows, Locks
  <2>6. \A a \in S : attachments[a].owner = author /\ a \notin AttachedTo(LockedPosts)
    BY <2>1 DEF CreatePost, OwnedBy
  <2>7. /\ attachments' = Attach(attachments, S, p) /\ req' = req /\ images' = images
        /\ DOMAIN posts' \subseteq Post
    BY <1>1, <2>1, <2>4 DEF CreatePost, SInv, Owned
  <2> QED
    BY <2>4, <2>5, <2>6, <2>7, AttachingStructure
<1>2. CASE p \in DOMAIN posts /\ UpdatePost(p, S)
  <2>1. PICK at : at = Without(attachments, AttachedTo({p}))
    OBVIOUS
  <2>2. DOMAIN at \subseteq DOMAIN attachments /\ \A a \in DOMAIN at : at[a] = attachments[a]
    BY <2>1 DEF Without
  <2>3. /\ attachments' = Attach(at, S, p)
        /\ UNCHANGED <<posts, images, req>> /\ p \notin LockedPosts
    BY <1>2, <2>1 DEF UpdatePost
  <2>4. \A a \in S : attachments[a].owner = posts[p].author /\ a \notin AttachedTo(LockedPosts)
    BY <1>2 DEF UpdatePost, OwnedBy
  <2>5. DOMAIN posts \subseteq Post
    BY DEF SInv, Owned
  <2> QED
    BY <1>2, <2>2, <2>3, <2>4, <2>5, AttachingStructure
<1> QED
  BY <1>1, <1>2

\* What DeleteRows makes of a selection.
Marked(q, v) ==
    /\ v.step = "deleted" /\ v.profile = q.profile
    /\ v.posts \subseteq DOMAIN posts
    /\ v.rows = AttachedTo(v.posts) \cup OwnedBy(q.profile)
    /\ v.authors \cap LockedProfiles = {} /\ v.posts \cap LockedPosts = {}
    /\ \A x \in v.posts : posts[x].author \in v.authors
    /\ q.profile \in DOMAIN images => q.profile \in v.authors
    /\ q.profile # None => q.profile \in DOMAIN images
    /\ v.late = FilesOf(v.rows \ q.rows)
                  \cup (({images[x] : x \in DOMAIN images \cap {q.profile}} \ {None}) \ q.imgs)
    /\ v.files = FindOrphanedFiles(q.files, Without(attachments, v.rows), Without(images, {q.profile}), emojis)
    /\ leaked' = leaked \cup Overlooked(q.files, v.rows, {q.profile})

LEMMA MarkedRows ==
    ASSUME NEW r, DeleteRows(r)
    PROVE  \E v : Marked(req[r], v) /\ req' = [req EXCEPT ![r] = v]
<1> DEFINE q      == req[r]
           p      == q.profile
           mine   == {x \in DOMAIN posts : posts[x].author = p}
           doomed == Below(q.roots \cup mine) \cap DOMAIN posts
           rows   == AttachedTo(doomed) \cup OwnedBy(p)
           imgs   == {images[x] : x \in DOMAIN images \cap {p}} \ {None}
           authors == {posts[x].author : x \in doomed \cup (q.posts \cap DOMAIN posts)}
                        \cup ({p} \cap DOMAIN images)
           late   == FilesOf(rows \ q.rows) \cup (imgs \ q.imgs)
           found  == FindOrphanedFiles(q.files, Without(attachments, rows), Without(images, {p}), emojis)
<1>1. /\ req' = [req EXCEPT ![r] = [step |-> "deleted", profile |-> p, authors |-> authors,
          posts |-> doomed, rows |-> rows, late |-> late, files |-> found]]
      /\ IF p = None THEN q.roots \subseteq DOMAIN posts ELSE p \in DOMAIN images
      /\ authors \cap LockedProfiles = {} /\ doomed \cap LockedPosts = {}
      /\ leaked' = leaked \cup Overlooked(q.files, rows, {p})
  BY DEF DeleteRows
<1>2. p # None => p \in DOMAIN images
  BY <1>1
<1>3. doomed \subseteq DOMAIN posts /\ \A x \in doomed : posts[x].author \in authors
  OBVIOUS
<1>4. p \in DOMAIN images => p \in authors
  OBVIOUS
<1>5. PICK dd : dd = doomed
  OBVIOUS
<1>6. PICK au : au = authors
  OBVIOUS
<1>7. PICK rw : rw = rows
  OBVIOUS
<1>8. rw = AttachedTo(dd) \cup OwnedBy(p)
  BY <1>5, <1>7
<1>9. PICK lt : lt = late
  OBVIOUS
<1>10. lt = FilesOf(rw \ q.rows) \cup (imgs \ q.imgs)
  BY <1>7, <1>9
<1>11. PICK fd : fd = found
  OBVIOUS
<1>12. fd = FindOrphanedFiles(q.files, Without(attachments, rw), Without(images, {p}), emojis)
  BY <1>7, <1>11
<1>13. PICK v : v = [step |-> "deleted", profile |-> p, authors |-> au, posts |-> dd, rows |-> rw,
                     late |-> lt, files |-> fd]
  OBVIOUS
<1>14. req' = [req EXCEPT ![r] = v]
  BY <1>1, <1>5, <1>6, <1>7, <1>9, <1>11, <1>13
<1> HIDE DEF p, doomed, rows, authors, late, found, imgs
<1>15. /\ v.step = "deleted" /\ v.profile = p /\ v.authors = au /\ v.posts = dd /\ v.rows = rw
       /\ v.late = lt /\ v.files = fd
  BY <1>13
<1>16. Marked(q, v)
  <2>1. /\ v.step = "deleted" /\ v.profile = q.profile /\ v.posts \subseteq DOMAIN posts
        /\ \A x \in v.posts : posts[x].author \in v.authors
    BY <1>3, <1>5, <1>6, <1>15 DEF p
  <2>2. v.rows = AttachedTo(v.posts) \cup OwnedBy(q.profile)
    BY <1>8, <1>15 DEF p
  <2>3. v.authors \cap LockedProfiles = {} /\ v.posts \cap LockedPosts = {}
    BY <1>1, <1>5, <1>6, <1>15
  <2>4. /\ q.profile \in DOMAIN images => q.profile \in v.authors
        /\ q.profile # None => q.profile \in DOMAIN images
    BY <1>2, <1>4, <1>6, <1>15 DEF p
  <2>5. v.late = FilesOf(v.rows \ q.rows)
                  \cup (({images[x] : x \in DOMAIN images \cap {q.profile}} \ {None}) \ q.imgs)
    BY <1>10, <1>15 DEF p, imgs
  <2>6. v.files = FindOrphanedFiles(q.files, Without(attachments, v.rows), Without(images, {q.profile}), emojis)
    BY <1>12, <1>15 DEF p
  <2>7. leaked' = leaked \cup Overlooked(q.files, v.rows, {q.profile})
    BY <1>1, <1>7, <1>15 DEF p
  <2> QED
    BY <2>1, <2>2, <2>3, <2>4, <2>5, <2>6, <2>7 DEF Marked
<1> QED
  BY <1>14, <1>16

LEMMA DeleteRowsStructure ==
    ASSUME Typed, SInv, NEW r \in Request, DeleteRows(r)
    PROVE  SInv'
<1>1. PICK v : Marked(req[r], v) /\ req' = [req EXCEPT ![r] = v]
  BY MarkedRows
<1>2. UNCHANGED tables
  BY DEF DeleteRows
<1>3. v.step = "deleted"
  BY <1>1 DEF Marked
<1>4. \A s \in In("selected")' : s \in In("selected") /\ req'[s] = req[s]
  BY <1>1, <1>3, SelectedFacts
<1>5. StepTo(r, v)
  BY <1>1, StepFacts
<1>6. \A s \in Deleting' : \/ s \in Deleting /\ req'[s] = req[s]
                           \/ s = r /\ req'[s] = v
  BY <1>5 DEF StepTo
<1>7. Locks(v) /\ RowsOf(v)
  <2>1. Locks(v)
    BY <1>1 DEF Marked, Locks
  <2>2. RowsOf(v)
    BY <1>1 DEF Marked, RowsOf, AttachedTo, OwnedBy
  <2> QED
    BY <2>1, <2>2
<1>8. \A s \in Deleting : v.authors \cap req[s].authors = {} /\ v.posts \cap req[s].posts = {}
  BY <1>1 DEF Marked, LockedProfiles, LockedPosts
<1>9. Owned' /\ SelectedRows'
  BY <1>2, <1>4 DEF SInv, Owned, SelectedRows, Covers, tables
<1>10. DeletedRows'
  BY <1>2, <1>6, <1>7 DEF SInv, DeletedRows, Locks, RowsOf, tables
<1>11. DeletedApart'
  BY <1>6, <1>8 DEF SInv, DeletedApart
<1> QED
  BY <1>9, <1>10, <1>11 DEF SInv

\* The deletions that remain after a COMMIT have the rows that they had.
LEMMA CommitStructure ==
    ASSUME Typed, SInv, NEW r \in Request, CommitDelete(r)
    PROVE  SInv'
<1>1. PICK q : q = req[r]
  OBVIOUS
<1>2. /\ q.step = "deleted" /\ Removes(r, q.files)
      /\ attachments' = Without(attachments, q.rows) /\ images' = Without(images, {q.profile})
      /\ posts' = Without(posts, q.posts)
  BY <1>1 DEF CommitDelete
<1>3. r \in Deleting
  BY <1>1, <1>2 DEF Deleting, In, Typed
<1>4. PICK v : v \in {Free, [step |-> "remove", files |-> q.files]} /\ req' = [req EXCEPT ![r] = v]
  BY <1>2 DEF Removes
<1>5. v.step \in {"free", "remove"}
  BY <1>4 DEF Free
<1>6. StepTo(r, v)
  BY <1>4, StepFacts
<1>7. \A s \in Deleting' : s \in Deleting /\ req'[s] = req[s] /\ s # r
  <2>1. \A s \in Deleting' : s \in Deleting /\ req'[s] = req[s]
    BY <1>5, <1>6 DEF StepTo
  <2>2. req'[r] = v
    BY <1>4, OneRequest DEF Typed
  <2> QED
    BY <1>5, <2>1, <2>2 DEF Deleting, In
<1>8. \A s \in In("selected")' : s \in In("selected") /\ req'[s] = req[s]
  BY <1>4, <1>5, SelectedFacts
<1>9. /\ \A a \in DOMAIN attachments' :
           a \in DOMAIN attachments \ q.rows /\ attachments'[a] = attachments[a]
      /\ DOMAIN posts' = DOMAIN posts \ q.posts /\ DOMAIN images' \subseteq DOMAIN images
      /\ \A x \in DOMAIN posts' : posts'[x] = posts[x]
  BY <1>2 DEF Without
<1>10. RowsOf(q)
  BY <1>1, <1>3 DEF SInv, DeletedRows
<1>11. Owned'
  BY <1>9, <1>10 DEF SInv, Owned, RowsOf
<1>12. SelectedRows'
  BY <1>8, <1>9 DEF SInv, SelectedRows, Covers
<1>13. ASSUME NEW s \in Deleting'
       PROVE  (Locks(req[s]) /\ RowsOf(req[s]))'
  <2>1. Locks(req[s]) /\ RowsOf(req[s]) /\ req[s].posts \cap q.posts = {} /\ req'[s] = req[s]
    BY <1>1, <1>3, <1>7 DEF SInv, DeletedRows, DeletedApart
  <2>2. Locks(req[s])'
    BY <1>9, <2>1 DEF Locks
  <2>3. RowsOf(req[s])'
    BY <1>9, <2>1 DEF RowsOf
  <2> QED
    BY <2>2, <2>3
<1>14. DeletedRows'
  BY <1>13 DEF DeletedRows
<1>15. DeletedApart'
  BY <1>7 DEF SInv, DeletedApart
<1> QED
  BY <1>11, <1>12, <1>14, <1>15 DEF SInv

-----------------------------------------------------------------------------
(* No file is left behind *)

Found == UNION {req[r].files : r \in In("find")}

\* The rows but those of open deletions.
RefersBut(at, im, em, A, P) ==
    {at[a].file : a \in DOMAIN at \ A} \cup {im[p] : p \in DOMAIN im \ P} \cup {em[e] : e \in DOMAIN em}

Safe == RefersBut(attachments, images, emojis, DoomedRows, DoomedProfiles)

\* What the rows that a deletion has deleted refer to.
OwnRefs(q) ==
    {attachments[a].file : a \in q.rows \cap DOMAIN attachments}
      \cup {images[p] : p \in {q.profile} \cap DOMAIN images}

\* A file of the directory is in the hands of a request or has a row; if only rows
\* that are being deleted have it, their deletion removes it or counts it as left.
AccountedFor(x) ==
    \/ x \in leaked \cup Held \cup Removing \cup Found \cup Safe
    \/ \E s \in Deleting : x \in OwnRefs(req[s]) /\ x \in req[s].files \cup req[s].late

Accounted == \A x \in disk : AccountedFor(x)

LEMMA RefersButIs ==
    ASSUME NEW at, NEW im, NEW em, NEW A, NEW P
    PROVE  ReferredBy(Without(at, A), Without(im, P), em) = RefersBut(at, im, em, A, P)
<1>1. /\ DOMAIN Without(at, A) = DOMAIN at \ A /\ \A a \in DOMAIN at \ A : Without(at, A)[a] = at[a]
      /\ DOMAIN Without(im, P) = DOMAIN im \ P /\ \A p \in DOMAIN im \ P : Without(im, P)[p] = im[p]
  BY DEF Without
<1> QED
  BY <1>1 DEF ReferredBy, RefersBut

LEMMA LeavesFacts ==
    ASSUME NEW files, Leaves(files)
    PROVE  leaked \subseteq leaked' /\ files \subseteq leaked' \cup Safe' \cup {None}
<1>1. PICK at : at = attachments'
  OBVIOUS
<1>2. PICK im : im = images'
  OBVIOUS
<1>3. PICK em : em = emojis'
  OBVIOUS
<1>4. PICK A : A = DoomedRows'
  OBVIOUS
<1>5. PICK P : P = DoomedProfiles'
  OBVIOUS
<1>6. Safe' = RefersBut(at, im, em, A, P)
  BY <1>1, <1>2, <1>3, <1>4, <1>5 DEF Safe
<1>7. leaked' = leaked \cup (files \ ({None} \cup ReferredBy(Without(at, A), Without(im, P), em)))
  BY <1>1, <1>2, <1>3, <1>4, <1>5 DEF Leaves
<1> QED
  BY <1>6, <1>7, RefersButIs

\* A step of a request takes away what it had in hand, and puts there what it has.
Hands(r, v) ==
    /\ Held \subseteq Held' \cup {x \in {req[r].file} : req[r].step = "saved"}
    /\ Removing \subseteq Removing' \cup {x \in req[r].files : req[r].step = "remove"}
    /\ Found \subseteq Found' \cup {x \in req[r].files : req[r].step = "find"}
    /\ v.step = "saved" => v.file \in Held'
    /\ v.step = "remove" => v.files \subseteq Removing'
    /\ v.step = "find" => v.files \subseteq Found'

LEMMA HandsFacts ==
    ASSUME Typed, NEW r \in Request, NEW v, req' = [req EXCEPT ![r] = v]
    PROVE  /\ Hands(r, v)
           /\ \A s \in Deleting : (s \in Deleting' /\ req'[s] = req[s]) \/ s = r
           /\ \A s \in Deleting' : (s \in Deleting /\ req'[s] = req[s]) \/ (s = r /\ req'[s] = v)
           /\ (r \in Deleting <=> req[r].step = "deleted") /\ (r \in Deleting' <=> v.step = "deleted")
<1>1. /\ DOMAIN req' = Request /\ req'[r] = v
      /\ \A s \in Request \ {r} : req'[s] = req[s]
  BY OneRequest DEF Typed
<1>2. Held \subseteq Held' \cup {x \in {req[r].file} : req[r].step = "saved"}
  BY <1>1 DEF Held, In
<1>3. Removing \subseteq Removing' \cup {x \in req[r].files : req[r].step = "remove"}
  BY <1>1 DEF Removing, In
<1>4. Found \subseteq Found' \cup {x \in req[r].files : req[r].step = "find"}
  BY <1>1 DEF Found, In
<1>5. v.step = "saved" => v.file \in Held'
  BY <1>1 DEF Held, In
<1>6. v.step = "remove" => v.files \subseteq Removing'
  BY <1>1 DEF Removing, In
<1>7. v.step = "find" => v.files \subseteq Found'
  BY <1>1 DEF Found, In
<1>8. Hands(r, v)
  BY <1>2, <1>3, <1>4, <1>5, <1>6, <1>7 DEF Hands
<1>9. DOMAIN req = Request
  BY DEF Typed
<1>10. \A s \in Deleting : (s \in Deleting' /\ req'[s] = req[s]) \/ s = r
  BY <1>1, <1>9 DEF Deleting, In
<1>11. \A s \in Deleting' : (s \in Deleting /\ req'[s] = req[s]) \/ (s = r /\ req'[s] = v)
  BY <1>1, <1>9 DEF Deleting, In
<1>12. (r \in Deleting <=> req[r].step = "deleted") /\ (r \in Deleting' <=> v.step = "deleted")
  BY <1>1, <1>9 DEF Deleting, In
<1> QED
  BY <1>8, <1>10, <1>11, <1>12

\* Rows keep their files, but for those that are gone.
RefsKept(gone) ==
    /\ \A a \in DOMAIN attachments :
         (a \in DOMAIN attachments' /\ attachments'[a].file = attachments[a].file) \/ attachments[a].file \in gone
    /\ \A p \in DOMAIN images :
         (p \in DOMAIN images' /\ images'[p] = images[p]) \/ images[p] \in gone
    /\ \A e \in DOMAIN emojis :
         (e \in DOMAIN emojis' /\ emojis'[e] = emojis[e]) \/ emojis[e] \in gone

\* Steps that neither begin nor end a deletion.
LEMMA Quiet ==
    ASSUME Accounted, NEW gone, RefsKept(gone),
           leaked \subseteq leaked' \cup gone, Held \subseteq Held' \cup gone,
           Removing \subseteq Removing' \cup gone, Found \subseteq Found' \cup gone,
           Deleting' = Deleting, \A s \in Deleting : req'[s] = req[s],
           \A x \in disk' : x \in disk \/ AccountedFor(x)',
           \A x \in gone \cap disk' : AccountedFor(x)'
    PROVE  Accounted'
<1> SUFFICES ASSUME NEW x \in disk', x \in disk, x \notin gone PROVE AccountedFor(x)'
  BY DEF Accounted
<1>1. DoomedRows' = DoomedRows /\ DoomedProfiles' = DoomedProfiles
  BY DEF DoomedRows, DoomedProfiles
<1>2. AccountedFor(x)
  BY DEF Accounted
<1>3. CASE x \in leaked \cup Held \cup Removing \cup Found
  BY <1>3 DEF AccountedFor
<1>4. CASE x \in Safe
  <2>1. x \in Safe'
    BY <1>1, <1>4 DEF Safe, RefersBut, RefsKept
  <2> QED
    BY <2>1 DEF AccountedFor
<1>5. ASSUME NEW s \in Deleting, x \in OwnRefs(req[s]), x \in req[s].files \cup req[s].late
      PROVE  AccountedFor(x)'
  <2>1. s \in Deleting' /\ req'[s] = req[s]
    OBVIOUS
  <2>2. CASE \E a \in req[s].rows \cap DOMAIN attachments : x = attachments[a].file
    BY <1>5, <2>1, <2>2 DEF AccountedFor, OwnRefs, RefsKept
  <2>3. CASE \E p \in {req[s].profile} \cap DOMAIN images : x = images[p]
    BY <1>5, <2>1, <2>3 DEF AccountedFor, OwnRefs, RefsKept
  <2> QED
    BY <1>5, <2>2, <2>3 DEF OwnRefs
<1> QED
  BY <1>2, <1>3, <1>4, <1>5 DEF AccountedFor

LEMMA QuietRequest ==
    ASSUME Typed, Accounted, NEW r \in Request, NEW v, req' = [req EXCEPT ![r] = v],
           req[r].step # "deleted", v.step # "deleted",
           NEW gone, RefsKept(gone), leaked \subseteq leaked' \cup gone,
           req[r].step = "saved" => req[r].file \in gone,
           req[r].step \in {"find", "remove"} => req[r].files \subseteq gone,
           \A x \in disk' : x \in disk \/ AccountedFor(x)',
           \A x \in gone \cap disk' : AccountedFor(x)'
    PROVE  Accounted'
<1>1. /\ Hands(r, v)
      /\ \A s \in Deleting : (s \in Deleting' /\ req'[s] = req[s]) \/ s = r
      /\ \A s \in Deleting' : (s \in Deleting /\ req'[s] = req[s]) \/ (s = r /\ req'[s] = v)
      /\ (r \in Deleting <=> req[r].step = "deleted") /\ (r \in Deleting' <=> v.step = "deleted")
  BY HandsFacts
<1>2. Deleting' = Deleting /\ \A s \in Deleting : req'[s] = req[s]
  BY <1>1
<1>3. /\ Held \subseteq Held' \cup gone /\ Removing \subseteq Removing' \cup gone
      /\ Found \subseteq Found' \cup gone
  BY <1>1 DEF Hands
<1> QED
  BY <1>2, <1>3, Quiet

\* What is in someone's hands, has a row or has been left behind is accounted for.
LEMMA AccountedIn ==
    \A x : x \in (leaked \cup Held \cup Removing \cup Found \cup Safe)' => AccountedFor(x)'
BY DEF AccountedFor

LEMMA SaveFileAccounted ==
    ASSUME Typed, Accounted, NEW r \in Request, NEW f, NEW use, NEW id, SaveFile(r, f, use, id)
    PROVE  Accounted'
<1>1. PICK v : v = [step |-> "saved", file |-> f, use |-> use, id |-> id]
  OBVIOUS
<1>2. v.step = "saved" /\ v.file = f
  BY <1>1
<1>3. /\ req' = [req EXCEPT ![r] = v] /\ UNCHANGED tables /\ req[r].step = "free"
      /\ disk' = disk \cup {f} /\ leaked' = leaked \ {f}
  BY <1>1, FreeStep DEF SaveFile
<1>4. f \in Held'
  BY <1>2, <1>3, HandsFacts DEF Hands
<1>5. RefsKept({f})
  BY <1>3 DEF RefsKept, tables
<1>6. AccountedFor(f)'
  BY <1>4, AccountedIn
<1> QED
  BY <1>2, <1>3, <1>5, <1>6, QuietRequest

LEMMA TakeNameAccounted ==
    ASSUME Typed, Accounted, NEW r \in Request, NEW f, NEW use, NEW id, req[r] = Free,
           req' = [req EXCEPT ![r] = [step |-> "saved", file |-> f, use |-> use, id |-> id]],
           UNCHANGED <<disk, tables, leaked>>
    PROVE  Accounted'
<1>1. PICK v : v = [step |-> "saved", file |-> f, use |-> use, id |-> id]
  OBVIOUS
<1>2. v.step = "saved"
  BY <1>1
<1>3. RefsKept({})
  BY DEF RefsKept, tables
<1> QED
  BY <1>1, <1>2, <1>3, FreeStep, QuietRequest

LEMMA CreateAttachmentAccounted ==
    ASSUME Typed, SInv, Accounted, NEW r \in Request, NEW a, CreateAttachment(r, a)
    PROVE  Accounted'
<1>1. /\ req[r].step = "saved" /\ a \notin DOMAIN attachments /\ a \notin Remembered
      /\ req' = [req EXCEPT ![r] = Free] /\ UNCHANGED <<disk, images, emojis, posts, leaked>>
  BY DEF CreateAttachment, Done
<1>2. PICK row : row = [owner |-> req[r].id, file |-> req[r].file, post |-> None]
  OBVIOUS
<1>3. row.file = req[r].file /\ attachments' = With(attachments, a, row)
  BY <1>2 DEF CreateAttachment
<1>4. /\ a \in DOMAIN attachments' /\ attachments'[a] = row
      /\ \A x \in DOMAIN attachments : x \in DOMAIN attachments' /\ attachments'[x] = attachments[x]
  BY <1>1, <1>3 DEF With
<1>5. a \notin DoomedRows'
  <2>1. StepTo(r, Free)
    BY <1>1, StepFacts
  <2>2. \A s \in Deleting' : s \in Deleting /\ req'[s] = req[s]
    BY <2>1, FreeStep DEF StepTo
  <2> QED
    BY <1>1, <2>2 DEF DoomedRows, Remembered, Deleting
<1>6. PICK x : x = req[r].file
  OBVIOUS
<1>7. AccountedFor(x)'
  BY <1>3, <1>4, <1>5, <1>6, AccountedIn DEF Safe, RefersBut
<1>8. RefsKept({})
  BY <1>1, <1>4 DEF RefsKept
<1>9. RefsKept({x})
  BY <1>8 DEF RefsKept
<1> QED
  BY <1>1, <1>6, <1>7, <1>9, QuietRequest, FreeStep

\* Profiles that are being deleted are locked.
LEMMA DoomedAreLocked ==
    ASSUME SInv, NEW p \in DOMAIN images, p \in DoomedProfiles
    PROVE  p \in LockedProfiles
<1>1. p # None
  BY MediaFilesAssumption DEF SInv, Owned
<1> QED
  BY <1>1 DEF DoomedProfiles, LockedProfiles, SInv, DeletedRows, Locks

LEMMA UpdateImageAccounted ==
    ASSUME Typed, SInv, Accounted, NEW r \in Request, UpdateImage(r)
    PROVE  Accounted'
<1>1. PICK p : p = req[r].id
  OBVIOUS
<1>2. PICK f : f = req[r].file
  OBVIOUS
<1>3. PICK old : old = images[p]
  OBVIOUS
<1>4. /\ req[r].step = "saved" /\ p \in DOMAIN images \ LockedProfiles
      /\ images' = [images EXCEPT ![p] = f] /\ req' = [req EXCEPT ![r] = Free]
      /\ UNCHANGED <<disk, emojis, posts, attachments>> /\ Leaves({old})
  BY <1>1, <1>2, <1>3 DEF UpdateImage, Done
<1>5. p \notin DoomedProfiles'
  <2>1. StepTo(r, Free)
    BY <1>4, StepFacts
  <2>2. \A s \in Deleting' : s \in Deleting /\ req'[s] = req[s]
    BY <2>1, FreeStep DEF StepTo
  <2>3. p \notin DoomedProfiles
    BY <1>4, DoomedAreLocked
  <2> QED
    BY <2>2, <2>3 DEF DoomedProfiles
<1>6. AccountedFor(f)'
  BY <1>4, <1>5, AccountedIn DEF Safe, RefersBut
<1>7. leaked \subseteq leaked' /\ old \in leaked' \cup Safe' \cup {None}
  BY <1>4, LeavesFacts
<1>8. old \in disk' => AccountedFor(old)'
  <2>1. None \notin disk'
    BY <1>4, MediaFilesAssumption DEF Typed
  <2> QED
    BY <1>7, <2>1, AccountedIn
<1>9. RefsKept({f, old})
  BY <1>3, <1>4 DEF RefsKept
<1> QED
  BY <1>2, <1>4, <1>6, <1>7, <1>8, <1>9, QuietRequest, FreeStep

LEMMA SetEmojiAccounted ==
    ASSUME Typed, SInv, Accounted, NEW r \in Request, SetEmoji(r)
    PROVE  Accounted'
<1>1. PICK i : i = req[r].id
  OBVIOUS
<1>2. PICK f : f = req[r].file
  OBVIOUS
<1>3. PICK old : old = {emojis[e] : e \in DOMAIN emojis \cap {i}}
  OBVIOUS
<1>4. /\ req[r].step = "saved"
      /\ emojis' = With(emojis, i, f) /\ req' = [req EXCEPT ![r] = Free]
      /\ UNCHANGED <<disk, images, posts, attachments>> /\ Leaves(old)
  BY <1>1, <1>2, <1>3 DEF SetEmoji, Done
<1>5. /\ DOMAIN emojis' = DOMAIN emojis \cup {i} /\ emojis'[i] = f
      /\ \A e \in DOMAIN emojis \ {i} : emojis'[e] = emojis[e]
  BY <1>4 DEF With
<1>6. AccountedFor(f)'
  BY <1>5, AccountedIn DEF Safe, RefersBut
<1>7. leaked \subseteq leaked' /\ old \subseteq leaked' \cup Safe' \cup {None}
  BY <1>4, LeavesFacts
<1>8. \A x \in old \cap disk' : AccountedFor(x)'
  <2>1. None \notin disk'
    BY <1>4, MediaFilesAssumption DEF Typed
  <2> QED
    BY <1>7, <2>1, AccountedIn
<1>9. RefsKept(old \cup {f})
  BY <1>3, <1>4, <1>5 DEF RefsKept
<1>10. \A x \in (old \cup {f}) \cap disk' : AccountedFor(x)'
  BY <1>6, <1>8
<1>11. PICK gone : gone = old \cup {f}
  OBVIOUS
<1> QED
  BY <1>2, <1>4, <1>7, <1>9, <1>10, <1>11, QuietRequest, FreeStep

LEMMA SelectAccounted ==
    ASSUME Typed, Accounted, NEW r \in Request, NEW p, NEW roots, NEW imgs, SelectContext(r, p, roots, imgs)
    PROVE  Accounted'
<1> DEFINE rows == AttachedTo(Below(roots))
<1>1. PICK v : v = [step |-> "selected", profile |-> p, roots |-> roots, posts |-> Below(roots),
                    rows |-> rows, imgs |-> imgs, files |-> FilesOf(rows) \cup imgs]
  OBVIOUS
<1>2. v.step = "selected"
  BY <1>1
<1>3. /\ req' = [req EXCEPT ![r] = v] /\ req[r].step = "free"
      /\ UNCHANGED tables /\ leaked' = leaked /\ disk' = disk
  BY <1>1, FreeStep DEF SelectContext, Selects
<1>4. RefsKept({})
  BY <1>3 DEF RefsKept, tables
<1> QED
  BY <1>2, <1>3, <1>4, QuietRequest

\* DELETE of rows whose files are then looked up.
LEMMA FindingAccounted ==
    ASSUME Typed, Accounted, NEW r \in Request, NEW files, Finds(r, files), req[r] = Free,
           RefsKept(files), disk' = disk, leaked' = leaked
    PROVE  Accounted'
<1>1. PICK v : v = [step |-> "find", files |-> files]
  OBVIOUS
<1>2. v.step = "find" /\ v.files = files
  BY <1>1
<1>3. req' = [req EXCEPT ![r] = v] /\ req[r].step = "free"
  BY <1>1, FreeStep DEF Finds
<1>4. files \subseteq Found'
  BY <1>2, <1>3, HandsFacts DEF Hands
<1>5. \A x \in files : AccountedFor(x)'
  BY <1>4, AccountedIn
<1> QED
  BY <1>2, <1>3, <1>5, QuietRequest

LEMMA DeletionAccounted ==
    ASSUME Typed, Accounted, NEW r \in Request,
           (\E e : DeleteEmoji(r, e)) \/ (\E old : DeleteUnusedAttachments(r, old)) \/ DeleteOrphanedFiles(r)
    PROVE  Accounted'
<1>1. CASE \E e : DeleteEmoji(r, e)
  <2>1. PICK e : DeleteEmoji(r, e)
    BY <1>1
  <2>2. RefsKept({emojis[e]})
    BY <2>1 DEF DeleteEmoji, RefsKept, Without
  <2> QED
    BY <2>1, <2>2, FindingAccounted DEF DeleteEmoji
<1>2. CASE \E old : DeleteUnusedAttachments(r, old)
  <2>0. PICK old : DeleteUnusedAttachments(r, old)
    BY <1>2
  <2>1. RefsKept(FilesOf(old))
    BY <2>0 DEF DeleteUnusedAttachments, RefsKept, Without, FilesOf
  <2> QED
    BY <2>0, <2>1, FindingAccounted DEF DeleteUnusedAttachments
<1>3. CASE DeleteOrphanedFiles(r)
  <2>1. RefsKept(disk)
    BY <1>3 DEF DeleteOrphanedFiles, RefsKept, tables
  <2> QED
    BY <1>3, <2>1, FindingAccounted DEF DeleteOrphanedFiles
<1> QED
  BY <1>1, <1>2, <1>3

\* What a transaction looks up is orphaned, overlooked or has a row that no one
\* deletes.
LEMMA OverlookedFacts ==
    ASSUME NEW files, NEW rows, NEW ps, NEW x \in files
    PROVE  \/ x \in FindOrphanedFiles(files, Without(attachments, rows), Without(images, ps), emojis)
           \/ x \in Overlooked(files, rows, ps)
           \/ x \in RefersBut(attachments, images, emojis, rows \cup DoomedRows, ps \cup DoomedProfiles)
<1> DEFINE left == FindOrphanedFiles(files, Without(attachments, rows), Without(images, ps), emojis)
           but  == ReferredBy(Without(attachments, rows \cup DoomedRows),
                              Without(images, ps \cup DoomedProfiles), emojis)
<1>1. Overlooked(files, rows, ps) = (files \ left) \ but
  BY DEF Overlooked, FindOrphanedFiles
<1>2. but = RefersBut(attachments, images, emojis, rows \cup DoomedRows, ps \cup DoomedProfiles)
  BY RefersButIs
<1> HIDE DEF left, but
<1>3. x \in left \/ x \in (files \ left) \ but \/ x \in but
  OBVIOUS
<1> QED
  BY <1>1, <1>2, <1>3 DEF left

LEMMA RemovesFacts ==
    ASSUME Typed, NEW r \in Request, NEW files, Removes(r, files)
    PROVE  /\ files \subseteq Removing'
           /\ \E v : req' = [req EXCEPT ![r] = v] /\ v.step \in {"free", "remove"}
<1>1. PICK v : v = IF files = {} THEN Free ELSE [step |-> "remove", files |-> files]
  OBVIOUS
<1>2. v.step \in {"free", "remove"} /\ (files # {} => v.step = "remove" /\ v.files = files)
  BY <1>1 DEF Free
<1>3. req' = [req EXCEPT ![r] = v]
  BY <1>1 DEF Removes
<1>4. v.step = "remove" => v.files \subseteq Removing'
  BY <1>3, HandsFacts DEF Hands
<1> QED
  BY <1>2, <1>3, <1>4

LEMMA FindAccounted ==
    ASSUME Typed, Accounted, NEW r \in Request, Find(r)
    PROVE  Accounted'
<1>1. PICK files : files = req[r].files
  OBVIOUS
<1>2. PICK found : found = FindOrphanedFiles(files, attachments, images, emojis)
  OBVIOUS
<1>3. /\ req[r].step = "find" /\ Removes(r, found) /\ UNCHANGED <<disk, tables>>
      /\ leaked' = leaked \cup Overlooked(files, {}, {})
  BY <1>1, <1>2 DEF Find
<1>4. /\ found \subseteq Removing'
      /\ \E v : req' = [req EXCEPT ![r] = v] /\ v.step \in {"free", "remove"}
  BY <1>3, RemovesFacts
<1>5. PICK v : req' = [req EXCEPT ![r] = v] /\ v.step \in {"free", "remove"}
  BY <1>4
<1>6. RefersBut(attachments, images, emojis, {}, {}) = ReferredBy(attachments, images, emojis)
  BY DEF RefersBut, ReferredBy
<1>7. FindOrphanedFiles(files, Without(attachments, {}), Without(images, {}), emojis) = found
  BY <1>2, <1>6, RefersButIs DEF FindOrphanedFiles
<1>8. RefersBut(attachments, images, emojis, {} \cup DoomedRows, {} \cup DoomedProfiles) = Safe
  BY DEF Safe, RefersBut
<1>9. \A s \in Deleting' : s \in Deleting /\ req'[s] = req[s]
  BY <1>3, RemovesTo
<1>10. DoomedRows' \subseteq DoomedRows /\ DoomedProfiles' \subseteq DoomedProfiles
  BY <1>9 DEF DoomedRows, DoomedProfiles
<1>11. Safe \subseteq Safe'
  BY <1>3, <1>10 DEF Safe, RefersBut, tables
<1>12. ASSUME NEW x \in files
       PROVE  AccountedFor(x)'
  <2>1. x \in found \/ x \in Overlooked(files, {}, {}) \/ x \in Safe
    BY <1>7, <1>8, OverlookedFacts
  <2> QED
    BY <1>3, <1>4, <1>11, <2>1, AccountedIn
<1>13. RefsKept(files)
  BY <1>3 DEF RefsKept, tables
<1> QED
  BY <1>1, <1>3, <1>5, <1>12, <1>13, QuietRequest

LEMMA RemoveFileAccounted ==
    ASSUME Typed, Accounted, NEW r \in Request, RemoveFile(r)
    PROVE  Accounted'
<1>1. PICK files : files = req[r].files
  OBVIOUS
<1>2. PICK f \in files : /\ disk' = disk \ {f} /\ leaked' = leaked \ {f} /\ Removes(r, files \ {f})
  BY <1>1 DEF RemoveFile
<1>3. req[r].step = "remove" /\ UNCHANGED tables
  BY DEF RemoveFile
<1>4. /\ files \ {f} \subseteq Removing'
      /\ \E v : req' = [req EXCEPT ![r] = v] /\ v.step \in {"free", "remove"}
  BY <1>2, RemovesFacts
<1>5. PICK v : req' = [req EXCEPT ![r] = v] /\ v.step \in {"free", "remove"}
  BY <1>4
<1>6. \A x \in files \cap disk' : AccountedFor(x)'
  BY <1>2, <1>4, AccountedIn
<1>7. RefsKept(files)
  BY <1>3 DEF RefsKept, tables
<1> QED
  BY <1>1, <1>2, <1>3, <1>5, <1>6, <1>7, QuietRequest

\* Steps in which no request takes part, with files left in the ways of Leaves.
LEMMA RequestlessAccounted ==
    ASSUME Typed, Accounted, NEW gone, Leaves(gone) \/ (gone = {} /\ leaked' = leaked),
           req' = req, disk' = disk, RefsKept(gone)
    PROVE  Accounted'
<1>1. leaked \subseteq leaked' /\ gone \subseteq leaked' \cup Safe' \cup {None}
  BY LeavesFacts
<1>2. None \notin disk'
  BY MediaFilesAssumption DEF Typed
<1>3. \A x \in gone \cap disk' : AccountedFor(x)'
  BY <1>1, <1>2, AccountedIn
<1>4. Held' = Held /\ Removing' = Removing /\ Found' = Found /\ Deleting' = Deleting
  BY DEF Held, Removing, Found, Deleting, In
<1> QED
  BY <1>1, <1>3, <1>4, Quiet

LEMMA DropImageAccounted ==
    ASSUME Typed, Accounted, NEW p \in DOMAIN images, DropImage(p)
    PROVE  Accounted'
<1>1. RefsKept({images[p]})
  BY DEF DropImage, RefsKept
<1> QED
  BY <1>1, RequestlessAccounted DEF DropImage

LEMMA PostAccounted ==
    ASSUME Typed, Accounted, NEW p, NEW S,
           (\E author, parent : CreatePost(p, author, parent, S)) \/ UpdatePost(p, S)
    PROVE  Accounted'
<1>1. CASE \E author, parent : CreatePost(p, author, parent, S)
  <2>1. /\ attachments' = Attach(attachments, S, p)
        /\ UNCHANGED <<disk, images, emojis, req, leaked>>
    BY <1>1 DEF CreatePost
  <2>2. /\ DOMAIN attachments' = DOMAIN attachments
        /\ \A a \in DOMAIN attachments : attachments'[a].file = attachments[a].file
    BY <2>1, AttachFacts DEF Typed
  <2>3. RefsKept({})
    BY <2>1, <2>2 DEF RefsKept
  <2> QED
    BY <2>1, <2>3, RequestlessAccounted
<1>2. CASE UpdatePost(p, S)
  <2>1. PICK at : at = Without(attachments, AttachedTo({p}))
    OBVIOUS
  <2>2. PICK gone : gone = FilesOf(AttachedTo({p}))
    OBVIOUS
  <2>3. /\ DOMAIN at = DOMAIN attachments \ AttachedTo({p})
        /\ \A a \in DOMAIN at : at[a] = attachments[a]
    BY <2>1 DEF Without
  <2>4. /\ attachments' = Attach(at, S, p) /\ Leaves(gone)
        /\ UNCHANGED <<disk, images, emojis, req>>
    BY <1>2, <2>1, <2>2 DEF UpdatePost
  <2>5. \A a \in DOMAIN at : Shaped(at[a])
    BY <2>3 DEF Typed
  <2>6. /\ DOMAIN attachments' = DOMAIN at
        /\ \A a \in DOMAIN at : attachments'[a].file = attachments[a].file
    BY <2>3, <2>4, <2>5, AttachFacts
  <2>7. RefsKept(gone)
    BY <2>2, <2>3, <2>4, <2>6 DEF RefsKept, FilesOf
  <2> QED
    BY <2>4, <2>7, RequestlessAccounted
<1> QED
  BY <1>1, <1>2

LEMMA FailAccounted ==
    ASSUME Typed, SInv, Accounted, NEW r \in Request, RequestFails(r)
    PROVE  Accounted'
<1>1. /\ req' = [req EXCEPT ![r] = Free] /\ UNCHANGED <<disk, tables>>
      /\ Leaves(CASE req[r].step = "saved" -> {req[r].file}
                  [] req[r].step \in {"find", "remove"} -> req[r].files
                  [] OTHER -> {})
  BY DEF RequestFails, Done
<1>2. None \notin disk'
  BY <1>1, MediaFilesAssumption DEF Typed
<1>3. CASE req[r].step # "deleted"
  <2>1. PICK gone : gone = CASE req[r].step = "saved" -> {req[r].file}
                             [] req[r].step \in {"find", "remove"} -> req[r].files
                             [] OTHER -> {}
    OBVIOUS
  <2>2. /\ req[r].step = "saved" => req[r].file \in gone
        /\ req[r].step \in {"find", "remove"} => req[r].files \subseteq gone
    BY <2>1
  <2>3. leaked \subseteq leaked' /\ gone \subseteq leaked' \cup Safe' \cup {None}
    BY <1>1, <2>1, LeavesFacts
  <2>4. \A x \in gone \cap disk' : AccountedFor(x)'
    BY <1>2, <2>3, AccountedIn
  <2>5. RefsKept(gone)
    BY <1>1 DEF RefsKept, tables
  <2> QED
    BY <1>1, <1>3, <2>2, <2>3, <2>4, <2>5, QuietRequest, FreeStep
<1>4. CASE req[r].step = "deleted"
  <2>1. /\ Hands(r, Free)
        /\ \A s \in Deleting : (s \in Deleting' /\ req'[s] = req[s]) \/ s = r
    BY <1>1, HandsFacts
  <2>2. r \in Deleting
    BY <1>4 DEF Deleting, In, Typed
  <2>3. \A s \in Deleting' : s \in Deleting /\ req'[s] = req[s] /\ s # r
    <3>1. StepTo(r, Free) /\ req'[r] = Free
      BY <1>1, StepFacts, OneRequest DEF Typed
    <3> QED
      BY <3>1, FreeStep DEF StepTo, Deleting, In
  <2>4. DoomedRows' \subseteq DoomedRows /\ DoomedProfiles' \subseteq DoomedProfiles
    BY <2>3 DEF DoomedRows, DoomedProfiles
  <2>5. Safe \subseteq Safe'
    BY <1>1, <2>4 DEF Safe, RefersBut, tables
  <2>6. OwnRefs(req[r]) \subseteq Safe'
    <3>1. \A a \in req[r].rows \cap DOMAIN attachments : a \notin DoomedRows'
      BY <2>2, <2>3, Disjoint DEF DoomedRows
    <3>2. \A p \in {req[r].profile} \cap DOMAIN images : p \notin DoomedProfiles'
      BY <2>2, <2>3, Disjoint DEF DoomedProfiles
    <3> QED
      BY <1>1, <3>1, <3>2 DEF OwnRefs, Safe, RefersBut, tables
  <2>7. leaked \subseteq leaked' /\ Held \subseteq Held' /\ Removing \subseteq Removing' /\ Found \subseteq Found'
    BY <1>1, <1>4, <2>1, LeavesFacts DEF Hands
  <2>8. ASSUME NEW x \in disk'
        PROVE  AccountedFor(x)'
    <3>1. AccountedFor(x)
      BY <1>1 DEF Accounted
    <3>2. CASE x \in leaked \cup Held \cup Removing \cup Found \cup Safe
      BY <2>5, <2>7, <3>2, AccountedIn
    <3>3. ASSUME NEW s \in Deleting, x \in OwnRefs(req[s]), x \in req[s].files \cup req[s].late
          PROVE  AccountedFor(x)'
      <4>1. CASE s = r
        BY <2>6, <3>3, <4>1, AccountedIn
      <4>2. CASE s # r
        <5>1. s \in Deleting' /\ req'[s] = req[s] /\ attachments' = attachments /\ images' = images
          BY <1>1, <2>1, <4>2 DEF tables
        <5> QED
          BY <3>3, <5>1 DEF AccountedFor, OwnRefs
      <4> QED
        BY <4>1, <4>2
    <3> QED
      BY <3>1, <3>2, <3>3 DEF AccountedFor
  <2> QED
    BY <2>8 DEF Accounted
<1> QED
  BY <1>3, <1>4

\* Files of rows that are deleted now, and were not when the deletion began, are
\* orphaned, overlooked or late.
LEMMA DeleteRowsAccounted ==
    ASSUME Typed, SInv, Accounted, NEW r \in Request, DeleteRows(r)
    PROVE  Accounted'
<1>1. PICK v : Marked(req[r], v) /\ req' = [req EXCEPT ![r] = v]
  BY MarkedRows
<1>2. PICK q : q = req[r]
  OBVIOUS
<1>3. Marked(q, v) /\ q.step = "selected" /\ UNCHANGED <<disk, tables>>
  BY <1>1, <1>2 DEF DeleteRows
<1>4. v.step = "deleted" /\ v.profile = q.profile
  BY <1>3 DEF Marked
<1>5. /\ Hands(r, v)
      /\ \A s \in Deleting : (s \in Deleting' /\ req'[s] = req[s]) \/ s = r
      /\ \A s \in Deleting' : (s \in Deleting /\ req'[s] = req[s]) \/ (s = r /\ req'[s] = v)
      /\ (r \in Deleting <=> req[r].step = "deleted") /\ (r \in Deleting' <=> v.step = "deleted")
  BY <1>1, HandsFacts
<1>6. r \notin Deleting /\ r \in Deleting' /\ req'[r] = v
  <2>1. r \notin Deleting /\ r \in Deleting'
    BY <1>2, <1>3, <1>4, <1>5
  <2> QED
    BY <1>5, <2>1
<1>7. /\ DoomedRows' \subseteq v.rows \cup DoomedRows
      /\ DoomedProfiles' \subseteq {q.profile} \cup DoomedProfiles
  BY <1>4, <1>5 DEF DoomedRows, DoomedProfiles
<1>8. Covers(q)
  BY <1>2, <1>3 DEF SInv, SelectedRows, In, Typed
<1>9. Held \subseteq Held' /\ Removing \subseteq Removing' /\ Found \subseteq Found'
  BY <1>2, <1>3, <1>5 DEF Hands
<1>10. leaked' = leaked \cup Overlooked(q.files, v.rows, {q.profile})
  BY <1>3 DEF Marked
<1>11. RefersBut(attachments, images, emojis, v.rows \cup DoomedRows, {q.profile} \cup DoomedProfiles)
         \subseteq Safe'
  BY <1>3, <1>7 DEF Safe, RefersBut, tables
<1>12. ASSUME NEW x \in OwnRefs(v), x \in disk
       PROVE  AccountedFor(x)'
  <2>1. x # None
    BY <1>12, MediaFilesAssumption DEF Typed
  <2>2. x \in q.files \/ x \in v.late
    <3>1. v.late = FilesOf(v.rows \ q.rows)
             \cup (({images[p] : p \in DOMAIN images \cap {q.profile}} \ {None}) \ q.imgs)
      BY <1>3 DEF Marked
    <3>2. CASE \E a \in v.rows \cap DOMAIN attachments : x = attachments[a].file
      BY <1>8, <3>1, <3>2 DEF Covers, FilesOf
    <3>3. CASE \E p \in {v.profile} \cap DOMAIN images : x = images[p]
      BY <1>4, <1>8, <2>1, <3>1, <3>3 DEF Covers
    <3> QED
      BY <1>12, <3>2, <3>3 DEF OwnRefs
  <2>3. x \in v.files \/ x \in v.late \/ x \in leaked' \/ x \in Safe'
    <3>1. v.files = FindOrphanedFiles(q.files, Without(attachments, v.rows), Without(images, {q.profile}), emojis)
      BY <1>3 DEF Marked
    <3>2. CASE x \in q.files
      BY <1>10, <1>11, <3>1, <3>2, OverlookedFacts
    <3> QED
      BY <2>2, <3>2
  <2>4. CASE x \in v.files \cup v.late
    BY <1>3, <1>6, <1>12, <2>4 DEF AccountedFor, OwnRefs, tables
  <2> QED
    BY <2>3, <2>4, AccountedIn
<1>13. ASSUME NEW x \in disk
       PROVE  AccountedFor(x)'
  <2>1. AccountedFor(x)
    BY DEF Accounted
  <2>2. CASE x \in leaked \cup Held \cup Removing \cup Found
    BY <1>9, <1>10, <2>2, AccountedIn
  <2>3. CASE x \in Safe
    <3>1. x \in Safe' \/ x \in OwnRefs(v)
      BY <1>3, <1>4, <1>7, <2>3 DEF Safe, RefersBut, OwnRefs, tables
    <3> QED
      BY <1>12, <3>1, AccountedIn
  <2>4. ASSUME NEW s \in Deleting, x \in OwnRefs(req[s]), x \in req[s].files \cup req[s].late
        PROVE  AccountedFor(x)'
    <3>1. s \in Deleting' /\ req'[s] = req[s] /\ attachments' = attachments /\ images' = images
      BY <1>3, <1>5, <1>6 DEF tables
    <3> QED
      BY <2>4, <3>1 DEF AccountedFor, OwnRefs
  <2> QED
    BY <2>1, <2>2, <2>3, <2>4 DEF AccountedFor
<1> QED
  BY <1>3, <1>13 DEF Accounted

\* At COMMIT the files that were found are removed, the late ones are left; rows of
\* other deletions are not those of this one.
LEMMA CommitAccounted ==
    ASSUME Typed, SInv, Accounted, NEW r \in Request, CommitDelete(r)
    PROVE  Accounted'
<1>1. PICK q : q = req[r]
  OBVIOUS
<1>2. /\ q.step = "deleted" /\ Removes(r, q.files) /\ Leaves(q.late)
      /\ attachments' = Without(attachments, q.rows) /\ images' = Without(images, {q.profile})
      /\ emojis' = emojis /\ disk' = disk
  BY <1>1 DEF CommitDelete
<1>3. r \in Deleting
  BY <1>1, <1>2 DEF Deleting, In, Typed
<1>4. /\ q.files \subseteq Removing'
      /\ \E v : req' = [req EXCEPT ![r] = v] /\ v.step \in {"free", "remove"}
  BY <1>2, RemovesFacts
<1>5. PICK v : req' = [req EXCEPT ![r] = v] /\ v.step \in {"free", "remove"}
  BY <1>4
<1>6. /\ Hands(r, v)
      /\ \A s \in Deleting : (s \in Deleting' /\ req'[s] = req[s]) \/ s = r
  BY <1>5, HandsFacts
<1>7. \A s \in Deleting' : s \in Deleting /\ req'[s] = req[s]
  BY <1>2, RemovesTo
<1>8. /\ DOMAIN attachments' = DOMAIN attachments \ q.rows
      /\ \A a \in DOMAIN attachments' : attachments'[a] = attachments[a]
      /\ DOMAIN images' = DOMAIN images \ {q.profile}
      /\ \A p \in DOMAIN images' : images'[p] = images[p]
  BY <1>2 DEF Without
<1>9. DoomedRows' \subseteq DoomedRows /\ DoomedProfiles' \subseteq DoomedProfiles
  BY <1>7 DEF DoomedRows, DoomedProfiles
<1>10. q.rows \subseteq DoomedRows /\ q.profile \in DoomedProfiles
  BY <1>1, <1>3 DEF DoomedRows, DoomedProfiles
<1>11. Safe \subseteq Safe'
  <2> SUFFICES ASSUME NEW x \in Safe PROVE x \in Safe'
    OBVIOUS
  <2>1. CASE \E a \in DOMAIN attachments \ DoomedRows : x = attachments[a].file
    <3>1. PICK a \in DOMAIN attachments \ DoomedRows : x = attachments[a].file
      BY <2>1
    <3>2. a \in DOMAIN attachments' \ DoomedRows' /\ x = attachments'[a].file
      BY <1>8, <1>9, <1>10, <3>1
    <3> QED
      BY <3>2 DEF Safe, RefersBut
  <2>2. CASE \E p \in DOMAIN images \ DoomedProfiles : x = images[p]
    <3>1. PICK p \in DOMAIN images \ DoomedProfiles : x = images[p]
      BY <2>2
    <3>2. p \in DOMAIN images' \ DoomedProfiles' /\ x = images'[p]
      BY <1>8, <1>9, <1>10, <3>1
    <3> QED
      BY <3>2 DEF Safe, RefersBut
  <2>3. CASE \E e \in DOMAIN emojis : x = emojis[e]
    BY <1>2, <2>3 DEF Safe, RefersBut
  <2> QED
    BY <2>1, <2>2, <2>3 DEF Safe, RefersBut
<1>12. Held \subseteq Held' /\ Removing \subseteq Removing' /\ Found \subseteq Found'
  BY <1>1, <1>2, <1>6 DEF Hands
<1>13. leaked \subseteq leaked' /\ q.late \subseteq leaked' \cup Safe' \cup {None}
  BY <1>2, LeavesFacts
<1>14. ASSUME NEW x \in disk
       PROVE  AccountedFor(x)'
  <2>1. AccountedFor(x) /\ x # None
    BY MediaFilesAssumption DEF Accounted, Typed
  <2>2. CASE x \in leaked \cup Held \cup Removing \cup Found \cup Safe
    BY <1>11, <1>12, <1>13, <2>2, AccountedIn
  <2>3. ASSUME NEW s \in Deleting, x \in OwnRefs(req[s]), x \in req[s].files \cup req[s].late
        PROVE  AccountedFor(x)'
    <3>1. CASE s = r
      BY <1>1, <1>4, <1>13, <2>1, <2>3, <3>1, AccountedIn
    <3>2. CASE s # r
      <4>1. s \in Deleting' /\ req'[s] = req[s]
        BY <1>6, <3>2
      <4>2. /\ \A a \in DOMAIN attachments : a \notin q.rows \cap req[s].rows
            /\ \A p \in DOMAIN images : p # q.profile \/ p # req[s].profile
        BY <1>1, <1>3, <3>2, Disjoint
      <4>3. CASE \E a \in req[s].rows \cap DOMAIN attachments : x = attachments[a].file
        BY <1>8, <2>3, <4>1, <4>2, <4>3 DEF AccountedFor, OwnRefs
      <4>4. CASE \E p \in {req[s].profile} \cap DOMAIN images : x = images[p]
        BY <1>8, <2>3, <4>1, <4>2, <4>4 DEF AccountedFor, OwnRefs
      <4> QED
        BY <2>3, <4>3, <4>4 DEF OwnRefs
    <3> QED
      BY <3>1, <3>2
  <2> QED
    BY <2>1, <2>2, <2>3 DEF AccountedFor
<1> QED
  BY <1>2, <1>14 DEF Accounted

-----------------------------------------------------------------------------
(* The theorems *)

IInv == KInv /\ SInv /\ Accounted

LEMMA InitIInv == Init => IInv
<1> SUFFICES ASSUME Init PROVE IInv
  OBVIOUS
<1>1. \A r \in Request : req[r].step = "free"
  BY FreeStep DEF Init
<1>2. DOMAIN req = Request
  BY DEF Init
<1>3. Deleting = {} /\ In("selected") = {}
  BY <1>1, <1>2 DEF Deleting, In
<1>4. DOMAIN attachments = {} /\ DOMAIN posts = {} /\ DOMAIN images = Profile /\ disk = {}
  BY DEF Init
<1>5. SInv
  BY <1>3, <1>4 DEF SInv, Owned, SelectedRows, DeletedRows, DeletedApart
<1>6. Accounted
  BY <1>4 DEF Accounted
<1> QED
  BY <1>5, <1>6, InitKInv DEF IInv

LEMMA NextIInv == IInv /\ [Next]_vars => IInv'
<1> SUFFICES ASSUME IInv, [Next]_vars PROVE IInv'
  OBVIOUS
<1>1. Typed /\ SInv /\ Accounted /\ KInv'
  BY NextKInv DEF IInv, KInv
<1> SUFFICES SInv' /\ Accounted'
  BY <1>1 DEF IInv
<1>2. ASSUME NEW r \in Request, NEW f \in File, NEW use, NEW id, SaveFile(r, f, use, id)
      PROVE  SInv' /\ Accounted'
  BY <1>1, <1>2, SavingStructure, SaveFileAccounted
<1>3. ASSUME NEW r \in Request, NEW p, KeepImage(r, p)
      PROVE  SInv' /\ Accounted'
  <2>1. Accounted'
    BY <1>1, <1>3, TakeNameAccounted DEF KeepImage
  <2> QED
    BY <1>1, <1>3, <2>1, SavingStructure
<1>4. ASSUME NEW r \in Request, NEW e, NEW new, ImportEmoji(r, e, new)
      PROVE  SInv' /\ Accounted'
  <2>1. Accounted'
    BY <1>1, <1>4, TakeNameAccounted DEF ImportEmoji
  <2> QED
    BY <1>1, <1>4, <2>1, SavingStructure
<1>5. ASSUME NEW r \in Request, NEW p, DeleteProfile(r, p) \/ DeletePost(r, p)
      PROVE  SInv' /\ Accounted'
  BY <1>1, <1>5, SelectStructure, SelectAccounted DEF DeleteProfile, DeletePost
<1>6. ASSUME NEW r \in Request,
             (\E a \in Attachment : CreateAttachment(r, a)) \/ UpdateImage(r) \/ SetEmoji(r)
      PROVE  SInv' /\ Accounted'
  <2>1. SInv'
    BY <1>1, <1>6, InsertStructure
  <2>2. Accounted'
    BY <1>1, <1>6, CreateAttachmentAccounted, UpdateImageAccounted, SetEmojiAccounted
  <2> QED
    BY <2>1, <2>2
<1>7. ASSUME NEW r \in Request,
             \/ \E e : DeleteEmoji(r, e)
             \/ \E old : DeleteUnusedAttachments(r, old)
             \/ DeleteOrphanedFiles(r)
             \/ Find(r)
             \/ RemoveFile(r)
             \/ RequestFails(r)
      PROVE  SInv' /\ Accounted'
  <2>1. SInv'
    BY <1>1, <1>7, RequestStructure
  <2>2. Accounted'
    BY <1>1, <1>7, DeletionAccounted, FindAccounted, RemoveFileAccounted, FailAccounted
  <2> QED
    BY <2>1, <2>2
<1>8. ASSUME NEW r \in Request, DeleteRows(r) \/ CommitDelete(r)
      PROVE  SInv' /\ Accounted'
  BY <1>1, <1>8, DeleteRowsStructure, CommitStructure, DeleteRowsAccounted, CommitAccounted
<1>9. ASSUME NEW p \in DOMAIN images, DropImage(p)
      PROVE  SInv' /\ Accounted'
  BY <1>1, <1>9, DropImageStructure, DropImageAccounted
<1>10. ASSUME NEW p, NEW S,
              \/ p \in Post /\ \E author, parent : CreatePost(p, author, parent, S)
              \/ p \in DOMAIN posts /\ UpdatePost(p, S)
       PROVE  SInv' /\ Accounted'
  BY <1>1, <1>10, PostStructure, PostAccounted
<1>11. CASE UNCHANGED vars
  <2>1. UNCHANGED <<disk, images, emojis, posts, attachments, req, leaked>>
    BY <1>11 DEF vars, tables
  <2>2. Deleting' = Deleting /\ In("selected")' = In("selected")
    BY <2>1 DEF Deleting, In
  <2>3. SInv'
    BY <1>1, <2>1, <2>2, StructureKept DEF SInv, Owned
  <2>4. Accounted'
    BY <1>1, <2>1, RequestlessAccounted DEF RefsKept
  <2> QED
    BY <2>3, <2>4
<1> QED
  BY <1>2, <1>3, <1>4, <1>5, <1>6, <1>7, <1>8, <1>9, <1>10, <1>11 DEF Next

\* A file that a row refers to is in the media directory, unless a request had it
\* in its hands when another had found it orphaned: find_orphaned_files and
\* remove_files of any number of deletions at once remove no other file.
THEOREM MediaFilesKept == Spec => []FilesKept
<1>1. KInv => FilesKept
  BY DEF KInv, Present, FilesKept, Referred
<1> QED
  BY <1>1, InitKInv, NextKInv, PTL DEF Spec

\* A file of the media directory has a row, is in the hands of a request, or has
\* been left behind in one of the ways that the code has (leaked): whatever
\* selections, deletions, saves and failures overlap.
THEOREM MediaNothingLeaks == Spec => []NothingLeaks
<1>1. ASSUME IInv
      PROVE  NothingLeaks
  <2> SUFFICES ASSUME NEW x \in disk
               PROVE  x \in Referred \cup leaked \cup Held \cup Queued
                              \cup UNION {req[r].files : r \in In("find")}
    BY DEF NothingLeaks
  <2>1. AccountedFor(x) /\ x # None
    BY <1>1, MediaFilesAssumption DEF IInv, KInv, Accounted, Typed
  <2>2. Safe \subseteq Referred \cup {None}
    BY DEF Safe, RefersBut, Referred, ReferredBy
  <2>3. \A s \in Deleting : OwnRefs(req[s]) \subseteq Referred \cup {None}
    BY DEF OwnRefs, Referred, ReferredBy
  <2>4. Removing \subseteq Queued
    BY DEF Removing, Queued
  <2> QED
    BY <2>1, <2>2, <2>3, <2>4 DEF AccountedFor, Found
<1> QED
  BY <1>1, InitIInv, NextIInv, PTL DEF Spec
=============================================================================
