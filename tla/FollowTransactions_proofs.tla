---------------------- MODULE FollowTransactions_proofs ----------------------
(***************************************************************************)
(* The transactions on a pair of actors, in any interleaving of any number *)
(* of sessions: proofs that the follower counter is the number of rows,    *)
(* that an accepted request comes with the relationship, and that an       *)
(* unfollow finds the request but for one overlap with an Accept.          *)
(*                                                                         *)
(* The open transaction of the mention task beside those of everybody      *)
(* else, for any number of users and notes: proofs that users are notified *)
(* and mentions announced at most once, and that no row refers to one that *)
(* is gone.  A mention that was announced is of no notification any more   *)
(* (AnnouncedInv), which needs that a note is notified once (NotifiedInv). *)
(***************************************************************************)
EXTENDS FollowTransactions, Mentions, FiniteSetTheorems, SequenceTheorems,
        NaturalsInduction, WellFoundedInduction, TLAPS

Pcs == {"insert_req", "delete_rel", "delete_req", "check", "update_req", "insert_rel", "commit"}

SessionTyped == session \in [Session -> {Ready} \cup [op : DOMAIN Steps, pc : Pcs]]

\* Whoever has written the relationship is about to commit the opposite of what
\* is committed: TRUE in an accept, FALSE in an unfollow.
RelWriter ==
    \A k \in Session : rel.writer = k =>
        /\ rel.written = ~rel.row
        /\ IF rel.written THEN At(k, "accept", "commit")
           ELSE At(k, "unfollow", "delete_req") \/ At(k, "unfollow", "commit")

\* Whoever has written the request has deleted or accepted it.
ReqWriter ==
    \A k \in Session : req.writer = k =>
        \/ At(k, "unfollow", "commit") /\ req.written = "none"
        \/ (At(k, "accept", "insert_rel") \/ At(k, "accept", "commit")) /\ req.written = "accepted"

\* An accept commits the relationship ...
AcceptWhole == \A k \in Session : At(k, "accept", "commit") => rel.writer = k

\* ... and an unfollow leaves no accepted request behind.
UnfollowWhole ==
    \A k \in Session :
        At(k, "unfollow", "commit") /\ rel.writer = k /\ req.writer # k => req.row # "accepted"

TInv == TypeOK /\ SessionTyped

WInv == RelWriter /\ ReqWriter /\ AcceptWhole /\ UnfollowWhole

\* A committed relationship has its request, or is the orphan.
RequestKept == rel.row => req.row # "none" \/ orphan

\* An unfollow that is to delete a request beside a relationship that it has
\* not deleted has been overtaken.
OvertakenKnown ==
    \A k \in Session :
        (At(k, "unfollow", "delete_req") \/ At(k, "unfollow", "commit")) /\ rel.writer # k /\ rel.row
            => k \in overtaken

\* What the transactions hold: an accept the request that it has accepted, an
\* unfollow at its commit one of the two rows.
HoldsRows ==
    /\ \A k \in Session :
        At(k, "accept", "insert_rel") \/ At(k, "accept", "commit") => req.writer = k
    /\ \A k \in Session : At(k, "unfollow", "commit") => rel.writer = k \/ req.writer = k

RInv == RequestKept /\ OvertakenKnown /\ HoldsRows /\ RequestToUndo

IInv == TInv /\ WInv /\ CounterExact /\ AcceptedHasRelationship /\ RInv

-----------------------------------------------------------------------------
(* Operators on tables and sessions *)

Table(V) == [row : V, writer : Session \cup {Nobody}, written : V]

\* A statement that writes, a commit, a rollback, and a statement that is
\* committed by itself, field by field.
LEMMA WrittenFields ==
    ASSUME NEW V, NEW t \in Table(V), NEW i \in Session, NEW v \in V
    PROVE  /\ Written(t, i, v) \in Table(V)
           /\ Written(t, i, v).row = t.row
           /\ Written(t, i, v).writer = i
           /\ Written(t, i, v).written = v
BY DEF Written, Table

LEMMA CommittedFields ==
    ASSUME NEW V, NEW t \in Table(V), NEW i \in Session
    PROVE  /\ Committed(t, i) \in Table(V)
           /\ Committed(t, i).row = IF t.writer = i THEN t.written ELSE t.row
           /\ Committed(t, i).writer = IF t.writer = i THEN Nobody ELSE t.writer
           /\ Committed(t, i).written = t.written
BY DEF Committed, Table

LEMMA RolledBackFields ==
    ASSUME NEW V, NEW t \in Table(V), NEW i \in Session
    PROVE  /\ RolledBack(t, i) \in Table(V)
           /\ RolledBack(t, i).row = t.row
           /\ RolledBack(t, i).writer = IF t.writer = i THEN Nobody ELSE t.writer
           /\ t.writer # i => RolledBack(t, i) = t
BY DEF RolledBack, Table

LEMMA RowFields ==
    ASSUME NEW V, NEW t \in Table(V), NEW v \in V
    PROVE  /\ [t EXCEPT !.row = v] \in Table(V)
           /\ [t EXCEPT !.row = v].row = v
           /\ [t EXCEPT !.row = v].writer = t.writer
           /\ [t EXCEPT !.row = v].written = t.written
BY DEF Table

LEMMA StepsOf ==
    /\ DOMAIN Steps = {"follow", "unfollow", "accept", "reject"}
    /\ Steps["follow"] = {"insert_req"}
    /\ Steps["unfollow"] = {"delete_rel", "delete_req", "commit"}
    /\ Steps["accept"] = {"check", "update_req", "insert_rel", "commit"}
    /\ Steps["reject"] = {"check", "update_req"}
BY DEF Steps

\* The session i moves to pc, within its operation or at the start of op.
Moves(i, op, pc) ==
    /\ session'[i].op = op /\ session'[i].pc = pc
    /\ \A k \in Session \ {i} : session'[k] = session[k]

Ends(i) ==
    /\ session'[i] = Ready
    /\ \A k \in Session \ {i} : session'[k] = session[k]

LEMMA BeginMoves ==
    ASSUME SessionTyped, NEW i \in Session, NEW op \in DOMAIN Steps, NEW pc \in Pcs,
           session' = [session EXCEPT ![i] = [op |-> op, pc |-> pc]]
    PROVE  SessionTyped' /\ Moves(i, op, pc)
BY DEF SessionTyped, Moves

LEMMA GoToMoves ==
    ASSUME SessionTyped, NEW i \in Session, session[i].op \in DOMAIN Steps, NEW pc \in Pcs,
           GoTo(i, pc)
    PROVE  SessionTyped' /\ Moves(i, session[i].op, pc)
<1>1. session[i].op # "none"
  BY StepsOf
<1>2. session[i] \in [op : DOMAIN Steps, pc : Pcs]
  BY <1>1 DEF SessionTyped, Ready
<1>3. [session[i] EXCEPT !.pc = pc] \in [op : DOMAIN Steps, pc : Pcs]
  BY <1>2
<1>4. session' = [session EXCEPT ![i] = [session[i] EXCEPT !.pc = pc]]
  BY DEF GoTo
<1> QED
  BY <1>2, <1>3, <1>4 DEF SessionTyped, Moves

LEMMA DoneEnds ==
    ASSUME SessionTyped, NEW i \in Session, Done(i)
    PROVE  SessionTyped' /\ Ends(i)
BY DEF SessionTyped, Done, Ends

\* A session at a statement is in its operation, and at no other statement.
LEMMA AtOne ==
    ASSUME NEW i, NEW op, NEW pc, At(i, op, pc)
    PROVE  /\ session[i].op = op /\ session[i].pc = pc
           /\ \A o, p : At(i, o, p) <=> o = op /\ p = pc
BY DEF At

LEMMA ReadyNowhere ==
    ASSUME NEW i, session[i] = Ready
    PROVE  \A op \in DOMAIN Steps : \A pc : ~At(i, op, pc)
BY StepsOf DEF At, Ready

LEMMA NobodyIsNoSession == \A i \in Session : i # Nobody
BY FollowTransactionsAssumption

-----------------------------------------------------------------------------
(* The parts of the type invariant, and what a step does to the sessions *)

AtStep ==
    \A k \in Session :
        session[k] = Ready \/
        (session[k].op \in DOMAIN Steps /\ session[k].pc \in Steps[session[k].op])

WriterBusy == \A k \in Session : k \in {rel.writer, req.writer} => session[k] # Ready

HistoryTyped == overtaken \subseteq Session /\ orphan \in BOOLEAN

LEMMA TypeParts ==
    TypeOK <=> /\ rel \in Table(BOOLEAN)
               /\ req \in Table(Status)
               /\ count \in Int
               /\ AtStep
               /\ WriterBusy
               /\ HistoryTyped
BY DEF TypeOK, Table, AtStep, WriterBusy, HistoryTyped

LEMMA MovesSteps ==
    ASSUME AtStep, NEW i \in Session, NEW op \in DOMAIN Steps, NEW pc \in Steps[op],
           Moves(i, op, pc)
    PROVE  /\ AtStep'
           /\ session'[i] # Ready
           /\ \A o, p : At(i, o, p)' <=> o = op /\ p = pc
           /\ \A k \in Session \ {i} : \A o, p : At(k, o, p)' <=> At(k, o, p)
<1>1. op # "none"
  BY StepsOf
<1> QED
  BY <1>1 DEF AtStep, Moves, At, Ready

LEMMA EndsSteps ==
    ASSUME AtStep, NEW i \in Session, Ends(i)
    PROVE  /\ AtStep'
           /\ \A o \in DOMAIN Steps : \A p : ~At(i, o, p)'
           /\ \A k \in Session \ {i} : \A o, p : At(k, o, p)' <=> At(k, o, p)
<1>1. \A o \in DOMAIN Steps : o # "none"
  BY StepsOf
<1> QED
  BY <1>1 DEF AtStep, Ends, At, Ready

\* A writer of a table is at a statement of a transaction, so it is not Ready.
LEMMA WritersBusy ==
    ASSUME RelWriter, ReqWriter
    PROVE  WriterBusy
BY ReadyNowhere, StepsOf DEF RelWriter, ReqWriter, WriterBusy

LEMMA InitIInv == Init => IInv
<1> SUFFICES ASSUME Init PROVE IInv
  OBVIOUS
<1>1. rel = [row |-> FALSE, writer |-> Nobody, written |-> FALSE] /\ rel.writer = Nobody /\ rel.row = FALSE
  BY DEF Init
<1>2. req = [row |-> "none", writer |-> Nobody, written |-> "none"] /\ req.writer = Nobody /\ req.row = "none"
  BY DEF Init
<1>3. \A k \in Session : session[k] = Ready
  BY DEF Init
<1>4. WInv
  BY <1>1, <1>2, <1>3, NobodyIsNoSession, ReadyNowhere, StepsOf
  DEF WInv, RelWriter, ReqWriter, AcceptWhole, UnfollowWhole
<1>5. TypeOK
  <2>1. rel \in Table(BOOLEAN) /\ req \in Table(Status) /\ count \in Int
    BY <1>1, <1>2 DEF Table, Status, Init
  <2>2. AtStep /\ WriterBusy /\ HistoryTyped
    BY <1>1, <1>2, <1>3, NobodyIsNoSession DEF AtStep, WriterBusy, HistoryTyped, Init
  <2> QED
    BY <2>1, <2>2, TypeParts
<1>6. SessionTyped
  BY DEF Init, SessionTyped
<1>7. RInv
  BY <1>1, <1>3, ReadyNowhere, StepsOf DEF RInv, RequestKept, OvertakenKnown, HoldsRows, RequestToUndo
<1> QED
  BY <1>1, <1>2, <1>4, <1>5, <1>6, <1>7 DEF IInv, TInv, CounterExact, AcceptedHasRelationship, Init

-----------------------------------------------------------------------------
(* The kinds of steps *)

\* A transaction is rolled back: nothing committed changes, and no other
\* session is concerned.
LEMMA FailIInv ==
    ASSUME IInv, NEW i \in Session, Fail(i)
    PROVE  IInv'
<1>1. rel \in Table(BOOLEAN) /\ req \in Table(Status) /\ count \in Int /\ AtStep /\ HistoryTyped
  BY TypeParts DEF IInv, TInv
<1>2. /\ rel' = RolledBack(rel, i) /\ req' = RolledBack(req, i) /\ count' = count
      /\ overtaken' = overtaken \ {i} /\ orphan' = orphan
  BY DEF Fail
<1>3. SessionTyped' /\ Ends(i)
  BY DoneEnds DEF Fail, IInv, TInv
<1>4. AtStep' /\ (\A o \in DOMAIN Steps : \A p : ~At(i, o, p)')
      /\ (\A k \in Session \ {i} : \A o, p : At(k, o, p)' <=> At(k, o, p))
  BY <1>1, <1>3, EndsSteps
<1>5. /\ rel' \in Table(BOOLEAN)
      /\ rel'.row = rel.row
      /\ rel'.writer = IF rel.writer = i THEN Nobody ELSE rel.writer
      /\ rel.writer # i => rel' = rel
  BY <1>1, <1>2, RolledBackFields
<1>6. /\ req' \in Table(Status)
      /\ req'.row = req.row
      /\ req'.writer = IF req.writer = i THEN Nobody ELSE req.writer
      /\ req.writer # i => req' = req
  BY <1>1, <1>2, RolledBackFields
<1>7. RelWriter'
  BY <1>4, <1>5, NobodyIsNoSession, StepsOf DEF IInv, WInv, RelWriter
<1>8. ReqWriter'
  BY <1>4, <1>6, NobodyIsNoSession, StepsOf DEF IInv, WInv, ReqWriter
<1>9. AcceptWhole'
  BY <1>4, <1>5, StepsOf DEF IInv, WInv, AcceptWhole
<1>10. UnfollowWhole'
  BY <1>4, <1>5, <1>6, NobodyIsNoSession, StepsOf DEF IInv, WInv, UnfollowWhole
<1>11. TypeOK'
  <2>1. WriterBusy'
    <3> SUFFICES ASSUME NEW k \in Session, k \in {rel'.writer, req'.writer} PROVE session'[k] # Ready
      BY DEF WriterBusy
    <3>1. k # i /\ k \in {rel.writer, req.writer}
      BY <1>5, <1>6, NobodyIsNoSession
    <3> QED
      BY <1>3, <3>1 DEF IInv, TInv, TypeOK, Ends
  <2> QED
    BY <1>1, <1>2, <1>4, <1>5, <1>6, <2>1, TypeParts
    DEF Table, TypeOK, AtStep, WriterBusy, HistoryTyped
<1>12. RInv'
  <2>1. RequestKept'
    BY <1>2, <1>5, <1>6 DEF IInv, RInv, RequestKept
  <2>2. OvertakenKnown'
    BY <1>2, <1>4, <1>5, StepsOf DEF IInv, RInv, OvertakenKnown
  <2>3. RequestToUndo'
    BY <1>2, <1>4, <1>6, StepsOf DEF IInv, RInv, RequestToUndo
  <2>4. HoldsRows'
    BY <1>4, <1>5, <1>6, StepsOf DEF IInv, RInv, HoldsRows
  <2> QED
    BY <2>1, <2>2, <2>3, <2>4 DEF RInv
<1> QED
  BY <1>2, <1>3, <1>5, <1>6, <1>7, <1>8, <1>9, <1>10, <1>11, <1>12
  DEF IInv, TInv, WInv, CounterExact, AcceptedHasRelationship

\* What is stored after a step, from which the rest of the invariant follows.
LEMMA TypeFromParts ==
    ASSUME rel' \in Table(BOOLEAN), req' \in Table(Status), count' \in Int,
           AtStep', SessionTyped', HistoryTyped', RelWriter', ReqWriter'
    PROVE  TInv'
<1>1. \A k \in Session : session'[k] = Ready => \A o \in DOMAIN Steps : \A p : ~At(k, o, p)'
  BY StepsOf DEF At, Ready
<1>2. WriterBusy'
  BY <1>1, StepsOf DEF RelWriter, ReqWriter, WriterBusy
<1> QED
  BY <1>2 DEF TInv, TypeOK, Table, AtStep, WriterBusy, HistoryTyped

\* A step of a session that has written nothing and starts no transaction: it
\* may commit a request by itself, if that request is not accepted.
Quiet(i) ==
    /\ rel' = rel /\ count' = count /\ overtaken' = overtaken /\ orphan' = orphan
    /\ rel.writer # i /\ req.writer # i
    /\ req' \in Table(Status)
    /\ req'.writer = req.writer /\ req'.written = req.written
    /\ req'.row = req.row \/ req'.row \notin {"accepted", "none"}

LEMMA QuietIInv ==
    ASSUME IInv, NEW i \in Session, Quiet(i),
           SessionTyped', AtStep', ~At(i, "accept", "commit")', ~At(i, "unfollow", "commit")',
           ~At(i, "accept", "insert_rel")',
           At(i, "unfollow", "delete_req")' => ~rel.row,
           \A k \in Session \ {i} : \A o, p : At(k, o, p)' <=> At(k, o, p)
    PROVE  IInv'
<1>1. rel \in Table(BOOLEAN) /\ req \in Table(Status) /\ count \in Int
  BY TypeParts DEF IInv, TInv
<1>2. RelWriter'
  BY DEF Quiet, IInv, WInv, RelWriter
<1>3. ReqWriter'
  BY DEF Quiet, IInv, WInv, ReqWriter
<1>4. AcceptWhole'
  BY DEF Quiet, IInv, WInv, AcceptWhole
<1>5. UnfollowWhole'
  BY DEF Quiet, IInv, WInv, UnfollowWhole
<1>6. TInv'
  <2>1. HistoryTyped'
    BY TypeParts DEF Quiet, HistoryTyped, IInv, TInv
  <2> QED
    BY <1>1, <1>2, <1>3, <2>1, TypeFromParts DEF Quiet
<1>7. RInv'
  <2>1. RequestKept'
    BY DEF Quiet, IInv, RInv, RequestKept
  <2>2. OvertakenKnown'
    BY DEF Quiet, IInv, RInv, OvertakenKnown
  <2>3. RequestToUndo'
    BY DEF Quiet, IInv, RInv, RequestToUndo
  <2>4. HoldsRows'
    BY DEF Quiet, IInv, RInv, HoldsRows
  <2> QED
    BY <2>1, <2>2, <2>3, <2>4 DEF RInv
<1> QED
  BY <1>2, <1>3, <1>4, <1>5, <1>6, <1>7
  DEF Quiet, IInv, WInv, CounterExact, AcceptedHasRelationship

\* A session that is not in a transaction has written nothing.
LEMMA WroteNothing ==
    ASSUME RelWriter, ReqWriter, NEW i \in Session,
           \/ session[i] = Ready
           \/ At(i, "follow", "insert_req")
           \/ At(i, "accept", "check") \/ At(i, "reject", "check")
           \/ At(i, "reject", "update_req")
    PROVE  rel.writer # i /\ req.writer # i
BY ReadyNowhere, StepsOf DEF RelWriter, ReqWriter, At

LEMMA QuietMoves ==
    ASSUME IInv, NEW i \in Session, Quiet(i), SessionTyped',
           NEW op \in DOMAIN Steps, NEW pc \in Steps[op], pc \notin {"commit", "insert_rel"},
           op = "unfollow" /\ pc = "delete_req" => ~rel.row,
           Moves(i, op, pc)
    PROVE  IInv'
<1>1. AtStep' /\ ~At(i, "accept", "commit")' /\ ~At(i, "unfollow", "commit")'
      /\ ~At(i, "accept", "insert_rel")'
      /\ (At(i, "unfollow", "delete_req")' => ~rel.row)
      /\ \A k \in Session \ {i} : \A o, p : At(k, o, p)' <=> At(k, o, p)
  BY MovesSteps, TypeParts DEF IInv, TInv
<1> QED
  BY <1>1, QuietIInv

LEMMA QuietEnds ==
    ASSUME IInv, NEW i \in Session, Quiet(i), SessionTyped', Ends(i)
    PROVE  IInv'
<1>1. AtStep' /\ (\A o \in DOMAIN Steps : \A p : ~At(i, o, p)')
      /\ \A k \in Session \ {i} : \A o, p : At(k, o, p)' <=> At(k, o, p)
  BY EndsSteps, TypeParts DEF IInv, TInv
<1>2. /\ ~At(i, "accept", "commit")' /\ ~At(i, "unfollow", "commit")'
      /\ ~At(i, "unfollow", "delete_req")' /\ ~At(i, "accept", "insert_rel")'
  BY <1>1, StepsOf
<1> QED
  BY <1>1, <1>2, QuietIInv

LEMMA BeginIInv ==
    ASSUME IInv, NEW i \in Session, NEW op \in DOMAIN Steps, NEW pc \in Steps[op],
           pc \notin {"commit", "insert_rel", "delete_req"}, Begin(i, op, pc)
    PROVE  IInv'
<1>1. Quiet(i)
  BY WroteNothing, TypeParts DEF Begin, Quiet, history, IInv, WInv, TInv
<1>2. pc \in Pcs
  BY StepsOf DEF Pcs
<1>3. SessionTyped' /\ Moves(i, op, pc)
  BY <1>2, BeginMoves DEF Begin, IInv, TInv
<1> QED
  BY <1>1, <1>3, QuietMoves

LEMMA CheckIInv ==
    ASSUME IInv, NEW i \in Session, NEW op \in {"accept", "reject"}, NEW status,
           CheckRequest(i, op, status)
    PROVE  IInv'
<1>1. Quiet(i)
  BY WroteNothing, TypeParts DEF CheckRequest, Quiet, history, IInv, WInv, TInv
<1>2. session[i].op = op /\ op \in DOMAIN Steps /\ "update_req" \in Steps[op] /\ "update_req" \in Pcs
  BY StepsOf DEF CheckRequest, At, Pcs
<1>3. CASE Done(i)
  BY <1>1, <1>3, DoneEnds, QuietEnds DEF IInv, TInv
<1>4. CASE GoTo(i, "update_req")
  <2>1. SessionTyped' /\ Moves(i, op, "update_req")
    BY <1>2, <1>4, GoToMoves DEF IInv, TInv
  <2> QED
    BY <1>1, <1>2, <2>1, QuietMoves
<1> QED
  BY <1>3, <1>4 DEF CheckRequest

LEMMA InsertRequestIInv ==
    ASSUME IInv, NEW i \in Session, InsertRequest(i)
    PROVE  IInv'
<1>1. req \in Table(Status) /\ "pending" \in Status
  BY TypeParts DEF IInv, TInv, Status
<1>2. rel.writer # i /\ req.writer # i
  BY WroteNothing DEF InsertRequest, IInv, WInv
<1>3. Quiet(i)
  BY <1>1, <1>2, RowFields DEF InsertRequest, Quiet, history
<1> QED
  BY <1>3, DoneEnds, QuietEnds DEF InsertRequest, IInv, TInv

LEMMA RejectRequestIInv ==
    ASSUME IInv, NEW i \in Session, RejectRequest(i)
    PROVE  IInv'
<1>1. req \in Table(Status) /\ "rejected" \in Status
  BY TypeParts DEF IInv, TInv, Status
<1>2. rel.writer # i /\ req.writer # i
  BY WroteNothing DEF RejectRequest, IInv, WInv
<1>3. Quiet(i)
  BY <1>1, <1>2, RowFields DEF RejectRequest, Quiet, history
<1> QED
  BY <1>3, DoneEnds, QuietEnds DEF RejectRequest, IInv, TInv

\* The relationship is locked and deleted: no accept is about to commit one.
LEMMA DeleteRelationshipIInv ==
    ASSUME IInv, NEW i \in Session, DeleteRelationship(i)
    PROVE  IInv'
<1>1. rel \in Table(BOOLEAN) /\ req \in Table(Status) /\ count \in Int /\ AtStep
  BY TypeParts DEF IInv, TInv
<1>2. /\ "unfollow" \in DOMAIN Steps /\ "delete_req" \in Steps["unfollow"] /\ "delete_req" \in Pcs
      /\ session[i].op = "unfollow"
      /\ \A o, p : At(i, o, p) <=> o = "unfollow" /\ p = "delete_rel"
  BY StepsOf, AtOne DEF DeleteRelationship, At, Pcs
<1>3. SessionTyped' /\ Moves(i, "unfollow", "delete_req")
  BY <1>2, GoToMoves DEF DeleteRelationship, IInv, TInv
<1>4. rel.writer # i /\ req.writer # i
  BY <1>2 DEF IInv, WInv, RelWriter, ReqWriter
<1>5. CASE ~rel.row
  <2>1. Quiet(i)
    BY <1>1, <1>4, <1>5 DEF DeleteRelationship, Quiet, history
  <2> QED
    BY <1>2, <1>3, <1>5, <2>1, QuietMoves
<1>6. CASE rel.row
  <2>1. /\ rel' \in Table(BOOLEAN) /\ rel'.row = TRUE
        /\ rel'.writer = i /\ rel'.written = FALSE /\ rel.row = TRUE
    <3>1. FALSE \in BOOLEAN /\ rel.row = TRUE /\ rel' = Written(rel, i, FALSE)
      BY <1>1, <1>6 DEF DeleteRelationship, Table
    <3>2. \A v \in BOOLEAN : /\ Written(rel, i, v) \in Table(BOOLEAN)
                            /\ Written(rel, i, v).row = rel.row
                            /\ Written(rel, i, v).writer = i
                            /\ Written(rel, i, v).written = v
      BY <1>1, WrittenFields
    <3> QED
      BY <3>1, <3>2
  <2>2. req' = req /\ count' = count /\ overtaken' = overtaken /\ orphan' = orphan
    BY DEF DeleteRelationship, history
  <2>3. /\ AtStep'
        /\ \A o, p : At(i, o, p)' <=> o = "unfollow" /\ p = "delete_req"
        /\ \A k \in Session \ {i} : \A o, p : At(k, o, p)' <=> At(k, o, p)
    BY <1>1, <1>2, <1>3, MovesSteps
  <2>4. rel.writer = Nobody
    BY <1>4, <1>6 DEF DeleteRelationship, Free
  <2>5. RelWriter'
    <3>1. rel'.written = ~rel'.row /\ ~rel'.written
      BY <2>1
    <3> QED
      BY <2>1, <2>3, <3>1 DEF RelWriter
  <2>6. ReqWriter'
    BY <1>4, <2>2, <2>3 DEF IInv, WInv, ReqWriter
  <2>7. AcceptWhole'
    BY <2>3, <2>4, NobodyIsNoSession DEF IInv, WInv, AcceptWhole
  <2>8. UnfollowWhole'
    BY <2>1, <2>3 DEF UnfollowWhole
  <2>9. TInv'
    <3>1. HistoryTyped'
      BY <2>2, TypeParts DEF HistoryTyped, IInv, TInv
    <3> QED
      BY <1>1, <1>3, <2>1, <2>2, <2>3, <2>5, <2>6, <3>1, TypeFromParts
  <2>10. RInv'
    <3>1. RequestKept'
      BY <2>1, <2>2 DEF IInv, RInv, RequestKept
    <3>2. OvertakenKnown'
      BY <2>1, <2>2, <2>3, <2>4, NobodyIsNoSession DEF IInv, RInv, OvertakenKnown
    <3>3. RequestToUndo'
      BY <2>2, <2>3 DEF IInv, RInv, RequestToUndo
    <3>4. HoldsRows'
      BY <2>2, <2>3, <2>4, NobodyIsNoSession DEF IInv, RInv, HoldsRows
    <3> QED
      BY <3>1, <3>2, <3>3, <3>4 DEF RInv
  <2> QED
    BY <2>1, <2>2, <2>5, <2>6, <2>7, <2>8, <2>9, <2>10
    DEF IInv, WInv, CounterExact, AcceptedHasRelationship
<1> QED
  BY <1>5, <1>6 DEF IInv, TInv, TypeOK

\* The request is locked and deleted, if there is one.
LEMMA DeleteRequestIInv ==
    ASSUME IInv, NEW i \in Session, DeleteRequest(i)
    PROVE  IInv'
<1>1. rel \in Table(BOOLEAN) /\ req \in Table(Status) /\ count \in Int /\ AtStep /\ "none" \in Status
  BY TypeParts DEF IInv, TInv, Status
<1>2. CASE req.row = "none" /\ rel.writer # i
  BY <1>2, FailIInv DEF DeleteRequest
<1>3. CASE ~(req.row = "none" /\ rel.writer # i)
  <2>1. /\ "unfollow" \in DOMAIN Steps /\ "commit" \in Steps["unfollow"] /\ "commit" \in Pcs
        /\ session[i].op = "unfollow"
        /\ \A o, p : At(i, o, p) <=> o = "unfollow" /\ p = "delete_req"
    BY StepsOf, AtOne DEF DeleteRequest, At, Pcs
  <2>2. /\ GoTo(i, "commit") /\ rel' = rel /\ count' = count
        /\ overtaken' = overtaken /\ orphan' = orphan
    BY <1>3 DEF DeleteRequest, history
  <2>3. SessionTyped' /\ Moves(i, "unfollow", "commit")
    BY <2>1, <2>2, GoToMoves DEF IInv, TInv
  <2>4. /\ AtStep'
        /\ \A o, p : At(i, o, p)' <=> o = "unfollow" /\ p = "commit"
        /\ \A k \in Session \ {i} : \A o, p : At(k, o, p)' <=> At(k, o, p)
    BY <1>1, <2>1, <2>3, MovesSteps
  <2>5. req.writer # i
    BY <2>1 DEF IInv, WInv, ReqWriter
  <2>6. /\ req' \in Table(Status) /\ req'.row = req.row
        /\ \/ req.row = "none" /\ req' = req
           \/ req'.writer = i /\ req'.written = "none" /\ req.writer = Nobody
    BY <1>1, <1>3, <2>5, WrittenFields DEF DeleteRequest, Free
  <2>7. RelWriter'
    BY <2>1, <2>2, <2>4 DEF IInv, WInv, RelWriter
  <2>8. ReqWriter'
    BY <2>4, <2>5, <2>6, NobodyIsNoSession DEF IInv, WInv, ReqWriter
  <2>9. AcceptWhole'
    BY <2>2, <2>4 DEF IInv, WInv, AcceptWhole
  <2>10. UnfollowWhole'
    BY <2>2, <2>4, <2>6, NobodyIsNoSession DEF IInv, WInv, UnfollowWhole
  <2>11. TInv'
    <3>1. HistoryTyped'
      BY <2>2, TypeParts DEF HistoryTyped, IInv, TInv
    <3> QED
      BY <1>1, <2>2, <2>3, <2>4, <2>6, <2>7, <2>8, <3>1, TypeFromParts
  <2>12. RInv'
    <3>1. RequestKept'
      BY <2>2, <2>6 DEF IInv, RInv, RequestKept
    <3>2. OvertakenKnown'
      BY <2>1, <2>2, <2>4 DEF IInv, RInv, OvertakenKnown
    <3>3. RequestToUndo'
      <4>1. ASSUME req.row = "none" PROVE orphan
        <5>1. rel.writer = i
          BY <1>3, <4>1
        <5>2. rel.row
          BY <1>1, <2>1, <5>1, AtOne DEF IInv, WInv, RelWriter, Table, At
        <5> QED
          BY <4>1, <5>2 DEF IInv, RInv, RequestKept
      <4>2. ASSUME NEW k \in Session, At(k, "unfollow", "commit")' PROVE req'.writer = k \/ orphan
        <5>1. CASE k = i
          BY <2>6, <4>1, <5>1
        <5>2. CASE k # i
          BY <2>4, <2>6, <4>2, <5>2, NobodyIsNoSession DEF IInv, RInv, RequestToUndo
        <5> QED
          BY <5>1, <5>2
      <4> QED
        BY <2>2, <4>2 DEF RequestToUndo
    <3>4. HoldsRows'
      <4>1. req.writer # i => req'.writer = i \/ (req' = req /\ rel.writer = i)
        BY <1>3, <2>6
      <4> QED
        BY <2>2, <2>4, <2>5, <2>6, <4>1, NobodyIsNoSession DEF IInv, RInv, HoldsRows
    <3> QED
      BY <3>1, <3>2, <3>3, <3>4 DEF RInv
  <2> QED
    BY <2>2, <2>6, <2>7, <2>8, <2>9, <2>10, <2>11, <2>12
    DEF IInv, WInv, CounterExact, AcceptedHasRelationship
<1> QED
  BY <1>2, <1>3

\* The request is locked and accepted, the row that is committed unchanged.
LEMMA UpdateRequestIInv ==
    ASSUME IInv, NEW i \in Session, UpdateRequest(i)
    PROVE  IInv'
<1>1. rel \in Table(BOOLEAN) /\ req \in Table(Status) /\ count \in Int /\ AtStep /\ "accepted" \in Status
  BY TypeParts DEF IInv, TInv, Status
<1>2. CASE req.row = "none"
  BY <1>2, FailIInv DEF UpdateRequest
<1>3. CASE req.row # "none"
  <2>1. /\ "accept" \in DOMAIN Steps /\ "insert_rel" \in Steps["accept"] /\ "insert_rel" \in Pcs
        /\ session[i].op = "accept"
        /\ \A o, p : At(i, o, p) <=> o = "accept" /\ p = "update_req"
    BY StepsOf, AtOne DEF UpdateRequest, At, Pcs
  <2>2. /\ GoTo(i, "insert_rel") /\ rel' = rel /\ count' = count /\ req' = Written(req, i, "accepted")
        /\ overtaken' = overtaken /\ orphan' = orphan
    BY <1>3 DEF UpdateRequest, history
  <2>3. SessionTyped' /\ Moves(i, "accept", "insert_rel")
    BY <2>1, <2>2, GoToMoves DEF IInv, TInv
  <2>4. /\ AtStep'
        /\ \A o, p : At(i, o, p)' <=> o = "accept" /\ p = "insert_rel"
        /\ \A k \in Session \ {i} : \A o, p : At(k, o, p)' <=> At(k, o, p)
    BY <1>1, <2>1, <2>3, MovesSteps
  <2>5. rel.writer # i /\ req.writer = Nobody
    BY <1>3, <2>1 DEF IInv, WInv, RelWriter, ReqWriter, UpdateRequest, Free
  <2>6. /\ req' \in Table(Status) /\ req'.row = req.row
        /\ req'.writer = i /\ req'.written = "accepted"
    BY <1>1, <2>2, WrittenFields
  <2>7. RelWriter'
    BY <2>2, <2>4, <2>5 DEF IInv, WInv, RelWriter
  <2>8. ReqWriter'
    BY <2>4, <2>6 DEF ReqWriter
  <2>9. AcceptWhole'
    BY <2>2, <2>4 DEF IInv, WInv, AcceptWhole
  <2>10. UnfollowWhole'
    BY <2>2, <2>4, <2>5, <2>6, NobodyIsNoSession DEF IInv, WInv, UnfollowWhole
  <2>11. TInv'
    <3>1. HistoryTyped'
      BY <2>2, TypeParts DEF HistoryTyped, IInv, TInv
    <3> QED
      BY <1>1, <2>2, <2>3, <2>4, <2>6, <2>7, <2>8, <3>1, TypeFromParts
  <2>12. RInv'
    <3>1. RequestKept'
      BY <2>2, <2>6 DEF IInv, RInv, RequestKept
    <3>2. OvertakenKnown'
      BY <2>1, <2>2, <2>4 DEF IInv, RInv, OvertakenKnown
    <3>3. RequestToUndo'
      BY <2>2, <2>4, <2>5, <2>6, NobodyIsNoSession DEF IInv, RInv, RequestToUndo
    <3>4. HoldsRows'
      BY <2>2, <2>4, <2>5, <2>6, NobodyIsNoSession DEF IInv, RInv, HoldsRows
    <3> QED
      BY <3>1, <3>2, <3>3, <3>4 DEF RInv
  <2> QED
    BY <2>2, <2>6, <2>7, <2>8, <2>9, <2>10, <2>11, <2>12
    DEF IInv, WInv, CounterExact, AcceptedHasRelationship
<1> QED
  BY <1>2, <1>3

\* The relationship is inserted where there is none, and locked.
LEMMA InsertRelationshipIInv ==
    ASSUME IInv, NEW i \in Session, InsertRelationship(i)
    PROVE  IInv'
<1>1. rel \in Table(BOOLEAN) /\ req \in Table(Status) /\ count \in Int /\ AtStep
  BY TypeParts DEF IInv, TInv
<1>2. CASE rel.row
  BY <1>2, FailIInv DEF InsertRelationship
<1>3. CASE ~rel.row
  <2>1. /\ "accept" \in DOMAIN Steps /\ "commit" \in Steps["accept"] /\ "commit" \in Pcs
        /\ session[i].op = "accept"
        /\ \A o, p : At(i, o, p) <=> o = "accept" /\ p = "insert_rel"
    BY StepsOf, AtOne DEF InsertRelationship, At, Pcs
  <2>2. /\ GoTo(i, "commit") /\ req' = req /\ count' = count /\ rel' = Written(rel, i, TRUE)
        /\ overtaken' = overtaken /\ orphan' = orphan
    BY <1>3 DEF InsertRelationship, history
  <2>3. SessionTyped' /\ Moves(i, "accept", "commit")
    BY <2>1, <2>2, GoToMoves DEF IInv, TInv
  <2>4. /\ AtStep'
        /\ \A o, p : At(i, o, p)' <=> o = "accept" /\ p = "commit"
        /\ \A k \in Session \ {i} : \A o, p : At(k, o, p)' <=> At(k, o, p)
    BY <1>1, <2>1, <2>3, MovesSteps
  <2>5. rel.writer = Nobody
    BY <2>1 DEF IInv, WInv, RelWriter, InsertRelationship, Free
  <2>6. /\ rel' \in Table(BOOLEAN) /\ rel'.row = FALSE
        /\ rel'.writer = i /\ rel'.written = TRUE /\ rel.row = FALSE
    <3>1. TRUE \in BOOLEAN /\ rel.row = FALSE
      BY <1>1, <1>3 DEF Table
    <3>2. \A v \in BOOLEAN : /\ Written(rel, i, v) \in Table(BOOLEAN)
                            /\ Written(rel, i, v).row = rel.row
                            /\ Written(rel, i, v).writer = i
                            /\ Written(rel, i, v).written = v
      BY <1>1, WrittenFields
    <3> QED
      BY <2>2, <3>1, <3>2
  <2>7. RelWriter'
    <3>1. rel'.written = ~rel'.row /\ rel'.written
      BY <2>6
    <3> QED
      BY <2>4, <2>6, <3>1 DEF RelWriter
  <2>8. ReqWriter'
    BY <2>1, <2>2, <2>4 DEF IInv, WInv, ReqWriter
  <2>9. AcceptWhole'
    BY <2>4, <2>5, <2>6, NobodyIsNoSession DEF IInv, WInv, AcceptWhole
  <2>10. UnfollowWhole'
    BY <2>2, <2>4, <2>6 DEF UnfollowWhole
  <2>11. TInv'
    <3>1. HistoryTyped'
      BY <2>2, TypeParts DEF HistoryTyped, IInv, TInv
    <3> QED
      BY <1>1, <2>2, <2>3, <2>4, <2>6, <2>7, <2>8, <3>1, TypeFromParts
  <2>12. RInv'
    <3>1. RequestKept'
      BY <2>2, <2>6 DEF IInv, RInv, RequestKept
    <3>2. OvertakenKnown'
      BY <2>4, <2>6 DEF IInv, RInv, OvertakenKnown
    <3>3. RequestToUndo'
      BY <2>2, <2>4 DEF IInv, RInv, RequestToUndo
    <3>4. HoldsRows'
      BY <2>1, <2>2, <2>4, <2>5, <2>6, NobodyIsNoSession DEF IInv, RInv, HoldsRows
    <3> QED
      BY <3>1, <3>2, <3>3, <3>4 DEF RInv
  <2> QED
    BY <2>2, <2>6, <2>7, <2>8, <2>9, <2>10, <2>11, <2>12
    DEF IInv, WInv, CounterExact, AcceptedHasRelationship
<1> QED
  BY <1>2, <1>3

\* Only a transaction that holds the relationship changes it, and by one row.
LEMMA CommitIInv ==
    ASSUME IInv, NEW i \in Session, Commit(i)
    PROVE  IInv'
<1>1. rel \in Table(BOOLEAN) /\ req \in Table(Status) /\ count \in Int /\ AtStep
  BY TypeParts DEF IInv, TInv
<1>2. At(i, "unfollow", "commit") \/ At(i, "accept", "commit")
  BY <1>1, StepsOf DEF AtStep, Commit, At, Ready
<1>3. SessionTyped' /\ Ends(i)
  BY DoneEnds DEF Commit, IInv, TInv
<1>4. AtStep' /\ (\A o \in DOMAIN Steps : \A p : ~At(i, o, p)')
      /\ (\A k \in Session \ {i} : \A o, p : At(k, o, p)' <=> At(k, o, p))
  BY <1>1, <1>3, EndsSteps
<1>5. /\ rel' \in Table(BOOLEAN)
      /\ rel'.row = IF rel.writer = i THEN rel.written ELSE rel.row
      /\ rel'.writer = IF rel.writer = i THEN Nobody ELSE rel.writer
      /\ rel'.written = rel.written
  BY <1>1, CommittedFields DEF Commit
<1>6. /\ req' \in Table(Status)
      /\ req'.row = IF req.writer = i THEN req.written ELSE req.row
      /\ req'.writer = IF req.writer = i THEN Nobody ELSE req.writer
      /\ req'.written = req.written
  BY <1>1, CommittedFields DEF Commit
<1>7. RelWriter'
  BY <1>4, <1>5, NobodyIsNoSession DEF IInv, WInv, RelWriter
<1>8. ReqWriter'
  BY <1>4, <1>6, NobodyIsNoSession DEF IInv, WInv, ReqWriter
<1>9. AcceptWhole'
  BY <1>4, <1>5, StepsOf DEF IInv, WInv, AcceptWhole
<1>10. UnfollowWhole'
  <2> SUFFICES ASSUME NEW k \in Session, At(k, "unfollow", "commit")', rel'.writer = k, req'.writer # k
               PROVE  req'.row # "accepted"
    BY DEF UnfollowWhole
  <2>1. k # i /\ At(k, "unfollow", "commit") /\ rel.writer = k /\ req.writer # k
    BY <1>4, <1>5, <1>6, NobodyIsNoSession, StepsOf
  <2>2. ~At(i, "accept", "commit")
    BY <2>1 DEF IInv, WInv, AcceptWhole
  <2>3. req.writer = i => req.written = "none"
    BY <1>2, <2>2, AtOne DEF IInv, WInv, ReqWriter, At
  <2> QED
    BY <1>6, <2>1, <2>3 DEF IInv, WInv, UnfollowWhole
<1>11. count' \in Int /\ CounterExact'
  <2>1. rel.writer = i => rel.written = ~rel.row
    BY DEF IInv, WInv, RelWriter
  <2>2. rel.row \in BOOLEAN /\ rel.written \in BOOLEAN
    BY <1>1 DEF Table
  <2>3. count = IF rel.row THEN 1 ELSE 0
    BY DEF IInv, CounterExact
  <2>4. count' = count + IF rel.writer # i THEN 0 ELSE IF rel.written THEN 1 ELSE -1
    BY DEF Commit, Change
  <2>5. CASE rel.writer # i
    BY <1>1, <1>5, <2>3, <2>4, <2>5 DEF CounterExact
  <2>6. CASE rel.writer = i /\ rel.row
    <3>1. ~rel.written
      BY <2>1, <2>2, <2>6
    <3> QED
      BY <1>1, <1>5, <2>3, <2>4, <2>6, <3>1 DEF CounterExact
  <2>7. CASE rel.writer = i /\ ~rel.row
    BY <1>1, <1>5, <2>1, <2>2, <2>3, <2>4, <2>7 DEF CounterExact
  <2> QED
    BY <2>2, <2>5, <2>6, <2>7
<1>12. AcceptedHasRelationship'
  <2>1. CASE At(i, "accept", "commit")
    <3>1. rel.writer = i /\ rel.written
      BY <2>1, AtOne DEF IInv, WInv, AcceptWhole, RelWriter, At
    <3> QED
      BY <1>5, <3>1 DEF AcceptedHasRelationship
  <2>2. CASE At(i, "unfollow", "commit")
    <3>1. req.writer = i => req.written = "none"
      BY <2>2 DEF IInv, WInv, ReqWriter, At
    <3>2. rel.writer = i /\ req.writer # i => req.row # "accepted"
      BY <2>2 DEF IInv, WInv, UnfollowWhole
    <3> QED
      BY <1>5, <1>6, <3>1, <3>2 DEF IInv, AcceptedHasRelationship
  <2> QED
    BY <1>2, <2>1, <2>2
<1>13. /\ HistoryTyped'
       /\ overtaken' = (overtaken \ {i}) \cup IF session[i].op = "accept" THEN Overtaken ELSE {}
       /\ orphan' = IF rel.writer = i THEN FALSE ELSE orphan \/ i \in overtaken
  <2>1. overtaken \subseteq Session /\ orphan \in BOOLEAN /\ Overtaken \subseteq Session
    BY TypeParts DEF HistoryTyped, IInv, TInv, Overtaken
  <2> QED
    BY <2>1 DEF Commit, HistoryTyped
<1>14. TInv'
  BY <1>3, <1>4, <1>5, <1>6, <1>7, <1>8, <1>11, <1>13, TypeFromParts
<1>15. RInv'
  <2>1. CASE At(i, "accept", "commit")
    <3>1. /\ rel.writer = i /\ rel.written /\ session[i].op = "accept"
          /\ req.writer = i /\ req.written = "accepted"
      BY <2>1, AtOne DEF IInv, WInv, RInv, AcceptWhole, RelWriter, ReqWriter, HoldsRows, At
    <3>2. \A k \in Session \ {i} : ~At(k, "unfollow", "commit")
      BY <3>1 DEF IInv, RInv, HoldsRows
    <3>3. RequestKept'
      BY <1>6, <3>1 DEF RequestKept
    <3>4. OvertakenKnown'
      <4> SUFFICES ASSUME NEW k \in Session,
                          At(k, "unfollow", "delete_req")' \/ At(k, "unfollow", "commit")'
                   PROVE  k \in overtaken'
        BY DEF OvertakenKnown
      <4>1. k # i /\ At(k, "unfollow", "delete_req")
        BY <1>4, <3>2, StepsOf
      <4>2. k \in Overtaken
        BY <3>1, <4>1 DEF Overtaken
      <4> QED
        BY <1>13, <3>1, <4>2
    <3>5. RequestToUndo'
      BY <1>4, <3>2, StepsOf DEF RequestToUndo
    <3>6. HoldsRows'
      BY <1>4, <1>6, <3>1, <3>2, StepsOf DEF IInv, RInv, HoldsRows
    <3> QED
      BY <3>3, <3>4, <3>5, <3>6 DEF RInv
  <2>2. CASE At(i, "unfollow", "commit")
    <3>1. /\ rel.writer = i => ~rel.written
          /\ req.writer = i => req.written = "none"
          /\ rel.writer = i \/ req.writer = i
          /\ session[i].op = "unfollow"
      BY <2>2, AtOne DEF IInv, WInv, RInv, RelWriter, ReqWriter, HoldsRows, At
    <3>2. overtaken' = overtaken \ {i}
      BY <1>13, <3>1
    <3>3. HoldsRows'
      BY <1>4, <1>5, <1>6, StepsOf DEF IInv, RInv, HoldsRows
    <3>4. CASE rel.writer = i
      <4>1. ~rel'.row
        BY <1>5, <3>1, <3>4
      <4>2. RequestToUndo'
        BY <1>4, <1>6, <3>4, StepsOf DEF IInv, RInv, HoldsRows, RequestToUndo
      <4> QED
        BY <3>3, <4>1, <4>2 DEF RInv, RequestKept, OvertakenKnown
    <3>5. CASE rel.writer # i
      <4>1. rel'.row = rel.row /\ rel'.writer = rel.writer /\ req.writer = i
        BY <1>5, <3>1, <3>5
      <4>2. rel.row => orphan'
        BY <1>13, <2>2, <3>5 DEF IInv, RInv, OvertakenKnown
      <4>3. RequestKept'
        BY <4>1, <4>2 DEF RequestKept
      <4>4. OvertakenKnown'
        BY <1>4, <3>2, <4>1, StepsOf DEF IInv, RInv, OvertakenKnown
      <4>5. orphan => orphan'
        BY <1>13, <3>5
      <4>6. RequestToUndo'
        BY <1>4, <4>1, <4>5, StepsOf DEF IInv, RInv, RequestToUndo
      <4> QED
        BY <3>3, <4>3, <4>4, <4>6 DEF RInv
    <3> QED
      BY <3>4, <3>5
  <2> QED
    BY <1>2, <2>1, <2>2
<1> QED
  BY <1>7, <1>8, <1>9, <1>10, <1>11, <1>12, <1>14, <1>15 DEF IInv, WInv

-----------------------------------------------------------------------------
(* The invariant *)

LEMMA StatementIInv ==
    ASSUME IInv, NEW i \in Session, Statement(i)
    PROVE  IInv'
BY InsertRequestIInv, DeleteRelationshipIInv, DeleteRequestIInv, CheckIInv, RejectRequestIInv,
   UpdateRequestIInv, InsertRelationshipIInv, CommitIInv
DEF Statement

LEMMA NextIInv == IInv /\ [Next]_vars => IInv'
<1> SUFFICES ASSUME IInv, [Next]_vars PROVE IInv'
  OBVIOUS
<1>1. ASSUME NEW i \in Api, BeginApi(i) PROVE IInv'
  BY <1>1, BeginIInv, StepsOf DEF BeginApi, Session
<1>2. ASSUME NEW i \in Inbox, BeginInbox(i) PROVE IInv'
  BY <1>2, BeginIInv, StepsOf DEF BeginInbox, Session
<1>3. ASSUME NEW i \in Session, Statement(i) PROVE IInv'
  BY <1>3, StatementIInv
<1>4. ASSUME NEW i \in Session, Abort(i) PROVE IInv'
  BY <1>4, FailIInv DEF Abort
<1>5. ASSUME NEW i \in Session, NEW k \in Session, BreakDeadlock(i, k) PROVE IInv'
  BY <1>5, FailIInv DEF BreakDeadlock
<1>6. CASE UNCHANGED vars
  BY <1>6 DEF vars, IInv, TInv, TypeOK, SessionTyped, WInv, RelWriter, ReqWriter, AcceptWhole,
              UnfollowWhole, CounterExact, AcceptedHasRelationship, At,
              history, RInv, RequestKept, OvertakenKnown, HoldsRows, RequestToUndo
<1> QED
  BY <1>1, <1>2, <1>3, <1>4, <1>5, <1>6 DEF Next

LEMMA AlwaysIInv == Spec => []IInv
BY InitIInv, NextIInv, PTL DEF Spec

-----------------------------------------------------------------------------
(* The theorems *)

\* Every session is at a statement of its operation, and a row that is locked
\* is locked by a session that is in the middle of its transaction: no error
\* path of follow, unfollow, Accept or Reject leaves a lock behind.
THEOREM FollowTypeCorrect == Spec => []TypeOK
<1>1. IInv => TypeOK
  BY DEF IInv, TInv
<1> QED
  BY <1>1, AlwaysIInv, PTL

\* follower_count is the number of committed rows whichever follow_request_accepted
\* and unfollow overlap, fail or deadlock, for any number of API and inbox sessions.
THEOREM FollowCounterExact == Spec => []CounterExact
<1>1. IInv => CounterExact
  BY DEF IInv
<1> QED
  BY <1>1, AlwaysIInv, PTL

\* The status of the request and the relationship are committed together: no
\* unfollow, at whatever statement it overlaps an Accept, leaves an accepted
\* request without the relationship.
THEOREM FollowAcceptedHasRelationship == Spec => []AcceptedHasRelationship
<1>1. IInv => AcceptedHasRelationship
  BY DEF IInv
<1> QED
  BY <1>1, AlwaysIInv, PTL

\* A transaction of unfollow that deletes anything deletes, and returns, the
\* request (what the .expect of a move relies on), for any number of overlapping
\* sessions: unless an earlier unfollow, overtaken by an Accept between its two
\* DELETEs, has left the relationship without one.
THEOREM RequestToUndoCorrect == Spec => []RequestToUndo
<1>1. IInv => RequestToUndo
  BY DEF IInv, RInv
<1> QED
  BY <1>1, AlwaysIInv, PTL

-----------------------------------------------------------------------------
(* Rows selected from a table *)

LEMMA LeastNat ==
    ASSUME NEW S \in SUBSET Nat, S # {}
    PROVE  \E m \in S : \A n \in S : m <= n
<1> DEFINE R == OpToRel(<, Nat)
<1>1. IsWellFoundedOn(R, Nat)
  BY NatLessThanWellFounded
<1>2. \A x \in Nat, y \in Nat : <<x, y>> \in R <=> x < y
  BY DEF OpToRel
<1> HIDE DEF R
<1>3. PICK m \in S : \A n \in S : <<n, m>> \notin R
  BY <1>1, WFMin
<1>4. m \in Nat
  OBVIOUS
<1>5. ASSUME NEW n \in S PROVE m <= n
  <2>1. n \in Nat /\ ~(n < m)
    BY <1>2, <1>3, <1>4
  <2> QED
    BY <1>4, <2>1
<1> QED
  BY <1>5

Selected(table, kept, f, n) ==
    IF n = 0 THEN <<>>
    ELSE IF table[n] \in kept THEN Append(f[n - 1], table[n])
    ELSE f[n - 1]

\* The rows among the first n are selected, for every n ...
LEMMA SelectedExist ==
    ASSUME NEW table, NEW kept, NEW N \in Nat
    PROVE  \E f : f = [n \in 0..N |-> Selected(table, kept, f, n)]
<1> DEFINE Some(k) == \E f : f = [n \in 0..k |-> Selected(table, kept, f, n)]
           missing == {k \in Nat : ~Some(k)}
<1> SUFFICES missing = {}
  OBVIOUS
<1>1. Some(0)
  <2> DEFINE f == [n \in 0..0 |-> <<>>]
  <2>1. \A n \in 0..0 : n = 0
    OBVIOUS
  <2>2. \A g : \A n \in 0..0 : Selected(table, kept, g, n) = <<>>
    BY <2>1 DEF Selected
  <2>3. f = [n \in 0..0 |-> Selected(table, kept, f, n)]
    BY <2>2
  <2> QED
    BY <2>3
<1>2. ASSUME NEW k \in Nat, Some(k) PROVE Some(k + 1)
  <2>1. PICK g : g = [n \in 0..k |-> Selected(table, kept, g, n)]
    BY <1>2
  <2>2. PICK next : next = IF table[k + 1] \in kept THEN Append(g[k], table[k + 1]) ELSE g[k]
    OBVIOUS
  <2>3. PICK f : f = [n \in 0..(k + 1) |-> IF n = k + 1 THEN next ELSE g[n]]
    OBVIOUS
  <2>4. ASSUME NEW n \in 0..(k + 1) PROVE f[n] = Selected(table, kept, f, n)
    <3>1. CASE n = k + 1
      <4>1. n # 0 /\ n - 1 = k /\ k \in 0..(k + 1) /\ k # k + 1
        BY <3>1
      <4>2. f[n] = next /\ f[n - 1] = g[k]
        BY <2>3, <3>1, <4>1
      <4> QED
        BY <2>2, <3>1, <4>1, <4>2 DEF Selected
    <3>2. CASE n # k + 1
      <4>1. n \in 0..k
        BY <3>2
      <4>2. f[n] = g[n] /\ g[n] = Selected(table, kept, g, n)
        BY <2>1, <2>3, <3>2, <4>1
      <4>3. n # 0 => n - 1 \in 0..(k + 1) /\ n - 1 # k + 1
        BY <4>1
      <4>4. n # 0 => f[n - 1] = g[n - 1]
        BY <2>3, <4>3
      <4> QED
        BY <4>2, <4>4 DEF Selected
    <3> QED
      BY <3>1, <3>2
  <2>5. f = [n \in 0..(k + 1) |-> Selected(table, kept, f, n)]
    BY <2>3, <2>4
  <2> QED
    BY <2>5
<1> HIDE DEF Some
<1> SUFFICES ASSUME missing # {} PROVE FALSE
  OBVIOUS
<1>3. PICK m \in missing : \A n \in missing : m <= n
  BY LeastNat
<1>4. m \in Nat /\ ~Some(m) /\ m # 0
  BY <1>1, <1>3
<1>5. m - 1 \in Nat /\ (m - 1) + 1 = m /\ ~(m <= m - 1)
  BY <1>4
<1>6. Some(m - 1)
  BY <1>3, <1>5
<1> QED
  BY <1>2, <1>4, <1>5, <1>6

\* ... which is what Where takes them from.
LEMMA WhereIs ==
    ASSUME NEW table, NEW kept, Len(table) \in Nat
    PROVE  \E f : /\ f = [n \in 0..Len(table) |-> Selected(table, kept, f, n)]
                  /\ Where(table, kept) = f[Len(table)]
<1> DEFINE N == Len(table)
           Entry(f, n) == IF n = 0 THEN <<>>
                          ELSE IF table[n] \in kept THEN Append(f[n - 1], table[n])
                          ELSE f[n - 1]
           g == CHOOSE f : f = [n \in 0..N |-> Entry(f, n)]
<1>1. \A f : \A n \in 0..N : Selected(table, kept, f, n) = Entry(f, n)
  BY DEF Selected
<1>2. \E f : f = [n \in 0..N |-> Entry(f, n)]
  <2>1. PICK f : f = [n \in 0..N |-> Selected(table, kept, f, n)]
    BY SelectedExist
  <2> QED
    BY <1>1, <2>1
<1>3. g = [n \in 0..N |-> Entry(g, n)]
  BY <1>2
<1>4. Where(table, kept) = g[N]
  BY DEF Where
<1> HIDE DEF g, Entry
<1> QED
  BY <1>1, <1>3, <1>4

\* The rows r are among the first n of s, each taken once, and none of them
\* that is to be kept is missing.
RowsOf(r, s, n, kept) ==
    /\ \E h \in [1..Len(r) -> 1..n] :
          /\ \A i \in 1..Len(r) : r[i] = s[h[i]] /\ r[i] \in kept
          /\ \A i \in 1..Len(r), k \in 1..Len(r) : h[i] = h[k] => i = k
    /\ \A k \in 1..n : s[k] \in kept => \E i \in 1..Len(r) : r[i] = s[k]

LEMMA NextRow ==
    ASSUME NEW T, NEW s \in Seq(T), NEW r \in Seq(T), NEW n \in Nat, n + 1 <= Len(s),
           NEW kept, RowsOf(r, s, n, kept)
    PROVE  IF s[n + 1] \in kept
           THEN Append(r, s[n + 1]) \in Seq(T) /\ RowsOf(Append(r, s[n + 1]), s, n + 1, kept)
           ELSE RowsOf(r, s, n + 1, kept)
<1>1. PICK h \in [1..Len(r) -> 1..n] :
          /\ \A i \in 1..Len(r) : r[i] = s[h[i]] /\ r[i] \in kept
          /\ \A i \in 1..Len(r), k \in 1..Len(r) : h[i] = h[k] => i = k
  BY DEF RowsOf
<1>2. \A k \in 1..n : s[k] \in kept => \E i \in 1..Len(r) : r[i] = s[k]
  BY DEF RowsOf
<1>3. Len(r) \in Nat /\ Len(s) \in Nat /\ \A k \in 1..(n + 1) : k \in 1..n \/ k = n + 1
  OBVIOUS
<1>4. CASE s[n + 1] \in kept
  <2>1. PICK x : x = s[n + 1]
    OBVIOUS
  <2>2. x \in T /\ x \in kept
    BY <1>3, <1>4, <2>1
  <2>3. PICK q : q = Append(r, x)
    OBVIOUS
  <2>4. /\ q \in Seq(T) /\ Len(q) = Len(r) + 1 /\ q[Len(r) + 1] = x
        /\ \A i \in 1..Len(r) : q[i] = r[i]
    BY <2>2, <2>3
  <2>5. PICK g : g = [i \in 1..Len(q) |-> IF i = Len(r) + 1 THEN n + 1 ELSE h[i]]
    OBVIOUS
  <2>6. \A i \in 1..Len(q) : i = Len(r) + 1 \/ (i \in 1..Len(r) /\ i # Len(r) + 1)
    BY <1>3, <2>4
  <2>7. ASSUME NEW i \in 1..Len(r) PROVE g[i] = h[i] /\ h[i] \in 1..n
    <3>1. i \in 1..Len(q) /\ i # Len(r) + 1
      BY <1>3, <2>4
    <3> QED
      BY <1>1, <2>5, <3>1
  <2>8. g[Len(r) + 1] = n + 1 /\ Len(r) + 1 \in 1..Len(q)
    BY <1>3, <2>4, <2>5
  <2>9. g \in [1..Len(q) -> 1..(n + 1)]
    BY <2>5, <2>6, <2>7
  <2>10. \A i \in 1..Len(q) : q[i] = s[g[i]] /\ q[i] \in kept
    BY <1>1, <2>1, <2>2, <2>4, <2>6, <2>7, <2>8
  <2>11. ASSUME NEW i \in 1..Len(q), NEW k \in 1..Len(q), g[i] = g[k] PROVE i = k
    <3>1. CASE i \in 1..Len(r) /\ k \in 1..Len(r)
      BY <1>1, <2>7, <2>11, <3>1
    <3>2. \A j \in 1..Len(r) : g[j] # n + 1
      BY <2>7
    <3> QED
      BY <2>6, <2>8, <2>11, <3>1, <3>2
  <2>12. ASSUME NEW k \in 1..(n + 1), s[k] \in kept PROVE \E i \in 1..Len(q) : q[i] = s[k]
    <3>1. CASE k \in 1..n
      <4>1. PICK i \in 1..Len(r) : r[i] = s[k]
        BY <1>2, <2>12, <3>1
      <4>2. i \in 1..Len(q) /\ q[i] = s[k]
        BY <1>3, <2>4, <4>1
      <4> QED
        BY <4>2
    <3>2. CASE k = n + 1
      BY <2>1, <2>4, <2>8, <3>2
    <3> QED
      BY <1>3, <3>1, <3>2
  <2>13. RowsOf(q, s, n + 1, kept)
    BY <2>9, <2>10, <2>11, <2>12 DEF RowsOf
  <2> QED
    BY <1>4, <2>1, <2>3, <2>4, <2>13
<1>5. CASE s[n + 1] \notin kept
  <2>1. h \in [1..Len(r) -> 1..(n + 1)]
    OBVIOUS
  <2>2. \A k \in 1..(n + 1) : s[k] \in kept => \E i \in 1..Len(r) : r[i] = s[k]
    BY <1>2, <1>3, <1>5
  <2>3. RowsOf(r, s, n + 1, kept)
    BY <1>1, <2>1, <2>2 DEF RowsOf
  <2> QED
    BY <1>5, <2>3
<1> QED
  BY <1>4, <1>5

LEMMA WhereRows ==
    ASSUME NEW T, NEW s \in Seq(T), NEW kept
    PROVE  Where(s, kept) \in Seq(T) /\ RowsOf(Where(s, kept), s, Len(s), kept)
<1>1. Len(s) \in Nat
  OBVIOUS
<1>2. PICK f : /\ f = [n \in 0..Len(s) |-> Selected(s, kept, f, n)]
               /\ Where(s, kept) = f[Len(s)]
  BY <1>1, WhereIs
<1>3. \A n \in 0..Len(s) : f[n] = Selected(s, kept, f, n)
  BY <1>2
<1> DEFINE Right(n) == f[n] \in Seq(T) /\ RowsOf(f[n], s, n, kept)
           wrong == {n \in Nat : n <= Len(s) /\ ~Right(n)}
<1>4. Right(0)
  <2>1. f[0] = <<>>
    BY <1>1, <1>3 DEF Selected
  <2>2. RowsOf(<<>>, s, 0, kept)
    <3> DEFINE h == [i \in 1..Len(<<>>) |-> 0]
    <3>1. 1..Len(<<>>) = {} /\ 1..0 = {}
      OBVIOUS
    <3>2. h \in [1..Len(<<>>) -> 1..0]
      BY <3>1
    <3> QED
      BY <3>1, <3>2 DEF RowsOf
  <2> QED
    BY <2>1, <2>2
<1>5. ASSUME NEW n \in Nat, n + 1 <= Len(s), Right(n) PROVE Right(n + 1)
  <2>1. n + 1 \in 0..Len(s) /\ n + 1 # 0 /\ (n + 1) - 1 = n
    BY <1>1, <1>5
  <2>2. f[n + 1] = IF s[n + 1] \in kept THEN Append(f[n], s[n + 1]) ELSE f[n]
    BY <1>3, <2>1 DEF Selected
  <2>3. PICK r : r = f[n]
    OBVIOUS
  <2>4. r \in Seq(T) /\ RowsOf(r, s, n, kept)
    BY <1>5, <2>3
  <2>5. IF s[n + 1] \in kept
        THEN Append(r, s[n + 1]) \in Seq(T) /\ RowsOf(Append(r, s[n + 1]), s, n + 1, kept)
        ELSE RowsOf(r, s, n + 1, kept)
    BY <1>5, <2>4, NextRow
  <2> QED
    BY <2>2, <2>3, <2>4, <2>5
<1> HIDE DEF Right
<1>6. ASSUME wrong # {} PROVE FALSE
  <2>1. PICK m \in wrong : \A n \in wrong : m <= n
    BY <1>6, LeastNat
  <2>2. m \in Nat /\ ~Right(m) /\ m # 0 /\ m <= Len(s)
    BY <1>4, <2>1
  <2>3. m - 1 \in Nat /\ (m - 1) + 1 = m /\ ~(m <= m - 1) /\ m - 1 <= Len(s)
    BY <1>1, <2>2
  <2>4. Right(m - 1)
    BY <2>1, <2>3
  <2> QED
    BY <1>5, <2>2, <2>3, <2>4
<1>7. Right(Len(s))
  BY <1>1, <1>6
<1> QED
  BY <1>2, <1>7 DEF Right

-----------------------------------------------------------------------------
(* Notices in a row *)

LEMMA RangeIs ==
    ASSUME NEW T, NEW q \in Seq(T)
    PROVE  /\ \A x : x \in Range(q) <=> \E k \in 1..Len(q) : q[k] = x
           /\ Range(q) \subseteq T
BY DEF Range

LEMMA RangeOfJoin ==
    ASSUME NEW T, NEW q \in Seq(T), NEW r \in Seq(T)
    PROVE  q \o r \in Seq(T) /\ Range(q \o r) = Range(q) \cup Range(r)
<1>1. PICK s : s = q \o r
  OBVIOUS
<1>2. /\ s \in Seq(T) /\ Len(s) = Len(q) + Len(r) /\ Len(q) \in Nat /\ Len(r) \in Nat
      /\ \A k \in 1..Len(q) : s[k] = q[k]
      /\ \A k \in 1..Len(r) : s[Len(q) + k] = r[k]
  BY <1>1
<1>3. ASSUME NEW x, x \in Range(s) PROVE x \in Range(q) \cup Range(r)
  <2>1. PICK k \in 1..Len(s) : s[k] = x
    BY <1>2, <1>3, RangeIs
  <2>2. CASE k <= Len(q)
    <3>1. k \in 1..Len(q) /\ q[k] = x
      BY <1>2, <2>1, <2>2
    <3> QED
      BY <3>1, RangeIs
  <2>3. CASE ~(k <= Len(q))
    <3>1. k - Len(q) \in 1..Len(r) /\ Len(q) + (k - Len(q)) = k
      BY <1>2, <2>3
    <3>2. r[k - Len(q)] = x
      BY <1>2, <2>1, <3>1
    <3> QED
      BY <3>1, <3>2, RangeIs
  <2> QED
    BY <2>2, <2>3
<1>4. ASSUME NEW x, x \in Range(q) PROVE x \in Range(s)
  <2>1. PICK k \in 1..Len(q) : q[k] = x
    BY <1>4, RangeIs
  <2>2. k \in 1..Len(s) /\ s[k] = x
    BY <1>2, <2>1
  <2> QED
    BY <1>2, <2>2, RangeIs
<1>5. ASSUME NEW x, x \in Range(r) PROVE x \in Range(s)
  <2>1. PICK k \in 1..Len(r) : r[k] = x
    BY <1>5, RangeIs
  <2>2. Len(q) + k \in 1..Len(s) /\ s[Len(q) + k] = x
    BY <1>2, <2>1
  <2> QED
    BY <1>2, <2>2, RangeIs
<1> QED
  BY <1>1, <1>2, <1>3, <1>4, <1>5

Note == [type : {"reply", "mention", "repost"}, sender : Profile,
         recipient : Local, post : PostId]

\* Its recipient learns of a note from it.
ByNote(n) == n.type \in {"reply", "mention"}

Key(n) == <<n.recipient, n.post>>

Distinct(s) ==
    \A i \in 1..Len(s), k \in 1..Len(s) :
        ByNote(s[i]) /\ ByNote(s[k]) /\ Key(s[i]) = Key(s[k]) => i = k

NoSelf(s) == \A i \in 1..Len(s) : s[i].sender # s[i].recipient

LEMMA SetToSeqOf ==
    ASSUME NEW S, IsFiniteSet(S)
    PROVE  /\ SetToSeq(S) \in Seq(S)
           /\ \A i \in 1..Len(SetToSeq(S)), k \in 1..Len(SetToSeq(S)) :
                 SetToSeq(S)[i] = SetToSeq(S)[k] => i = k
<1>1. PICK N : N = Cardinality(S)
  OBVIOUS
<1>2. N \in Nat /\ ExistsBijection(1..N, S)
  BY <1>1, FS_CardinalityType
<1>3. \E f \in [1..N -> S] : IsInjective(f)
  BY <1>2 DEF ExistsBijection, Bijection, Injection, IsInjective
<1>4. PICK q : q = SetToSeq(S)
  OBVIOUS
<1>5. q \in [1..N -> S] /\ IsInjective(q)
  BY <1>1, <1>3, <1>4 DEF SetToSeq
<1>6. q \in Seq(S) /\ Len(q) = N
  BY <1>2, <1>5
<1> QED
  BY <1>4, <1>5, <1>6 DEF IsInjective

\* The same notice to each of U.
Notices(type, a, U, p) == {Notice(type, a, u, p) : u \in U}

NoticesTo(q, type, a, U, p) ==
    /\ q \in Seq(Note)
    /\ \A i \in 1..Len(q) :
          q[i].type = type /\ q[i].sender = a /\ q[i].recipient \in U /\ q[i].post = p
    /\ \A i \in 1..Len(q), k \in 1..Len(q) : q[i].recipient = q[k].recipient => i = k

LEMMA NoticesAre ==
    ASSUME NEW type \in {"reply", "mention", "repost"}, NEW a \in Profile,
           NEW U \in SUBSET Local, NEW p \in PostId
    PROVE  NoticesTo(SetToSeq(Notices(type, a, U, p)), type, a, U, p)
<1>1. PICK S : S = Notices(type, a, U, p)
  OBVIOUS
<1>2. IsFiniteSet(U)
  BY MentionsAssumption, FS_Subset
<1>3. IsFiniteSet(S)
  <2> DEFINE f == [u \in U |-> Notice(type, a, u, p)]
  <2>1. f \in Surjection(U, S)
    BY <1>1 DEF Surjection, Notices
  <2> QED
    BY <1>2, <2>1, FS_Surjection
<1>4. ASSUME NEW n \in S
      PROVE  /\ n \in Note /\ n.type = type /\ n.sender = a
             /\ n.recipient \in U /\ n.post = p /\ n = Notice(type, a, n.recipient, p)
  BY <1>1, <1>4 DEF Notices, Notice, Note
<1>5. PICK q : q = SetToSeq(S)
  OBVIOUS
<1>6. /\ q \in Seq(S)
      /\ \A i \in 1..Len(q), k \in 1..Len(q) : q[i] = q[k] => i = k
  BY <1>3, <1>5, SetToSeqOf
<1>7. \A i \in 1..Len(q) : q[i] \in S
  BY <1>6
<1>8. q \in Seq(Note)
  <2>1. Len(q) \in Nat /\ q \in [1..Len(q) -> S]
    BY <1>6
  <2>2. q \in [1..Len(q) -> Note]
    BY <1>4, <2>1
  <2> QED
    BY <2>1, <2>2
<1>9. ASSUME NEW i \in 1..Len(q), NEW k \in 1..Len(q), q[i].recipient = q[k].recipient
      PROVE  i = k
  <2>1. q[i] = q[k]
    BY <1>4, <1>7, <1>9
  <2> QED
    BY <1>6, <2>1
<1> QED
  BY <1>1, <1>4, <1>5, <1>7, <1>8, <1>9 DEF NoticesTo

\* Notices of two sequences do not meet.
LEMMA JoinDistinct ==
    ASSUME NEW q \in Seq(Note), NEW r \in Seq(Note), Distinct(q), Distinct(r),
           \A i \in 1..Len(q), k \in 1..Len(r) :
               ByNote(q[i]) /\ ByNote(r[k]) => Key(q[i]) # Key(r[k])
    PROVE  Distinct(q \o r)
<1>1. PICK s : s = q \o r
  OBVIOUS
<1>2. /\ Len(s) = Len(q) + Len(r) /\ Len(q) \in Nat /\ Len(r) \in Nat
      /\ \A k \in 1..Len(q) : s[k] = q[k]
      /\ \A k \in 1..Len(s) : ~(k <= Len(q)) => k - Len(q) \in 1..Len(r) /\ s[k] = r[k - Len(q)]
  BY <1>1
<1>3. ASSUME NEW i \in 1..Len(s), NEW k \in 1..Len(s),
             ByNote(s[i]) /\ ByNote(s[k]) /\ Key(s[i]) = Key(s[k])
      PROVE  i = k
  <2>1. CASE i <= Len(q) /\ k <= Len(q)
    <3>1. i \in 1..Len(q) /\ k \in 1..Len(q)
      BY <1>2, <2>1
    <3> QED
      BY <1>2, <1>3, <3>1 DEF Distinct
  <2>2. CASE i <= Len(q) /\ ~(k <= Len(q))
    <3>1. i \in 1..Len(q) /\ k - Len(q) \in 1..Len(r) /\ s[i] = q[i] /\ s[k] = r[k - Len(q)]
      BY <1>2, <2>2
    <3> QED
      BY <1>3, <3>1
  <2>3. CASE ~(i <= Len(q)) /\ k <= Len(q)
    <3>1. k \in 1..Len(q) /\ i - Len(q) \in 1..Len(r) /\ s[k] = q[k] /\ s[i] = r[i - Len(q)]
      BY <1>2, <2>3
    <3> QED
      BY <1>3, <3>1
  <2>4. CASE ~(i <= Len(q)) /\ ~(k <= Len(q))
    <3>1. /\ i - Len(q) \in 1..Len(r) /\ s[i] = r[i - Len(q)]
          /\ k - Len(q) \in 1..Len(r) /\ s[k] = r[k - Len(q)]
      BY <1>2, <2>4
    <3>2. i - Len(q) = k - Len(q)
      BY <1>3, <3>1 DEF Distinct
    <3> QED
      BY <1>2, <3>2
  <2> QED
    BY <2>1, <2>2, <2>3, <2>4
<1> QED
  BY <1>1, <1>3 DEF Distinct

LEMMA JoinNoSelf ==
    ASSUME NEW q \in Seq(Note), NEW r \in Seq(Note), NoSelf(q), NoSelf(r)
    PROVE  NoSelf(q \o r)
<1>1. PICK s : s = q \o r
  OBVIOUS
<1>2. /\ Len(s) = Len(q) + Len(r) /\ Len(q) \in Nat /\ Len(r) \in Nat
      /\ \A k \in 1..Len(q) : s[k] = q[k]
      /\ \A k \in 1..Len(s) : ~(k <= Len(q)) => k - Len(q) \in 1..Len(r) /\ s[k] = r[k - Len(q)]
  BY <1>1
<1>3. ASSUME NEW i \in 1..Len(s) PROVE s[i].sender # s[i].recipient
  <2>1. CASE i <= Len(q)
    <3>1. i \in 1..Len(q)
      BY <1>2, <2>1
    <3> QED
      BY <1>2, <3>1 DEF NoSelf
  <2>2. CASE ~(i <= Len(q))
    BY <1>2, <2>2 DEF NoSelf
  <2> QED
    BY <2>1, <2>2
<1> QED
  BY <1>1, <1>3 DEF NoSelf

\* Selected rows are still distinct.
LEMMA WhereDistinct ==
    ASSUME NEW s \in Seq(Note), NEW kept
    PROVE  /\ Where(s, kept) \in Seq(Note)
           /\ Range(Where(s, kept)) = Range(s) \cap kept
           /\ Distinct(s) => Distinct(Where(s, kept))
           /\ NoSelf(s) => NoSelf(Where(s, kept))
<1>1. PICK r : r = Where(s, kept)
  OBVIOUS
<1>2. r \in Seq(Note) /\ RowsOf(r, s, Len(s), kept)
  BY <1>1, WhereRows
<1>3. PICK h \in [1..Len(r) -> 1..Len(s)] :
          /\ \A i \in 1..Len(r) : r[i] = s[h[i]] /\ r[i] \in kept
          /\ \A i \in 1..Len(r), k \in 1..Len(r) : h[i] = h[k] => i = k
  BY <1>2 DEF RowsOf
<1>4. \A k \in 1..Len(s) : s[k] \in kept => \E i \in 1..Len(r) : r[i] = s[k]
  BY <1>2 DEF RowsOf
<1>5. ASSUME NEW x, x \in Range(r) PROVE x \in Range(s) /\ x \in kept
  <2>1. PICK i \in 1..Len(r) : r[i] = x
    BY <1>2, <1>5, RangeIs
  <2>2. h[i] \in 1..Len(s) /\ s[h[i]] = x /\ x \in kept
    BY <1>3, <2>1
  <2> QED
    BY <2>2, RangeIs
<1>6. ASSUME NEW x, x \in Range(s), x \in kept PROVE x \in Range(r)
  <2>1. PICK k \in 1..Len(s) : s[k] = x
    BY <1>6, RangeIs
  <2> QED
    BY <1>2, <1>4, <1>6, <2>1, RangeIs
<1>7. ASSUME Distinct(s) PROVE Distinct(r)
  <2> SUFFICES ASSUME NEW i \in 1..Len(r), NEW k \in 1..Len(r),
                      ByNote(r[i]) /\ ByNote(r[k]) /\ Key(r[i]) = Key(r[k])
               PROVE  i = k
    BY DEF Distinct
  <2>1. r[i] = s[h[i]] /\ r[k] = s[h[k]] /\ h[i] \in 1..Len(s) /\ h[k] \in 1..Len(s)
    BY <1>3
  <2>2. h[i] = h[k]
    BY <1>7, <2>1 DEF Distinct
  <2> QED
    BY <1>3, <2>2
<1>8. ASSUME NoSelf(s) PROVE NoSelf(r)
  BY <1>3, <1>8 DEF NoSelf
<1> QED
  BY <1>1, <1>2, <1>5, <1>6, <1>7, <1>8

-----------------------------------------------------------------------------
(* Who is notified *)

Task == [running : BOOLEAN, batch : Seq(Note), private : SUBSET PostId,
         reposts : SUBSET (Local \X PostId), removed : SUBSET Note, notices : Seq(Note)]

MentionsTyped ==
    /\ made \in 0..MaxPosts
    /\ Ids \subseteq 1..made
    /\ notifications \in Seq(Note)
    /\ task \in Task
    /\ announced \in [Local \X PostId -> Nat]

NotifiedInv ==
    /\ Distinct(notifications) /\ NoSelf(notifications)
    /\ \A n \in Range(notifications) : ByNote(n) => n.post <= made
    /\ NoSelf(task.notices)
    /\ \A i \in 1..Len(task.notices) : ~ByNote(task.notices[i])

AnnouncedInv ==
    /\ \A n \in Range(notifications) : IsMention(n) => announced[Key(n)] = 0
    /\ \A n \in Range(task.batch) :
          /\ IsMention(n) /\ announced[Key(n)] = 0 /\ n.post <= made
          /\ n.post \in Ids => n \in Range(notifications)
    /\ \A n \in task.removed : IsMention(n) /\ n \in Range(notifications)
    /\ \A e \in task.reposts :
          announced[e] = 0 /\ e[2] <= made /\ \E n \in task.removed : Key(n) = e
    /\ \A e \in Local \X PostId : announced[e] > 0 => e[2] <= made

MentionsInv == MentionsTyped /\ NotifiedInv /\ AnnouncedInv

LEMMA MentionsIds ==
    ASSUME MentionsTyped
    PROVE  /\ made \in Nat /\ MaxPosts \in Nat /\ Ids \subseteq PostId
           /\ made < MaxPosts => made + 1 \in PostId /\ made + 1 \in 0..MaxPosts
BY MentionsAssumption DEF MentionsTyped, PostId

LEMMA NoTask ==
    /\ Idle \in Task /\ Idle.batch = <<>> /\ Idle.notices = <<>>
    /\ Idle.reposts = {} /\ Idle.removed = {}
    /\ Range(<<>>) = {} /\ NoSelf(<<>>) /\ Distinct(<<>>)
<1>1. Idle \in Task /\ Idle.batch = <<>> /\ Idle.notices = <<>> /\ Idle.reposts = {} /\ Idle.removed = {}
  <2>1. <<>> \in Seq(Note)
    OBVIOUS
  <2> QED
    BY <2>1 DEF Idle, Task
<1>2. 1..Len(<<>>) = {}
  OBVIOUS
<1>3. Range(<<>>) = {}
  <2>1. <<>> \in Seq(Note)
    OBVIOUS
  <2> QED
    BY <1>2, <2>1, RangeIs
<1> QED
  BY <1>1, <1>2, <1>3 DEF NoSelf, Distinct

LEMMA MentionsInitInv == MentionsInit => MentionsInv
<1> SUFFICES ASSUME MentionsInit PROVE MentionsInv
  OBVIOUS
<1>1. MentionsTyped
  <2>1. made = 0 /\ Ids = {} /\ notifications = <<>> /\ task = Idle
    BY DEF MentionsInit, Ids
  <2>2. announced \in [Local \X PostId -> Nat]
    BY DEF MentionsInit
  <2>3. made \in 0..MaxPosts
    BY <2>1, MentionsAssumption
  <2> QED
    BY <2>1, <2>2, <2>3, NoTask DEF MentionsTyped
<1>2. NotifiedInv
  BY NoTask DEF MentionsInit, NotifiedInv
<1>3. AnnouncedInv
  BY NoTask DEF MentionsInit, AnnouncedInv
<1> QED
  BY <1>1, <1>2, <1>3 DEF MentionsInv

\* Steps that leave all that the invariant speaks about as it is.
LEMMA QuietStep ==
    ASSUME MentionsInv, UNCHANGED <<posts, made, notifications, task, announced>>
    PROVE  MentionsInv'
BY DEF MentionsInv, MentionsTyped, NotifiedInv, AnnouncedInv, Ids

\* A note has a new id: nothing that it makes was there before.
LEMMA ReplyNoticesAre ==
    ASSUME NEW a \in Profile, NEW p \in PostId, NEW parent, NEW mentions
    PROVE  LET q == ReplyNotices(a, p, parent, mentions)
           IN  /\ q \in Seq(Note) /\ Distinct(q) /\ NoSelf(q)
               /\ \A n \in Range(q) :
                     /\ n.post = p
                     /\ n.recipient \in mentions \/ (parent # None /\ n.recipient = posts[parent].author)
<1> DEFINE to == {posts[x].author : x \in {parent} \ {None}} \cap (Local \ {a})
           rest == {m \in mentions \cap (Local \ ({a} \cup to)) : ~Muted(m, a)}
           replied == SetToSeq(Notices("reply", a, to, p))
           named == SetToSeq(Notices("mention", a, rest, p))
<1>1. ReplyNotices(a, p, parent, mentions) = replied \o named
  BY DEF ReplyNotices, Notices, ReplyNotice, MentionNotice
<1>2. NoticesTo(replied, "reply", a, to, p)
  BY NoticesAre
<1>3. NoticesTo(named, "mention", a, rest, p)
  BY NoticesAre
<1>4. /\ to \cap rest = {} /\ a \notin to /\ a \notin rest
      /\ rest \subseteq mentions
      /\ \A u \in to : parent # None /\ u = posts[parent].author
  OBVIOUS
<1> HIDE DEF to, rest, replied, named
<1>5. /\ Distinct(replied) /\ NoSelf(replied)
      /\ \A n \in Range(replied) : n.post = p /\ n.recipient \in to
  BY <1>2, <1>4, RangeIs DEF NoticesTo, Distinct, NoSelf, Key
<1>6. /\ Distinct(named) /\ NoSelf(named)
      /\ \A n \in Range(named) : n.post = p /\ n.recipient \in rest
  BY <1>3, <1>4, RangeIs DEF NoticesTo, Distinct, NoSelf, Key
<1>7. replied \in Seq(Note) /\ named \in Seq(Note)
  BY <1>2, <1>3 DEF NoticesTo
<1>8. \A i \in 1..Len(replied), k \in 1..Len(named) : Key(replied[i]) # Key(named[k])
  BY <1>2, <1>3, <1>4 DEF NoticesTo, Key
<1>9. Range(replied \o named) = Range(replied) \cup Range(named)
  BY <1>7, RangeOfJoin
<1>10. \A n \in Range(replied \o named) :
          /\ n.post = p
          /\ n.recipient \in mentions \/ (parent # None /\ n.recipient = posts[parent].author)
  BY <1>4, <1>5, <1>6, <1>9
<1> QED
  BY <1>1, <1>5, <1>6, <1>7, <1>8, <1>10, JoinDistinct, JoinNoSelf

LEMMA RepostNoticesAre ==
    ASSUME NEW a \in Profile, NEW p \in PostId
    PROVE  LET q == RepostNotices(a, p)
           IN  /\ q \in Seq(Note) /\ NoSelf(q)
               /\ \A i \in 1..Len(q) : q[i].type = "repost"
               /\ \A n \in Range(q) : n.post = p /\ n.recipient = posts[p].author
<1> DEFINE U == {m \in {posts[p].author} \cap (Local \ {a}) : ~Muted(m, a)}
           q == SetToSeq(Notices("repost", a, U, p))
<1>1. RepostNotices(a, p) = q
  BY DEF RepostNotices, Notices, RepostNotice
<1>2. NoticesTo(q, "repost", a, U, p)
  BY NoticesAre
<1>3. a \notin U /\ \A u \in U : u = posts[p].author
  OBVIOUS
<1> HIDE DEF U, q
<1>4. \A n \in Range(q) : n.post = p /\ n.recipient = posts[p].author
  BY <1>2, <1>3, RangeIs DEF NoticesTo
<1> QED
  BY <1>1, <1>2, <1>3, <1>4 DEF NoticesTo, NoSelf

LEMMA CreateNoteInv ==
    ASSUME MentionsInv, NEW a \in Profile, NEW parent, NEW public, NEW mentions,
           CreateNote(a, parent, public, mentions)
    PROVE  MentionsInv'
<1>1. PICK p : p = made + 1
  OBVIOUS
<1>2. PICK q : q = ReplyNotices(a, p, parent, mentions)
  OBVIOUS
<1>3. MentionsTyped /\ NotifiedInv /\ AnnouncedInv
  BY DEF MentionsInv
<1>4. /\ made < MaxPosts /\ made' = p /\ notifications' = notifications \o q
      /\ task' = task /\ announced' = announced /\ Ids' = Ids \cup {p}
  BY <1>1, <1>2 DEF CreateNote, Ids
<1>5. made \in Nat /\ p \in PostId /\ p \in 0..MaxPosts /\ p \notin Ids /\ Ids \subseteq 1..made
  BY <1>1, <1>3, <1>4, MentionsIds DEF MentionsTyped
<1>6. /\ q \in Seq(Note) /\ Distinct(q) /\ NoSelf(q)
      /\ \A n \in Range(q) : n.post = p
  BY <1>2, <1>5, ReplyNoticesAre
<1>7. notifications \in Seq(Note)
  BY <1>3 DEF MentionsTyped
<1>8. notifications' \in Seq(Note) /\ Range(notifications') = Range(notifications) \cup Range(q)
  BY <1>4, <1>6, <1>7, RangeOfJoin
<1>9. MentionsTyped'
  BY <1>1, <1>3, <1>4, <1>5, <1>8 DEF MentionsTyped
<1>10. Range(notifications) \subseteq Note /\ Range(q) \subseteq Note
  BY <1>6, <1>7, RangeIs
<1>11. NotifiedInv'
  <2>1. ASSUME NEW i \in 1..Len(notifications), NEW k \in 1..Len(q),
               ByNote(notifications[i]), Key(notifications[i]) = Key(q[k])
        PROVE  FALSE
    <3>1. notifications[i] \in Range(notifications) /\ q[k] \in Range(q)
      BY <1>6, <1>7, RangeIs
    <3>2. notifications[i].post <= made /\ q[k].post = p
      BY <1>3, <1>6, <2>1, <3>1 DEF NotifiedInv
    <3> QED
      BY <1>1, <1>5, <2>1, <3>2 DEF Key
  <2>2. Distinct(notifications') /\ NoSelf(notifications')
    BY <1>3, <1>4, <1>6, <1>7, <2>1, JoinDistinct, JoinNoSelf DEF NotifiedInv
  <2>3. ASSUME NEW n \in Range(notifications'), ByNote(n) PROVE n.post <= made'
    <3>1. CASE n \in Range(notifications)
      <4>1. n.post <= made /\ n.post \in Nat
        BY <1>3, <1>10, <2>3, <3>1 DEF NotifiedInv, Note, PostId
      <4> QED
        BY <1>1, <1>4, <1>5, <4>1
    <3>2. CASE n \in Range(q)
      BY <1>1, <1>4, <1>5, <1>6, <3>2
    <3> QED
      BY <1>8, <2>3, <3>1, <3>2
  <2> QED
    BY <1>3, <1>4, <2>2, <2>3 DEF NotifiedInv
<1>12. AnnouncedInv'
  <2>1. ASSUME NEW n \in Range(notifications'), IsMention(n) PROVE announced[Key(n)] = 0
    <3>1. CASE n \in Range(notifications)
      BY <1>3, <2>1, <3>1 DEF AnnouncedInv
    <3>2. CASE n \in Range(q)
      <4>1. PICK e : e = Key(n)
        OBVIOUS
      <4>2. e \in Local \X PostId /\ e[2] = p
        BY <1>6, <1>10, <3>2, <4>1 DEF Key, Note
      <4>3. announced[e] \in Nat /\ ~(e[2] <= made)
        BY <1>1, <1>3, <1>5, <4>2 DEF MentionsTyped
      <4> QED
        BY <1>3, <4>1, <4>2, <4>3 DEF AnnouncedInv
    <3> QED
      BY <1>8, <2>1, <3>1, <3>2
  <2>2. ASSUME NEW n \in Range(task.batch)
        PROVE  /\ IsMention(n) /\ announced[Key(n)] = 0 /\ n.post <= made'
               /\ n.post \in Ids' => n \in Range(notifications')
    <3>1. /\ IsMention(n) /\ announced[Key(n)] = 0 /\ n.post <= made
          /\ n.post \in Ids => n \in Range(notifications)
      BY <1>3 DEF AnnouncedInv
    <3>2. n \in Note
      BY <1>3, RangeIs DEF MentionsTyped, Task
    <3>3. n.post \in Nat
      BY <3>2 DEF Note, PostId
    <3>4. n.post <= made' /\ n.post # p
      BY <1>1, <1>4, <1>5, <3>1, <3>3
    <3> QED
      BY <1>4, <1>8, <3>1, <3>4
  <2>3. \A n \in task.removed : IsMention(n) /\ n \in Range(notifications')
    BY <1>3, <1>8 DEF AnnouncedInv
  <2>4. \A e \in Local \X PostId : e[2] <= made => e[2] <= made'
    <3>1. TAKE e \in Local \X PostId
    <3>2. e[2] \in Nat
      BY DEF PostId
    <3> QED
      BY <1>1, <1>4, <1>5, <3>2
  <2>5. task.reposts \subseteq Local \X PostId
    BY <1>3 DEF MentionsTyped, Task
  <2>6. \A e \in task.reposts :
          announced[e] = 0 /\ e[2] <= made' /\ \E n \in task.removed : Key(n) = e
    BY <1>3, <2>4, <2>5 DEF AnnouncedInv
  <2>7. \A e \in Local \X PostId : announced[e] > 0 => e[2] <= made'
    BY <1>3, <2>4 DEF AnnouncedInv
  <2> QED
    BY <1>4, <2>1, <2>2, <2>3, <2>6, <2>7 DEF AnnouncedInv
<1> QED
  BY <1>9, <1>11, <1>12 DEF MentionsInv

\* Notices of reposts do no harm, whoever sends them.
LEMMA RepostInv ==
    ASSUME MentionsInv, NEW a \in Profile, NEW p \in Ids, Repost(a, p)
    PROVE  MentionsInv'
<1>1. PICK q : q = RepostNotices(a, p)
  OBVIOUS
<1>2. MentionsTyped /\ NotifiedInv /\ AnnouncedInv
  BY DEF MentionsInv
<1>3. /\ notifications' = notifications \o q /\ made' = made
      /\ task' = task /\ announced' = announced /\ Ids' = Ids
  BY <1>1 DEF Repost, Ids
<1>4. p \in PostId
  BY <1>2, MentionsIds
<1>5. /\ q \in Seq(Note) /\ NoSelf(q)
      /\ \A i \in 1..Len(q) : q[i].type = "repost"
  BY <1>1, <1>4, RepostNoticesAre
<1>6. notifications \in Seq(Note)
  BY <1>2 DEF MentionsTyped
<1>7. notifications' \in Seq(Note) /\ Range(notifications') = Range(notifications) \cup Range(q)
  BY <1>3, <1>5, <1>6, RangeOfJoin
<1>8. \A i \in 1..Len(q) : ~ByNote(q[i])
  BY <1>5 DEF ByNote
<1>9. \A n \in Range(q) : ~ByNote(n) /\ ~IsMention(n)
  BY <1>5, RangeIs DEF ByNote, IsMention
<1>10. Distinct(notifications') /\ NoSelf(notifications')
  BY <1>2, <1>3, <1>5, <1>6, <1>8, JoinDistinct, JoinNoSelf DEF NotifiedInv, Distinct
<1>11. MentionsTyped'
  BY <1>2, <1>3, <1>7 DEF MentionsTyped
<1>12. NotifiedInv'
  BY <1>2, <1>3, <1>7, <1>9, <1>10 DEF NotifiedInv
<1>13. AnnouncedInv'
  BY <1>2, <1>3, <1>7, <1>9 DEF AnnouncedInv
<1> QED
  BY <1>11, <1>12, <1>13 DEF MentionsInv

LEMMA DeletePostInv ==
    ASSUME MentionsInv, NEW p \in Ids, DeletePost(p)
    PROVE  MentionsInv'
<1>1. PICK gone : gone = Below(p)
  OBVIOUS
<1>2. PICK kept : kept = {n \in Range(notifications) : n.post \notin gone}
  OBVIOUS
<1>3. MentionsTyped /\ NotifiedInv /\ AnnouncedInv
  BY DEF MentionsInv
<1>4. /\ notifications' = Where(notifications, kept) /\ made' = made
      /\ task' = task /\ announced' = announced /\ Ids' = Ids \ gone
      /\ \A n \in task.removed : n.post \notin gone
  BY <1>1, <1>2 DEF DeletePost, Ids
<1>5. notifications \in Seq(Note)
  BY <1>3 DEF MentionsTyped
<1>6. /\ notifications' \in Seq(Note)
      /\ Range(notifications') = {n \in Range(notifications) : n.post \notin gone}
      /\ Distinct(notifications') /\ NoSelf(notifications')
  BY <1>2, <1>3, <1>4, <1>5, WhereDistinct DEF NotifiedInv
<1>7. MentionsTyped'
  BY <1>3, <1>4, <1>6 DEF MentionsTyped
<1>8. NotifiedInv'
  BY <1>3, <1>4, <1>6 DEF NotifiedInv
<1>9. AnnouncedInv'
  BY <1>3, <1>4, <1>6 DEF AnnouncedInv
<1> QED
  BY <1>7, <1>8, <1>9 DEF MentionsInv

-----------------------------------------------------------------------------
(* The task *)

LEMMA NewestAre ==
    ASSUME notifications \in Seq(Note)
    PROVE  /\ Newest \in Seq(Note)
           /\ \A n \in Range(Newest) : n \in Range(notifications) /\ IsMention(n)
<1> DEFINE kept == {n \in Range(notifications) : IsMention(n)}
           rows1 == Where(notifications, kept)
           last == Reverse(rows1)
           N == IF Len(last) < Batch THEN Len(last) ELSE Batch
<1>1. rows1 \in Seq(Note) /\ Range(rows1) = kept
  BY WhereDistinct
<1>2. Newest = SubSeq(last, 1, N)
  BY DEF Newest
<1>3. last = [i \in 1..Len(rows1) |-> rows1[(Len(rows1) - i) + 1]]
  BY DEF Reverse
<1> HIDE DEF kept, rows1
<1>4. /\ Len(rows1) \in Nat
      /\ \A i \in 1..Len(rows1) : (Len(rows1) - i) + 1 \in 1..Len(rows1)
  BY <1>1
<1>5. \A i \in 1..Len(rows1) : last[i] \in kept /\ last[i] \in Note
  BY <1>1, <1>3, <1>4, RangeIs
<1> HIDE DEF last
<1>6. last \in Seq(Note) /\ Len(last) = Len(rows1)
  <2>1. last \in [1..Len(rows1) -> Note]
    BY <1>3, <1>5
  <2> QED
    BY <1>4, <2>1
<1>7. N \in Nat /\ N <= Len(last)
  BY <1>4, <1>6, MentionsAssumption
<1> HIDE DEF N
<1>8. PICK q : q = SubSeq(last, 1, N)
  OBVIOUS
<1>9. q \in Seq(Note) /\ Len(q) = N /\ \A i \in 1..N : q[i] = last[i]
  <2>1. \A i \in 1..N : last[i] \in Note
    BY <1>4, <1>5, <1>6, <1>7
  <2>2. q = [i \in 1..N |-> last[i]]
    BY <1>6, <1>7, <1>8
  <2> QED
    BY <1>7, <2>1, <2>2
<1>10. ASSUME NEW n \in Range(q) PROVE n \in kept
  <2>1. PICK i \in 1..N : q[i] = n
    BY <1>9, RangeIs
  <2>2. i \in 1..Len(rows1)
    BY <1>4, <1>6, <1>7
  <2> QED
    BY <1>5, <1>9, <2>1, <2>2
<1> QED
  BY <1>2, <1>8, <1>9, <1>10 DEF kept

LEMMA TaskReadsInv ==
    ASSUME MentionsInv, TaskReads
    PROVE  MentionsInv'
<1>1. MentionsTyped /\ NotifiedInv /\ AnnouncedInv
  BY DEF MentionsInv
<1>2. PICK q : q = Newest
  OBVIOUS
<1>0. PICK w : w = {n.post : n \in {m \in Range(q) : ~posts[m.post].public}}
  OBVIOUS
<1>3. /\ task' = [Idle EXCEPT !.running = TRUE, !.batch = q, !.private = w]
      /\ UNCHANGED <<posts, made, notifications, announced>>
  BY <1>0, <1>2 DEF TaskReads, rows
<1>4. notifications \in Seq(Note)
  BY <1>1 DEF MentionsTyped
<1>5. q \in Seq(Note) /\ \A n \in Range(q) : n \in Range(notifications) /\ IsMention(n)
  BY <1>2, <1>4, NewestAre
<1>6. /\ task' \in Task /\ task'.batch = q /\ task'.notices = <<>>
      /\ task'.reposts = {} /\ task'.removed = {}
  <2>1. task' = [running |-> TRUE, batch |-> q, private |-> w,
                 reposts |-> {}, removed |-> {}, notices |-> <<>>]
    BY <1>3 DEF Idle
  <2>2. <<>> \in Seq(Note)
    OBVIOUS
  <2>3. \A n \in Range(q) : n \in Note
    BY <1>5, RangeIs
  <2>4. w \in SUBSET PostId
    BY <1>0, <2>3 DEF Note
  <2> QED
    BY <1>5, <2>1, <2>2, <2>4 DEF Task
<1>7. MentionsTyped'
  BY <1>1, <1>3, <1>6 DEF MentionsTyped, Ids
<1>8. NotifiedInv'
  BY <1>1, <1>3, <1>6, NoTask DEF NotifiedInv
<1>9. AnnouncedInv'
  <2>1. ASSUME NEW n \in Range(q)
        PROVE  /\ IsMention(n) /\ announced[Key(n)] = 0 /\ n.post <= made
               /\ n.post \in Ids => n \in Range(notifications)
    BY <1>1, <1>5, <2>1 DEF AnnouncedInv, NotifiedInv, ByNote, IsMention
  <2> QED
    BY <1>1, <1>3, <1>6, <2>1 DEF AnnouncedInv, Ids
<1> QED
  BY <1>7, <1>8, <1>9 DEF MentionsInv

\* The rest of the batch.
LEMMA BatchTail ==
    ASSUME NEW q \in Seq(Note), q # <<>>
    PROVE  /\ Tail(q) \in Seq(Note) /\ Range(Tail(q)) \subseteq Range(q)
           /\ Head(q) \in Range(q) /\ Head(q) \in Note
<1> DEFINE r == Tail(q)
<1>1. /\ r \in Seq(Note) /\ Len(r) = Len(q) - 1 /\ Len(q) \in Nat \ {0}
      /\ \A k \in 1..Len(r) : r[k] = q[k + 1]
      /\ Head(q) = q[1]
  BY HeadTailProperties
<1> HIDE DEF r
<1>2. Head(q) \in Range(q)
  <2>1. 1 \in 1..Len(q)
    BY <1>1
  <2> QED
    BY <1>1, <2>1, RangeIs
<1>3. ASSUME NEW x \in Range(r) PROVE x \in Range(q)
  <2>1. PICK k \in 1..Len(r) : r[k] = x
    BY <1>1, RangeIs
  <2>2. k + 1 \in 1..Len(q) /\ q[k + 1] = x
    BY <1>1, <2>1
  <2> QED
    BY <2>2, RangeIs
<1> QED
  BY <1>1, <1>2, <1>3, RangeIs DEF r

LEMMA TaskSkipsInv ==
    ASSUME MentionsInv, TaskSkips
    PROVE  MentionsInv'
<1>1. MentionsTyped /\ NotifiedInv /\ AnnouncedInv
  BY DEF MentionsInv
<1>2. /\ task.batch # <<>> /\ task' = [task EXCEPT !.batch = Tail(@)]
      /\ UNCHANGED <<posts, made, notifications, announced>>
  BY DEF TaskSkips, rows
<1>3. task.batch \in Seq(Note) /\ task \in Task
  BY <1>1 DEF MentionsTyped, Task
<1>4. Tail(task.batch) \in Seq(Note) /\ Range(Tail(task.batch)) \subseteq Range(task.batch)
  BY <1>2, <1>3, BatchTail
<1>5. /\ task' \in Task /\ task'.batch = Tail(task.batch) /\ task'.notices = task.notices
      /\ task'.reposts = task.reposts /\ task'.removed = task.removed
  BY <1>2, <1>3, <1>4 DEF Task
<1>6. MentionsTyped'
  BY <1>1, <1>2, <1>5 DEF MentionsTyped, Ids
<1>7. NotifiedInv'
  BY <1>1, <1>2, <1>5 DEF NotifiedInv
<1>8. AnnouncedInv'
  BY <1>1, <1>2, <1>4, <1>5 DEF AnnouncedInv, Ids
<1> QED
  BY <1>6, <1>7, <1>8 DEF MentionsInv

LEMMA TaskRepostsInv ==
    ASSUME MentionsInv, TaskReposts
    PROVE  MentionsInv'
<1>1. MentionsTyped /\ NotifiedInv /\ AnnouncedInv
  BY DEF MentionsInv
<1>2. PICK n : n = Head(task.batch)
  OBVIOUS
<1>3. PICK e : e = Key(n)
  OBVIOUS
<1>4. PICK q : q = IF e \in reposts THEN <<>> ELSE RepostNotices(n.recipient, n.post)
  OBVIOUS
<1>5. PICK new : new = {e} \ reposts
  OBVIOUS
<1>6. /\ task.batch # <<>> /\ n.post \in Ids
      /\ task' = [task EXCEPT !.batch = Tail(@), !.removed = @ \cup {n},
                              !.reposts = @ \cup new, !.notices = @ \o q]
      /\ UNCHANGED <<posts, made, notifications, announced>>
  BY <1>2, <1>3, <1>4, <1>5 DEF TaskReposts, Key, rows
<1>7. task.batch \in Seq(Note) /\ task.notices \in Seq(Note) /\ task \in Task
  BY <1>1 DEF MentionsTyped, Task
<1>8. /\ Tail(task.batch) \in Seq(Note) /\ Range(Tail(task.batch)) \subseteq Range(task.batch)
      /\ n \in Range(task.batch) /\ n \in Note
  BY <1>2, <1>6, <1>7, BatchTail
<1>9. e \in Local \X PostId /\ e[2] = n.post /\ new \subseteq {e}
  BY <1>3, <1>5, <1>8 DEF Key, Note
<1>10. q \in Seq(Note) /\ NoSelf(q) /\ \A i \in 1..Len(q) : ~ByNote(q[i])
  <2>1. CASE e \in reposts
    <3>1. q = <<>> /\ 1..Len(<<>>) = {}
      BY <1>4, <2>1
    <3> QED
      BY <3>1, NoTask
  <2>2. CASE e \notin reposts
    <3>1. n.recipient \in Profile /\ n.post \in PostId
      BY <1>8, MentionsAssumption DEF Note
    <3> QED
      BY <1>4, <2>2, <3>1, RepostNoticesAre DEF ByNote
  <2> QED
    BY <2>1, <2>2
<1>11. task.notices \o q \in Seq(Note) /\ NoSelf(task.notices \o q)
  BY <1>1, <1>7, <1>10, JoinNoSelf DEF NotifiedInv
<1>12. ASSUME NEW i \in 1..Len(task.notices \o q) PROVE ~ByNote((task.notices \o q)[i])
  <2>1. i \in 1..Len(task.notices) \/ i - Len(task.notices) \in 1..Len(q)
    BY <1>7, <1>10
  <2>2. CASE i \in 1..Len(task.notices)
    BY <1>1, <1>7, <1>10, <2>2 DEF NotifiedInv
  <2>3. CASE i \notin 1..Len(task.notices)
    <3>1. /\ i - Len(task.notices) \in 1..Len(q)
          /\ (task.notices \o q)[i] = q[i - Len(task.notices)]
      BY <1>7, <1>10, <2>1, <2>3
    <3> QED
      BY <1>10, <3>1
  <2> QED
    BY <2>2, <2>3
<1>13. /\ task' \in Task /\ task'.batch = Tail(task.batch)
       /\ task'.notices = task.notices \o q
       /\ task'.reposts = task.reposts \cup new
       /\ task'.removed = task.removed \cup {n}
  BY <1>6, <1>7, <1>8, <1>9, <1>11 DEF Task
<1>14. MentionsTyped'
  BY <1>1, <1>6, <1>13 DEF MentionsTyped, Ids
<1>15. NotifiedInv'
  BY <1>1, <1>6, <1>11, <1>12, <1>13 DEF NotifiedInv
<1>16. AnnouncedInv'
  <2>1. IsMention(n) /\ announced[e] = 0 /\ e[2] <= made /\ n \in Range(notifications)
    BY <1>1, <1>3, <1>6, <1>8, <1>9 DEF AnnouncedInv
  <2>2. \A x \in task.removed \cup {n} : IsMention(x) /\ x \in Range(notifications)
    BY <1>1, <2>1 DEF AnnouncedInv
  <2>3. ASSUME NEW x \in task.reposts \cup new
        PROVE  /\ announced[x] = 0 /\ x[2] <= made
               /\ \E m \in task.removed \cup {n} : Key(m) = x
    <3>1. CASE x \in task.reposts
      BY <1>1, <3>1 DEF AnnouncedInv
    <3>2. CASE x = e
      BY <1>3, <2>1, <3>2
    <3> QED
      BY <1>9, <2>3, <3>1, <3>2
  <2> QED
    BY <1>1, <1>6, <1>8, <1>13, <2>2, <2>3 DEF AnnouncedInv, Ids
<1> QED
  BY <1>14, <1>15, <1>16 DEF MentionsInv

\* What is announced by a commit.
LEMMA TaskCommitAnnounces ==
    ASSUME MentionsInv, TaskCommits
    PROVE  /\ announced' \in [Local \X PostId -> Nat]
           /\ \A e \in Local \X PostId :
                 IF e \in task.reposts THEN announced[e] = 0 /\ announced'[e] = 1 /\ e \in reposts'
                 ELSE announced'[e] = announced[e]
<1>1. /\ announced \in [Local \X PostId -> Nat]
      /\ announced' = [e \in DOMAIN announced |->
            IF e \in task.reposts THEN announced[e] + 1 ELSE announced[e]]
      /\ reposts' = reposts \cup task.reposts
  BY DEF MentionsInv, MentionsTyped, TaskCommits
<1>2. \A e \in task.reposts : announced[e] = 0
  BY DEF MentionsInv, AnnouncedInv
<1> QED
  BY <1>1, <1>2

LEMMA TaskCommitsInv ==
    ASSUME MentionsInv, TaskCommits
    PROVE  MentionsInv'
<1>1. MentionsTyped /\ NotifiedInv /\ AnnouncedInv
  BY DEF MentionsInv
<1>2. PICK stays : stays = Where(notifications, Range(notifications) \ task.removed)
  OBVIOUS
<1>3. /\ notifications' = stays \o task.notices /\ task' = Idle
      /\ UNCHANGED <<posts, made>>
  BY <1>2 DEF TaskCommits
<1>4. notifications \in Seq(Note) /\ task.notices \in Seq(Note) /\ task \in Task
  BY <1>1 DEF MentionsTyped, Task
<1>5. /\ stays \in Seq(Note) /\ Range(stays) = Range(notifications) \ task.removed
      /\ Distinct(stays) /\ NoSelf(stays)
  BY <1>1, <1>2, <1>4, WhereDistinct DEF NotifiedInv
<1>6. /\ notifications' \in Seq(Note)
      /\ Range(notifications') = Range(stays) \cup Range(task.notices)
  BY <1>3, <1>4, <1>5, RangeOfJoin
<1>7. \A n \in Range(task.notices) : ~ByNote(n) /\ ~IsMention(n)
  BY <1>1, <1>4, RangeIs DEF NotifiedInv, ByNote, IsMention
<1>8. Distinct(notifications') /\ NoSelf(notifications')
  BY <1>1, <1>3, <1>4, <1>5, JoinDistinct, JoinNoSelf DEF NotifiedInv, Distinct
<1>9. MentionsTyped'
  BY <1>1, <1>3, <1>6, NoTask, TaskCommitAnnounces DEF MentionsTyped, Ids
<1>10. NotifiedInv'
  BY <1>1, <1>3, <1>5, <1>6, <1>7, <1>8, NoTask DEF NotifiedInv
<1>11. AnnouncedInv'
  <2>1. ASSUME NEW n \in Range(notifications'), IsMention(n) PROVE announced'[Key(n)] = 0
    <3>1. n \in Range(notifications) /\ n \notin task.removed
      BY <1>5, <1>6, <1>7, <2>1
    <3>2. n \in Note
      BY <1>4, <3>1, RangeIs
    <3>3. PICK e : e = Key(n)
      OBVIOUS
    <3>4. e \in Local \X PostId
      BY <3>2, <3>3 DEF Key, Note
    <3>5. e \notin task.reposts
      <4> SUFFICES ASSUME e \in task.reposts PROVE FALSE
        OBVIOUS
      <4>1. PICK m \in task.removed : Key(m) = e
        BY <1>1 DEF AnnouncedInv
      <4>2. m \in Range(notifications) /\ IsMention(m)
        BY <1>1, <4>1 DEF AnnouncedInv
      <4>3. PICK i \in 1..Len(notifications) : notifications[i] = n
        BY <1>4, <3>1, RangeIs
      <4>4. PICK k \in 1..Len(notifications) : notifications[k] = m
        BY <1>4, <4>2, RangeIs
      <4>5. i = k
        BY <1>1, <2>1, <3>3, <4>1, <4>2, <4>3, <4>4 DEF NotifiedInv, Distinct, IsMention, ByNote
      <4> QED
        BY <3>1, <4>1, <4>3, <4>4, <4>5
    <3>6. announced[e] = 0
      BY <1>1, <2>1, <3>1, <3>3 DEF AnnouncedInv
    <3> QED
      BY <3>3, <3>4, <3>5, <3>6, TaskCommitAnnounces
  <2>2. ASSUME NEW e \in Local \X PostId, announced'[e] > 0 PROVE e[2] <= made'
    <3>1. CASE e \in task.reposts
      BY <1>1, <1>3, <3>1 DEF AnnouncedInv
    <3>2. CASE e \notin task.reposts
      BY <1>1, <1>3, <2>2, <3>2, TaskCommitAnnounces DEF AnnouncedInv
    <3> QED
      BY <3>1, <3>2
  <2> QED
    BY <1>3, <2>1, <2>2, NoTask DEF AnnouncedInv
<1> QED
  BY <1>9, <1>10, <1>11 DEF MentionsInv

\* A rollback forgets all that the task has done.
LEMMA TaskEndsInv ==
    ASSUME MentionsInv, task' = Idle, UNCHANGED <<posts, made, notifications, announced>>
    PROVE  MentionsInv'
<1>1. MentionsTyped /\ NotifiedInv /\ AnnouncedInv
  BY DEF MentionsInv
<1>2. MentionsTyped'
  BY <1>1, NoTask DEF MentionsTyped, Ids
<1>3. NotifiedInv'
  BY <1>1, NoTask DEF NotifiedInv
<1>4. AnnouncedInv'
  BY <1>1, NoTask DEF AnnouncedInv, Ids
<1> QED
  BY <1>2, <1>3, <1>4 DEF MentionsInv

LEMMA MentionsNextInv == MentionsInv /\ [MentionsNext]_mentionsVars => MentionsInv'
<1> SUFFICES ASSUME MentionsInv, [MentionsNext]_mentionsVars PROVE MentionsInv'
  OBVIOUS
<1>1. ASSUME NEW a \in Writers, NEW parent, NEW public, NEW mentions,
             CreateNote(a, parent, public, mentions)
      PROVE  MentionsInv'
  BY <1>1, CreateNoteInv, MentionsAssumption
<1>2. ASSUME NEW a \in Writers, NEW p \in Ids, Repost(a, p) PROVE MentionsInv'
  BY <1>2, RepostInv, MentionsAssumption
<1>3. ASSUME NEW a, NEW p, UndoRepost(a, p) PROVE MentionsInv'
  BY <1>3, QuietStep DEF UndoRepost
<1>4. ASSUME NEW u, LookupAndCreateMovieUser(u) PROVE MentionsInv'
  BY <1>4, QuietStep DEF LookupAndCreateMovieUser
<1>5. ASSUME NEW p \in Ids, DeletePost(p) PROVE MentionsInv'
  BY <1>5, DeletePostInv
<1>6. ASSUME NEW u, NEW a, Mute(u, a) \/ Unmute(u, a) PROVE MentionsInv'
  BY <1>6, QuietStep DEF Mute, Unmute
<1>7. CASE TaskReads
  BY <1>7, TaskReadsInv
<1>8. CASE TaskSkips
  BY <1>8, TaskSkipsInv
<1>9. CASE TaskReposts
  BY <1>9, TaskRepostsInv
<1>10. CASE TaskCommits
  BY <1>10, TaskCommitsInv
<1>11. CASE TaskAborts
  BY <1>11, TaskEndsInv DEF TaskAborts, rows
<1>12. CASE TaskCrashes
  BY <1>12, TaskEndsInv DEF TaskCrashes, rows
<1>13. CASE UNCHANGED mentionsVars
  BY <1>13, QuietStep DEF mentionsVars, rows
<1> QED
  BY <1>1, <1>2, <1>3, <1>4, <1>5, <1>6, <1>7, <1>8, <1>9, <1>10, <1>11, <1>12, <1>13
  DEF MentionsNext

LEMMA InvNotifiedOnce == MentionsInv => NotifiedOnce
<1> SUFFICES ASSUME MentionsInv, NEW u \in Local
             PROVE  LET list == Notifications(u)
                    IN  \A i, k \in DOMAIN list :
                            /\ list[i].sender # u
                            /\ {list[i].type, list[k].type} \subseteq {"reply", "mention"}
                               /\ list[i].post = list[k].post => i = k
  BY DEF NotifiedOnce
<1>1. PICK kept : kept = {n \in Range(notifications) : n.recipient = u}
  OBVIOUS
<1>2. PICK r : r = Where(notifications, kept)
  OBVIOUS
<1>3. notifications \in Seq(Note) /\ Distinct(notifications) /\ NoSelf(notifications)
  BY DEF MentionsInv, MentionsTyped, NotifiedInv
<1>4. /\ r \in Seq(Note) /\ Range(r) \subseteq kept
      /\ Distinct(r) /\ NoSelf(r)
  BY <1>1, <1>2, <1>3, WhereDistinct
<1>5. PICK list : list = Notifications(u)
  OBVIOUS
<1>6. list = [i \in 1..Len(r) |-> r[(Len(r) - i) + 1]]
  BY <1>1, <1>2, <1>5 DEF Notifications, Reverse
<1>7. \A i \in 1..Len(r) : r[i].recipient = u /\ r[i].sender # u
  BY <1>1, <1>4, RangeIs DEF NoSelf
<1>8. Len(r) \in Nat /\ DOMAIN list = 1..Len(r)
  BY <1>4, <1>6
<1>9. ASSUME NEW i \in DOMAIN list, NEW k \in DOMAIN list
      PROVE  /\ list[i].sender # u
             /\ {list[i].type, list[k].type} \subseteq {"reply", "mention"}
                /\ list[i].post = list[k].post => i = k
  <2>1. PICK x : x = (Len(r) - i) + 1
    OBVIOUS
  <2>2. PICK y : y = (Len(r) - k) + 1
    OBVIOUS
  <2>3. x \in 1..Len(r) /\ y \in 1..Len(r) /\ (x = y => i = k)
    BY <1>8, <2>1, <2>2
  <2>4. list[i] = r[x] /\ list[k] = r[y]
    BY <1>6, <1>8, <2>1, <2>2
  <2> QED
    BY <1>4, <1>7, <2>3, <2>4 DEF Distinct, ByNote, Key
<1> QED
  BY <1>5, <1>9

LEMMA StepAnnouncedOnce ==
    ASSUME MentionsInv, [MentionsNext]_mentionsVars
    PROVE  \A e \in DOMAIN announced :
              announced'[e] # announced[e] => announced[e] = 0 /\ announced'[e] = 1 /\ e \in reposts'
<1>1. CASE TaskCommits
  <2>1. DOMAIN announced = Local \X PostId
    BY DEF MentionsInv, MentionsTyped
  <2> QED
    BY <1>1, <2>1, TaskCommitAnnounces
<1>2. CASE ~TaskCommits
  <2>1. announced' = announced
    BY <1>2 DEF MentionsNext, mentionsVars, CreateNote, Repost, UndoRepost,
       LookupAndCreateMovieUser, DeletePost, Mute, Unmute, TaskReads, TaskSkips, TaskReposts,
       TaskAborts, TaskCrashes
  <2> QED
    BY <2>1
<1> QED
  BY <1>1, <1>2

-----------------------------------------------------------------------------
(* Foreign keys *)

KeysInv ==
    /\ users \subseteq Local
    /\ \A p \in Ids :
        /\ posts[p] \in [author : Profile, parent : Ids \cup {None}, public : BOOLEAN]
        /\ posts[p].author \in Local => posts[p].author \in users
    /\ reposts \subseteq Profile \X Ids
    /\ muted \subseteq Local \X Profile
    /\ \A n \in Range(notifications) : n.recipient \in users /\ n.post \in Ids
    /\ crashes \in 0..MaxCrashes
    /\ task.reposts \subseteq users \X Ids
    /\ \A n \in Range(task.notices) :
          n.recipient \in users /\ \E m \in task.removed : m.post = n.post

LEMMA KeysType == MentionsInv /\ KeysInv => MentionsTypeOK
<1> SUFFICES ASSUME MentionsInv, KeysInv PROVE MentionsTypeOK
  OBVIOUS
<1>1. ASSUME NEW n \in Range(notifications)
      PROVE  n \in [type : {"reply", "mention", "repost"}, sender : Profile,
                    recipient : users, post : Ids]
  <2>1. n \in Note
    BY RangeIs DEF MentionsInv, MentionsTyped
  <2>2. n.recipient \in users /\ n.post \in Ids
    BY DEF KeysInv
  <2> QED
    BY <2>1, <2>2 DEF Note
<1> QED
  BY <1>1 DEF MentionsInv, MentionsTyped, KeysInv, MentionsTypeOK

LEMMA InitKeys == MentionsInit => KeysInv
<1> SUFFICES ASSUME MentionsInit PROVE KeysInv
  OBVIOUS
<1>1. /\ users = Local \ Movies /\ Ids = {} /\ reposts = {} /\ muted = {}
      /\ notifications = <<>> /\ crashes = 0 /\ task = Idle
  BY DEF MentionsInit, Ids
<1>2. crashes \in 0..MaxCrashes
  BY <1>1, MentionsAssumption
<1> QED
  BY <1>1, <1>2, NoTask DEF KeysInv

\* The replies to what is deleted are deleted.
LEMMA BelowClosed ==
    ASSUME \A q \in Ids : posts[q].parent \in Ids \cup {None}, NEW p
    PROVE  /\ Below(p) \subseteq Ids
           /\ \A q \in Ids : posts[q].parent # None /\ posts[q].parent \in Below(p) => q \in Below(p)
<1> DEFINE Parents(q) == {posts[q].parent} \ {None}
           Closed(C) == \A y \in C : Parents(y) \subseteq C
           Least(q) == {x \in Ids : \A C \in SUBSET Ids : q \in C /\ Closed(C) => x \in C}
           Entry(f, q) == {q} \cup IF posts[q].parent = None THEN {} ELSE f[posts[q].parent]
           up == CHOOSE f : f = [q \in Ids |-> Entry(f, q)]
<1>1. ASSUME NEW q \in Ids, posts[q].parent = None PROVE Least(q) = {q}
  <2>1. {q} \in SUBSET Ids /\ q \in {q} /\ Closed({q})
    BY <1>1
  <2> QED
    BY <2>1
<1>2. ASSUME NEW q \in Ids, NEW r \in Ids, posts[q].parent = r, r # None
      PROVE  Least(q) = {q} \cup Least(r)
  <2>1. ASSUME NEW x \in Least(q) PROVE x = q \/ x \in Least(r)
    <3>1. ASSUME NEW C \in SUBSET Ids, r \in C, Closed(C), x # q PROVE x \in C
      <4>1. C \cup {q} \in SUBSET Ids /\ q \in C \cup {q}
        OBVIOUS
      <4>2. Closed(C \cup {q})
        BY <1>2, <3>1
      <4> HIDE DEF Closed
      <4>3. x \in C \cup {q}
        BY <4>1, <4>2
      <4> QED
        BY <3>1, <4>3
    <3> QED
      BY <3>1
  <2>2. ASSUME NEW C \in SUBSET Ids, q \in C, Closed(C) PROVE r \in C
    BY <1>2, <2>2
  <2> HIDE DEF Closed
  <2>3. Least(r) \subseteq Least(q) /\ q \in Least(q)
    BY <2>2
  <2> QED
    BY <2>1, <2>3
<1>3. \E f : f = [q \in Ids |-> Entry(f, q)]
  <2> DEFINE f == [q \in Ids |-> Least(q)]
  <2> HIDE DEF Least
  <2>1. ASSUME NEW q \in Ids PROVE f[q] = Entry(f, q)
    <3>1. CASE posts[q].parent = None
      BY <1>1, <3>1
    <3>2. CASE posts[q].parent # None
      <4>1. PICK r \in Ids : r = posts[q].parent
        BY <3>2
      <4>2. Least(q) = {q} \cup Least(r)
        BY <1>2, <3>2, <4>1
      <4> QED
        BY <3>2, <4>1, <4>2
    <3> QED
      BY <3>1, <3>2
  <2>2. f = [q \in Ids |-> Entry(f, q)]
    BY <2>1
  <2> QED
    BY <2>2
<1>4. up = [q \in Ids |-> Entry(up, q)]
  BY <1>3
<1>5. Below(p) = {q \in Ids : p \in up[q]}
  BY DEF Below
<1> HIDE DEF up
<1>6. ASSUME NEW q \in Ids, posts[q].parent # None, posts[q].parent \in Below(p)
      PROVE  q \in Below(p)
  <2>1. p \in up[posts[q].parent]
    BY <1>5, <1>6
  <2>2. up[q] = {q} \cup up[posts[q].parent]
    BY <1>4, <1>6
  <2> QED
    BY <1>5, <2>1, <2>2
<1> QED
  BY <1>5, <1>6

\* Steps that make no row but users and mutes, or leave all as it is.
LEMMA QuietKeys ==
    ASSUME KeysInv, UNCHANGED <<posts, notifications, task, crashes>>,
           users \subseteq users', users' \subseteq Local,
           reposts' \subseteq reposts, muted' \subseteq Local \X Profile
    PROVE  KeysInv'
<1>1. Ids' = Ids
  BY DEF Ids
<1> QED
  BY <1>1 DEF KeysInv

LEMMA CreateNoteKeys ==
    ASSUME MentionsInv, KeysInv, NEW a \in Profile, NEW parent \in Ids \cup {None},
           NEW public \in BOOLEAN, NEW mentions \in SUBSET Local,
           CreateNote(a, parent, public, mentions)
    PROVE  KeysInv'
<1>1. PICK p : p = made + 1
  OBVIOUS
<1>2. PICK q : q = ReplyNotices(a, p, parent, mentions)
  OBVIOUS
<1>3. MentionsTyped /\ made < MaxPosts
  BY DEF MentionsInv, CreateNote
<1>4. made \in Nat /\ p \in PostId /\ p \notin Ids
  BY <1>1, <1>3, MentionsIds DEF MentionsTyped
<1>5. /\ notifications' = notifications \o q
      /\ posts' = [x \in Ids \cup {p} |->
            IF x = p THEN [author |-> a, parent |-> parent, public |-> public] ELSE posts[x]]
      /\ UNCHANGED <<users, reposts, muted, task, crashes>>
      /\ a \in Local => a \in users
      /\ mentions \subseteq users
  BY <1>1, <1>2 DEF CreateNote, Resolved
<1>6. Ids' = Ids \cup {p}
  BY <1>5 DEF Ids
<1>7. ASSUME NEW x \in Ids'
      PROVE  /\ posts'[x] \in [author : Profile, parent : Ids' \cup {None}, public : BOOLEAN]
             /\ posts'[x].author \in Local => posts'[x].author \in users
  <2>1. CASE x = p
    BY <1>5, <1>6, <2>1
  <2>2. CASE x # p
    <3>1. x \in Ids /\ posts'[x] = posts[x]
      BY <1>5, <1>6, <2>2
    <3> QED
      BY <1>6, <3>1 DEF KeysInv
  <2> QED
    BY <2>1, <2>2
<1>8. /\ q \in Seq(Note)
      /\ \A n \in Range(q) :
            /\ n.post = p
            /\ n.recipient \in mentions \/ (parent # None /\ n.recipient = posts[parent].author)
  BY <1>2, <1>4, ReplyNoticesAre
<1>9. notifications \in Seq(Note)
  BY <1>3 DEF MentionsTyped
<1>10. Range(notifications') = Range(notifications) \cup Range(q)
  BY <1>5, <1>8, <1>9, RangeOfJoin
<1>11. ASSUME NEW n \in Range(q) PROVE n.recipient \in users /\ n.post \in Ids'
  <2>1. n.recipient \in Local
    <3>1. n \in Note
      BY <1>8, RangeIs
    <3> QED
      BY <3>1 DEF Note
  <2>2. CASE n.recipient \in mentions
    BY <1>5, <1>6, <1>8, <2>2
  <2>3. CASE parent # None /\ n.recipient = posts[parent].author
    BY <1>6, <1>8, <2>1, <2>3 DEF KeysInv
  <2> QED
    BY <1>8, <2>2, <2>3
<1>12. \A n \in Range(notifications') : n.recipient \in users /\ n.post \in Ids'
  BY <1>6, <1>10, <1>11 DEF KeysInv
<1> QED
  BY <1>5, <1>6, <1>7, <1>12 DEF KeysInv

LEMMA RepostKeys ==
    ASSUME MentionsInv, KeysInv, NEW a \in Profile, NEW p \in Ids, Repost(a, p)
    PROVE  KeysInv'
<1>1. PICK q : q = RepostNotices(a, p)
  OBVIOUS
<1>2. MentionsTyped
  BY DEF MentionsInv
<1>3. /\ notifications' = notifications \o q
      /\ reposts' = reposts \cup {<<a, p>>}
      /\ UNCHANGED <<users, posts, muted, task, crashes>> /\ Ids' = Ids
  BY <1>1 DEF Repost, Ids
<1>4. p \in PostId
  BY <1>2, MentionsIds
<1>5. q \in Seq(Note) /\ \A n \in Range(q) : n.post = p /\ n.recipient = posts[p].author
  BY <1>1, <1>4, RepostNoticesAre
<1>6. Range(notifications') = Range(notifications) \cup Range(q)
  BY <1>2, <1>3, <1>5, RangeOfJoin DEF MentionsTyped
<1>7. \A n \in Range(q) : n.recipient \in users /\ n.post \in Ids
  <2>1. \A n \in Range(q) : n \in Note
    BY <1>5, RangeIs
  <2>2. \A n \in Range(q) : n.recipient \in Local
    BY <2>1 DEF Note
  <2> QED
    BY <1>5, <2>2 DEF KeysInv
<1> QED
  BY <1>3, <1>6, <1>7 DEF KeysInv

LEMMA DeletePostKeys ==
    ASSUME MentionsInv, KeysInv, NEW p \in Ids, DeletePost(p)
    PROVE  KeysInv'
<1>1. PICK gone : gone = Below(p)
  OBVIOUS
<1>2. MentionsTyped /\ AnnouncedInv
  BY DEF MentionsInv
<1>3. \A q \in Ids : posts[q].parent \in Ids \cup {None}
  BY DEF KeysInv
<1>4. \A q \in Ids : posts[q].parent # None /\ posts[q].parent \in gone => q \in gone
  BY <1>1, <1>3, BelowClosed
<1>5. /\ notifications' = Where(notifications, {n \in Range(notifications) : n.post \notin gone})
      /\ posts' = [q \in Ids \ gone |-> posts[q]]
      /\ reposts' = {e \in reposts : e[2] \notin gone}
      /\ UNCHANGED <<users, muted, task, crashes>>
      /\ \A n \in task.removed : n.post \notin gone
  BY <1>1 DEF DeletePost
<1>6. Ids' = Ids \ gone
  BY <1>5 DEF Ids
<1>7. ASSUME NEW q \in Ids'
      PROVE  /\ posts'[q] \in [author : Profile, parent : Ids' \cup {None}, public : BOOLEAN]
             /\ posts'[q].author \in Local => posts'[q].author \in users
  <2>1. q \in Ids /\ q \notin gone /\ posts'[q] = posts[q]
    BY <1>5, <1>6
  <2>2. posts[q].parent \in Ids' \cup {None}
    BY <1>3, <1>4, <1>6, <2>1
  <2> QED
    BY <2>1, <2>2 DEF KeysInv
<1>8. Range(notifications') = {n \in Range(notifications) : n.post \notin gone}
  BY <1>2, <1>5, WhereDistinct DEF MentionsTyped
<1>9. \A n \in Range(notifications') : n.recipient \in users /\ n.post \in Ids'
  BY <1>6, <1>8 DEF KeysInv
<1>10. reposts' \subseteq Profile \X Ids'
  BY <1>5, <1>6 DEF KeysInv
<1>11. ASSUME NEW e \in task.reposts PROVE e \in users \X Ids'
  <2>1. PICK n \in task.removed : Key(n) = e
    BY <1>2 DEF AnnouncedInv
  <2>2. e \in users \X Ids /\ e[2] \notin gone
    BY <1>5, <2>1 DEF KeysInv, Key
  <2> QED
    BY <1>6, <2>2
<1> QED
  BY <1>5, <1>7, <1>9, <1>10, <1>11 DEF KeysInv

LEMMA TaskRepostsKeys ==
    ASSUME MentionsInv, KeysInv, TaskReposts
    PROVE  KeysInv'
<1>1. PICK n : n = Head(task.batch)
  OBVIOUS
<1>2. PICK e : e = Key(n)
  OBVIOUS
<1>3. PICK q : q = IF e \in reposts THEN <<>> ELSE RepostNotices(n.recipient, n.post)
  OBVIOUS
<1>4. PICK new : new = {e} \ reposts
  OBVIOUS
<1>5. /\ task.batch # <<>> /\ n.post \in Ids
      /\ task' = [task EXCEPT !.batch = Tail(@), !.removed = @ \cup {n},
                              !.reposts = @ \cup new, !.notices = @ \o q]
      /\ UNCHANGED <<users, posts, made, reposts, muted, notifications, crashes>>
  BY <1>1, <1>2, <1>3, <1>4 DEF TaskReposts, Key, rows
<1>6. /\ task \in Task /\ task.batch \in Seq(Note) /\ task.notices \in Seq(Note)
      /\ AnnouncedInv
  BY DEF MentionsInv, MentionsTyped, Task
<1>7. n \in Note /\ n \in Range(notifications)
  BY <1>1, <1>5, <1>6, BatchTail DEF AnnouncedInv
<1>8. n.recipient \in users /\ n.recipient \in Profile /\ n.post \in PostId
  BY <1>7, MentionsAssumption DEF KeysInv, Note
<1>9. /\ task'.notices = task.notices \o q
      /\ task'.reposts = task.reposts \cup new
      /\ task'.removed = task.removed \cup {n}
  BY <1>5, <1>6 DEF Task
<1>10. new \subseteq users \X Ids
  BY <1>2, <1>4, <1>5, <1>8 DEF Key
<1>11. q \in Seq(Note) /\ \A x \in Range(q) : x.post = n.post /\ x.recipient \in users
  <2>1. CASE e \in reposts
    BY <1>3, <2>1, NoTask
  <2>2. CASE e \notin reposts
    <3>1. q \in Seq(Note) /\ \A x \in Range(q) : x.post = n.post /\ x.recipient = posts[n.post].author
      BY <1>3, <1>8, <2>2, RepostNoticesAre
    <3>2. \A x \in Range(q) : x.recipient \in Local
      <4>1. \A x \in Range(q) : x \in Note
        BY <3>1, RangeIs
      <4> QED
        BY <4>1 DEF Note
    <3> QED
      BY <1>5, <3>1, <3>2 DEF KeysInv
  <2> QED
    BY <2>1, <2>2
<1>12. Range(task'.notices) = Range(task.notices) \cup Range(q)
  BY <1>6, <1>9, <1>11, RangeOfJoin
<1>13. \A x \in Range(task'.notices) :
          x.recipient \in users /\ \E m \in task'.removed : m.post = x.post
  BY <1>9, <1>11, <1>12 DEF KeysInv
<1> QED
  BY <1>5, <1>9, <1>10, <1>13 DEF KeysInv, Ids

LEMMA TaskCommitsKeys ==
    ASSUME MentionsInv, KeysInv, TaskCommits
    PROVE  KeysInv'
<1>1. PICK stays : stays = Where(notifications, Range(notifications) \ task.removed)
  OBVIOUS
<1>2. /\ notifications' = stays \o task.notices /\ task' = Idle
      /\ reposts' = reposts \cup task.reposts
      /\ UNCHANGED <<users, posts, muted, crashes>> /\ Ids' = Ids
  BY <1>1 DEF TaskCommits, Ids
<1>3. notifications \in Seq(Note) /\ task.notices \in Seq(Note) /\ AnnouncedInv
  BY DEF MentionsInv, MentionsTyped, Task
<1>4. stays \in Seq(Note) /\ Range(stays) \subseteq Range(notifications)
  BY <1>1, <1>3, WhereDistinct
<1>5. Range(notifications') = Range(stays) \cup Range(task.notices)
  BY <1>2, <1>3, <1>4, RangeOfJoin
<1>6. \A n \in Range(task.notices) : n.recipient \in users /\ n.post \in Ids
  BY <1>3 DEF KeysInv, AnnouncedInv
<1>7. users \X Ids \subseteq Profile \X Ids
  BY MentionsAssumption DEF KeysInv
<1>8. reposts' \subseteq Profile \X Ids
  BY <1>2, <1>7 DEF KeysInv
<1>9. \A n \in Range(notifications') : n.recipient \in users /\ n.post \in Ids
  BY <1>4, <1>5, <1>6 DEF KeysInv
<1> QED
  BY <1>2, <1>8, <1>9, NoTask DEF KeysInv

LEMMA TaskEndsKeys ==
    ASSUME KeysInv, UNCHANGED rows, crashes' \in 0..MaxCrashes,
           task'.reposts = {}, task'.notices = <<>>
    PROVE  KeysInv'
BY NoTask DEF KeysInv, Ids, rows

LEMMA MentionsNextKeys == MentionsInv /\ KeysInv /\ [MentionsNext]_mentionsVars => KeysInv'
<1> SUFFICES ASSUME MentionsInv, KeysInv, [MentionsNext]_mentionsVars PROVE KeysInv'
  OBVIOUS
<1>1. ASSUME NEW a \in Writers, NEW parent \in Ids \cup {None}, NEW public \in BOOLEAN,
             NEW mentions \in SUBSET Local, CreateNote(a, parent, public, mentions)
      PROVE  KeysInv'
  BY <1>1, CreateNoteKeys, MentionsAssumption
<1>2. ASSUME NEW a \in Writers, NEW p \in Ids, Repost(a, p) PROVE KeysInv'
  BY <1>2, RepostKeys, MentionsAssumption
<1>3. ASSUME NEW a, NEW p, UndoRepost(a, p) PROVE KeysInv'
  BY <1>3, QuietKeys DEF UndoRepost, KeysInv
<1>4. ASSUME NEW u \in Movies, LookupAndCreateMovieUser(u) PROVE KeysInv'
  BY <1>4, QuietKeys, MentionsAssumption DEF LookupAndCreateMovieUser, KeysInv
<1>5. ASSUME NEW p \in Ids, DeletePost(p) PROVE KeysInv'
  BY <1>5, DeletePostKeys
<1>6. ASSUME NEW u \in users, NEW a \in Profile, Mute(u, a) \/ Unmute(u, a) PROVE KeysInv'
  BY <1>6, QuietKeys DEF Mute, Unmute, KeysInv
<1>7. CASE TaskReads
  <2>1. task'.reposts = {} /\ task'.notices = <<>>
    BY <1>7 DEF TaskReads, Idle
  <2> QED
    BY <1>7, <2>1, TaskEndsKeys DEF TaskReads, KeysInv
<1>8. CASE TaskSkips
  <2>1. /\ task'.reposts = task.reposts /\ task'.notices = task.notices
        /\ task'.removed = task.removed
    BY <1>8 DEF TaskSkips, MentionsInv, MentionsTyped, Task
  <2> QED
    BY <1>8, <2>1 DEF TaskSkips, KeysInv, rows, Ids
<1>9. CASE TaskReposts
  BY <1>9, TaskRepostsKeys
<1>10. CASE TaskCommits
  BY <1>10, TaskCommitsKeys
<1>11. CASE TaskAborts
  BY <1>11, TaskEndsKeys, NoTask DEF TaskAborts, KeysInv
<1>12. CASE TaskCrashes
  <2>1. crashes' \in 0..MaxCrashes
    BY <1>12, MentionsAssumption DEF TaskCrashes, KeysInv
  <2> QED
    BY <1>12, <2>1, TaskEndsKeys, NoTask DEF TaskCrashes
<1>13. CASE UNCHANGED mentionsVars
  BY <1>13, QuietKeys DEF mentionsVars, rows, KeysInv
<1> QED
  BY <1>1, <1>2, <1>3, <1>4, <1>5, <1>6, <1>7, <1>8, <1>9, <1>10, <1>11, <1>12, <1>13
  DEF MentionsNext

\* No repost and no notification refers to a post that is gone, also not when a
\* post with its replies is deleted under the open transaction of the task, and
\* whoever is notified has an account.
THEOREM MentionsTypeCorrect == MentionsSpec => []MentionsTypeOK
BY MentionsInitInv, MentionsNextInv, InitKeys, MentionsNextKeys, KeysType, PTL DEF MentionsSpec

\* A user reads of each note at most once, and of nothing the user did: for any
\* number of users, notes, reposts and mutes, while the task runs.
THEOREM MentionsNotifiedOnce == MentionsSpec => []NotifiedOnce
BY MentionsInitInv, MentionsNextInv, InvNotifiedOnce, PTL DEF MentionsSpec

\* handle_movies_mentions announces each mention at most once, together with its
\* repost, whatever crashes, aborts, undone reposts and deletions there are.
THEOREM MentionsAnnouncedOnce == MentionsSpec => AnnouncedOnce
<1>1. MentionsInv /\ [MentionsNext]_mentionsVars
        => [\A e \in DOMAIN announced :
              announced'[e] # announced[e]
                => announced[e] = 0 /\ announced'[e] = 1 /\ e \in reposts']_mentionsVars
  BY StepAnnouncedOnce
<1> QED
  BY <1>1, MentionsInitInv, MentionsNextInv, PTL DEF MentionsSpec, AnnouncedOnce
=============================================================================
