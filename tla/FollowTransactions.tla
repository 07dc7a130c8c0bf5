-------------------------- MODULE FollowTransactions --------------------------
(***************************************************************************)
(* The transactions on one pair (a user who follows a remote actor), one   *)
(* SQL statement per step, run by concurrent sessions: API requests for    *)
(* follow and unfollow, the unfollow of an account move in the background, *)
(* and the inbox handlers Accept and Reject (one at a time, because of the *)
(* inbox mutex).  Relationships takes the same transactions as single      *)
(* steps.                                                                  *)
(*                                                                         *)
(* PostgreSQL runs them at its default isolation level, READ COMMITTED: a  *)
(* statement sees the rows committed when it starts; writing a row that    *)
(* another open transaction has written waits for its end; nothing is      *)
(* checked at commit.  The pair has at most one row in relationship and    *)
(* one in follow_request, so a table is its committed row, the session     *)
(* that has written it and not committed, and what it has written.         *)
(***************************************************************************)
EXTENDS Integers, FiniteSets

CONSTANTS
    Api,       \* concurrent API requests of the user, and a move
    Inbox,     \* inbox requests of the remote actor
    Nobody     \* no session

Session == Api \cup Inbox

ASSUME FollowTransactionsAssumption ==
    /\ Api \cap Inbox = {}
    /\ Nobody \notin Session

Status == {"none", "pending", "accepted", "rejected"}    \* none: no row

VARIABLES
    rel,        \* relationship: [row : is there one, writer, written]
    req,        \* follow_request: [row : its status, writer, written]
    count,      \* follower_count of the actor, relative to this pair
    session,    \* what each session is doing, and at which statement
    overtaken,  \* history: the unfollows that an Accept has overtaken (see Overtaken)
    orphan      \* history: one of them has deleted the request of the relationship

history == <<overtaken, orphan>>
vars    == <<rel, req, count, session, history>>

Ready == [op |-> "none", pc |-> "ready"]

\* Statements of each operation, in their order ("check" reads outside of
\* the transaction).
Steps == [follow   |-> {"insert_req"},
          unfollow |-> {"delete_rel", "delete_req", "commit"},
          accept   |-> {"check", "update_req", "insert_rel", "commit"},
          reject   |-> {"check", "update_req"}]

TypeOK ==
    /\ rel \in [row : BOOLEAN, writer : Session \cup {Nobody}, written : BOOLEAN]
    /\ req \in [row : Status, writer : Session \cup {Nobody}, written : Status]
    /\ count \in Int
    /\ \A i \in Session :
        session[i] = Ready \/
        (session[i].op \in DOMAIN Steps /\ session[i].pc \in Steps[session[i].op])
    /\ \A i \in Session : i \in {rel.writer, req.writer} => session[i] # Ready
    /\ overtaken \subseteq Session
    /\ orphan \in BOOLEAN

Init ==
    /\ rel = [row |-> FALSE, writer |-> Nobody, written |-> FALSE]
    /\ req = [row |-> "none", writer |-> Nobody, written |-> "none"]
    /\ count = 0
    /\ session = [i \in Session |-> Ready]
    /\ overtaken = {}
    /\ orphan = FALSE

-----------------------------------------------------------------------------
(* Rows and locks *)

Free(table, i) == table.writer \in {Nobody, i}

\* The row as a statement of session i sees it.
Seen(table, i) == IF table.writer = i THEN table.written ELSE table.row

Written(table, i, value) == [table EXCEPT !.writer = i, !.written = value]

Committed(table, i) ==
    IF table.writer = i THEN [table EXCEPT !.row = table.written, !.writer = Nobody]
                        ELSE table

RolledBack(table, i) ==
    IF table.writer = i THEN [table EXCEPT !.writer = Nobody, !.written = table.row]
                        ELSE table

At(i, op, pc) == session[i].op = op /\ session[i].pc = pc

GoTo(i, pc) == session' = [session EXCEPT ![i].pc = pc]

Done(i) == session' = [session EXCEPT ![i] = Ready]

\* (Mutant of Fail) The error returns while the transaction stays open.
FailHoldsLocks(i) ==
    /\ Done(i)
    /\ UNCHANGED <<rel, req, count, history>>

\* An error: the transaction is dropped, which rolls it back.
Fail(i) ==
    /\ rel' = RolledBack(rel, i)
    /\ req' = RolledBack(req, i)
    /\ Done(i)
    /\ overtaken' = overtaken \ {i}
    /\ UNCHANGED <<count, orphan>>

-----------------------------------------------------------------------------
(* Requests arrive *)

Begin(i, op, pc) ==
    /\ session[i] = Ready
    /\ session' = [session EXCEPT ![i] = [op |-> op, pc |-> pc]]
    /\ UNCHANGED <<rel, req, count, history>>

\* Handlers run under the inbox mutex.
BeginInbox(i) ==
    /\ \A k \in Inbox : session[k] = Ready
    /\ \/ Begin(i, "accept", "check")
       \/ Begin(i, "reject", "check")

BeginApi(i) ==
    \/ Begin(i, "follow", "insert_req")
    \/ Begin(i, "unfollow", "delete_rel")

-----------------------------------------------------------------------------
(* create_follow_request: one statement, committed by itself *)

\* Waits for an open transaction that may delete the row; AlreadyExists (which
\* the caller ignores) if the row stays.
InsertRequest(i) ==
    /\ At(i, "follow", "insert_req")
    /\ Free(req, i)
    /\ req' = IF req.row = "none" THEN [req EXCEPT !.row = "pending"] ELSE req
    /\ Done(i)
    /\ UNCHANGED <<rel, count, history>>

-----------------------------------------------------------------------------
(* unfollow *)

\* A row that another transaction has inserted and not committed is not seen.
DeleteRelationship(i) ==
    /\ At(i, "unfollow", "delete_rel")
    /\ rel.row => Free(rel, i)
    /\ rel' = IF rel.row THEN Written(rel, i, FALSE) ELSE rel
    /\ GoTo(i, "delete_req")
    /\ UNCHANGED <<req, count, history>>

\* delete_follow_request_opt; NotFound if there was neither row.
DeleteRequest(i) ==
    /\ At(i, "unfollow", "delete_req")
    /\ req.row # "none" => Free(req, i)
    /\ IF req.row = "none" /\ rel.writer # i
       THEN Fail(i)
       ELSE /\ req' = IF req.row = "none" THEN req ELSE Written(req, i, "none")
            /\ GoTo(i, "commit")
            /\ UNCHANGED <<rel, count, history>>

-----------------------------------------------------------------------------
(* handle_accept and handle_reject *)

\* The request is read, and the activity ignored if it has that status already
\* or the request is gone.
CheckRequest(i, op, status) ==
    /\ At(i, op, "check")
    /\ IF req.row \in {"none", status} THEN Done(i) ELSE GoTo(i, "update_req")
    /\ UNCHANGED <<rel, req, count, history>>

\* follow_request_rejected, committed by itself.
RejectRequest(i) ==
    /\ At(i, "reject", "update_req")
    /\ req.row # "none" => Free(req, i)
    /\ req' = IF req.row = "none" THEN req ELSE [req EXCEPT !.row = "rejected"]
    /\ Done(i)
    /\ UNCHANGED <<rel, count, history>>

\* (Mutant of UpdateRequest) The statement is run outside of the transaction.
UpdateRequestOutside(i) ==
    /\ At(i, "accept", "update_req")
    /\ req.row # "none" => Free(req, i)
    /\ IF req.row = "none"
       THEN Fail(i)
       ELSE /\ req' = [req EXCEPT !.row = "accepted"]
            /\ GoTo(i, "insert_rel")
            /\ UNCHANGED <<rel, count, history>>

\* (Mutant of UpdateRequest) The request is consumed, not marked.
UpdateRequestConsumes(i) ==
    /\ At(i, "accept", "update_req")
    /\ req.row # "none" => Free(req, i)
    /\ IF req.row = "none"
       THEN Fail(i)
       ELSE /\ req' = Written(req, i, "none")
            /\ GoTo(i, "insert_rel")
            /\ UNCHANGED <<rel, count, history>>

\* follow_request_accepted, first statement: NotFound if the request is gone.
UpdateRequest(i) ==
    /\ At(i, "accept", "update_req")
    /\ req.row # "none" => Free(req, i)
    /\ IF req.row = "none"
       THEN Fail(i)
       ELSE /\ req' = Written(req, i, "accepted")
            /\ GoTo(i, "insert_rel")
            /\ UNCHANGED <<rel, count, history>>

\* Second statement: AlreadyExists if there is a row; a row that another
\* transaction is deleting is waited for.
InsertRelationship(i) ==
    /\ At(i, "accept", "insert_rel")
    /\ Free(rel, i)
    /\ IF rel.row
       THEN Fail(i)
       ELSE /\ rel' = Written(rel, i, TRUE)
            /\ GoTo(i, "commit")
            /\ UNCHANGED <<req, count, history>>

\* (Mutant of Change) The counter follows the operation, not the rows it changed.
ChangeByOperation(i) == IF session[i].op = "accept" THEN 1 ELSE -1

\* The counter moves with the relationship, in the same transaction.
Change(i) ==
    IF rel.writer # i THEN 0 ELSE IF rel.written THEN 1 ELSE -1

\* An Accept commits the relationship between the two DELETEs of an unfollow,
\* the first of which has not seen it.
Overtaken == {k \in Session : At(k, "unfollow", "delete_req") /\ rel.writer # k}

Commit(i) ==
    /\ session[i].pc = "commit"
    /\ rel' = Committed(rel, i)
    /\ req' = Committed(req, i)
    /\ count' = count + Change(i)
    /\ Done(i)
    /\ overtaken' = (overtaken \ {i}) \cup IF session[i].op = "accept" THEN Overtaken ELSE {}
    /\ orphan' = IF rel.writer = i THEN FALSE ELSE orphan \/ i \in overtaken

-----------------------------------------------------------------------------
(* Trouble *)

\* unfollow waits for the request an accept has updated, which waits for the
\* relationship that unfollow has deleted: PostgreSQL fails one of them.
Deadlocked(i, k) ==
    /\ At(i, "unfollow", "delete_req") /\ req.writer = k
    /\ At(k, "accept", "insert_rel")   /\ rel.writer = i

BreakDeadlock(i, k) ==
    /\ Deadlocked(i, k)
    /\ Fail(i) \/ Fail(k)

\* The connection or the server fails in the middle of a transaction.
Abort(i) ==
    /\ session[i] # Ready
    /\ Fail(i)

-----------------------------------------------------------------------------
Statement(i) ==
    \/ InsertRequest(i)
    \/ DeleteRelationship(i)
    \/ DeleteRequest(i)
    \/ CheckRequest(i, "accept", "accepted")
    \/ CheckRequest(i, "reject", "rejected")
    \/ RejectRequest(i)
    \/ UpdateRequest(i)
    \/ InsertRelationship(i)
    \/ Commit(i)

Next ==
    \/ \E i \in Api : BeginApi(i)
    \/ \E i \in Inbox : BeginInbox(i)
    \/ \E i \in Session : Statement(i) \/ Abort(i)
    \/ \E i, k \in Session : BreakDeadlock(i, k)

\* A statement waits for a row in a first come, first served queue, so it runs
\* in the end although others lock the row again and again (strong fairness),
\* and PostgreSQL breaks deadlocks.
Fairness ==
    /\ \A i \in Session : SF_vars(Statement(i))
    /\ WF_vars(\E i, k \in Session : BreakDeadlock(i, k))

Spec == Init /\ [][Next]_vars

FairSpec == Spec /\ Fairness

-----------------------------------------------------------------------------
(* Properties *)

\* The counter equals the number of committed rows, whichever transactions
\* overlap, fail or deadlock.
CounterExact == count = IF rel.row THEN 1 ELSE 0

\* A request that is accepted comes with the relationship: the two are written
\* by one transaction, and no overlap of an unfollow splits them.
AcceptedHasRelationship == req.row = "accepted" => rel.row

\* The request that unfollow returns, "follow request must exist" for a move
\* (handlers/move.rs, mastodon_api/settings/helpers.rs): an unfollow that has
\* deleted something has deleted the request.  The exception is a relationship
\* whose request was deleted by an earlier unfollow that an Accept overtook;
\* the move that unfollows it panics (see the README).
RequestToUndo ==
    \A i \in Session : At(i, "unfollow", "commit") => req.writer = i \/ orphan

\* No session waits for ever: each request is answered.
Answered == \A i \in Session : session[i] # Ready ~> session[i] = Ready
=============================================================================
