---------------------------- MODULE OutgoingQueue ----------------------------
(***************************************************************************)
(* Delivery of activities to remote inboxes: OutgoingActivity::enqueue,    *)
(* the outgoing executor (process_queued_outgoing_activities) and the      *)
(* deliverer, over the background_job table.  The executor runs in the one *)
(* scheduler task, so it is never concurrent with itself; users may be     *)
(* deleted meanwhile by mitractl, which is another process.                *)
(*                                                                         *)
(* A database error propagated by `?` and a crash followed by a restart    *)
(* leave the same thing behind (the rows, and nothing in memory): Abort.   *)
(***************************************************************************)
EXTENDS Naturals, FiniteSets, JobTable

CONSTANTS
    Activity,            \* activities that may be enqueued, each at most once
    Farewell,            \* those that are the Delete(Person) of their sender
    Sender,              \* Activity -> user id
    Recipients,          \* Activity -> set of remote actors, without repetition
    RetriesMax,          \* OUTGOING_QUEUE_RETRIES_MAX
    MaxAborts            \* bound on the number of aborts

Actor == UNION {Recipients[a] : a \in Activity}
User  == {Sender[a] : a \in Activity}

ASSUME OutgoingAssumption ==
    /\ RetriesMax \in Nat
    /\ MaxAborts \in Nat
    /\ Farewell \subseteq Activity
    /\ DOMAIN Sender = Activity
    /\ DOMAIN Recipients = Activity

VARIABLES
    table,         \* the rows of type OutgoingActivity
    users,         \* user ids that exist
    unreachable,   \* actors whose profile has unreachable_since
    cli,           \* Delete(Person) activities mitractl has built, not enqueued yet
    executor,      \* the executor's program counter and local variables
    enqueued,      \* history: activities enqueued so far
    tries,         \* history: requests sent, per activity and recipient
    acks,          \* history: of these, the ones answered with success
    refused,       \* history: activities dropped after an unexpected error
    aborts         \* number of aborts so far

db      == <<table, users, unreachable>>
history == <<enqueued, tries, acks, refused>>
vars    == <<db, cli, executor, history, aborts>>

JobData == [activity : Activity, delivered : SUBSET Actor, failures : 0..RetriesMax]

\* The executor between two jobs.
Idle == [pc |-> "idle"]

Busy == [pc : {"load", "send", "requeue", "report", "delete"},
         job : JobId, delivered : SUBSET Actor, todo : SUBSET Actor]

job       == table[executor.job].data
activity  == job.activity

TypeOK ==
    /\ IsTable(table, JobData)
    /\ users \subseteq User
    /\ unreachable \subseteq Actor
    /\ cli \subseteq Farewell
    /\ executor \in Busy \cup {Idle}
    /\ executor # Idle => executor.job \in DOMAIN table
    /\ enqueued \subseteq Activity
    /\ tries \in [Activity -> [Actor -> Nat]]
    /\ acks  \in [Activity -> [Actor -> Nat]]
    /\ refused \subseteq Activity
    /\ aborts \in 0..MaxAborts

Init ==
    /\ table = EmptyTable
    /\ users = User
    /\ unreachable = {}
    /\ cli = {}
    /\ executor = Idle
    /\ enqueued = {}
    /\ tries = [a \in Activity |-> [r \in Actor |-> 0]]
    /\ acks  = [a \in Activity |-> [r \in Actor |-> 0]]
    /\ refused = {}
    /\ aborts = 0

-----------------------------------------------------------------------------
(* Producers *)

NewJob(a) == [activity |-> a, delivered |-> {}, failures |-> 0]

\* A request handler or a command of an existing user: OutgoingActivity::new
\* and enqueue, which does nothing when there is no recipient.
Enqueue(a) ==
    /\ a \notin enqueued \cup Farewell
    /\ Sender[a] \in users
    /\ Recipients[a] # {}
    /\ HasFreshId(table)
    /\ table' = EnqueueJob(table, NewJob(a))
    /\ enqueued' = enqueued \cup {a}
    /\ UNCHANGED <<users, unreachable, cli, executor, tries, acks, refused, aborts>>

\* mitractl delete-profile: the activity is built, then the profile goes.
CliDeleteProfile(a) ==
    /\ a \in Farewell
    /\ Sender[a] \in users
    /\ users' = users \ {Sender[a]}
    /\ cli' = cli \cup {a}
    /\ UNCHANGED <<table, unreachable, executor, history, aborts>>

\* ... and the activity is enqueued afterwards.
CliEnqueue(a) ==
    /\ a \in cli
    /\ HasFreshId(table)
    /\ cli' = cli \ {a}
    /\ table' = IF Recipients[a] = {} THEN table ELSE EnqueueJob(table, NewJob(a))
    /\ enqueued' = IF Recipients[a] = {} THEN enqueued ELSE enqueued \cup {a}
    /\ UNCHANGED <<users, unreachable, executor, tries, acks, refused, aborts>>

-----------------------------------------------------------------------------
(* The executor *)

\* get_job_batch with OUTGOING_QUEUE_BATCH_SIZE = 1.
StartBatch ==
    /\ executor = Idle
    /\ \E id \in BatchOf(table, 1) :
        /\ table' = GetJobBatch(table, {id})
        /\ executor' = [pc |-> "load", job |-> id, delivered |-> {}, todo |-> {}]
    /\ UNCHANGED <<users, unreachable, cli, history, aborts>>

\* The tick finds nothing to do.
EmptyBatch ==
    /\ executor = Idle
    /\ BatchOf(table, 1) = {}
    /\ UNCHANGED vars

\* get_user_by_id returns the sender; recipients not delivered yet are next.
LoadSender ==
    /\ executor.pc = "load"
    /\ Sender[activity] \in users
    /\ executor' = [executor EXCEPT !.pc = "send", !.delivered = job.delivered,
                                    !.todo = Recipients[activity] \ job.delivered]
    /\ UNCHANGED <<db, cli, history, aborts>>

\* get_user_by_id fails with NotFound: `?` leaves the row Running.
SenderMissing ==
    /\ executor.pc = "load"
    /\ Sender[activity] \notin users
    /\ executor' = Idle
    /\ UNCHANGED <<db, cli, history, aborts>>

\* deliver() fails before the first request (key or signature): the job is dropped.
DeliveryRefused ==
    /\ executor.pc = "load"
    /\ Sender[activity] \in users
    /\ table' = DeleteJobFromQueue(table, executor.job)
    /\ refused' = refused \cup {activity}
    /\ executor' = Idle
    /\ UNCHANGED <<users, unreachable, cli, enqueued, tries, acks, aborts>>

\* send_activity to one recipient; ok is whether it was answered with success.
Send(r, ok) ==
    /\ executor.pc = "send"
    /\ r \in executor.todo
    /\ tries' = [tries EXCEPT ![activity][r] = @ + 1]
    /\ acks'  = [acks  EXCEPT ![activity][r] = @ + IF ok THEN 1 ELSE 0]
    /\ executor' = [executor EXCEPT !.todo = @ \ {r},
                                    !.delivered = @ \cup IF ok THEN {r} ELSE {}]
    /\ UNCHANGED <<db, cli, enqueued, refused, aborts>>

\* (Mutant of RetriesLeft) One attempt less: the incremented counter is compared.
RetriesLeftOneLess == job.failures + 1 < RetriesMax

\* (Mutant of RetriesLeft) One attempt more.
RetriesLeftOneMore == job.failures <= RetriesMax

RetriesLeft == job.failures < RetriesMax

\* All recipients were tried: retry, or report the result.
Decide ==
    /\ executor.pc = "send"
    /\ executor.todo = {}
    /\ executor' =
         IF executor.delivered # Recipients[activity] /\ RetriesLeft
         THEN [executor EXCEPT !.pc = "requeue"]
         ELSE [executor EXCEPT !.pc = "report", !.todo = Recipients[activity]]
    /\ UNCHANGED <<db, cli, history, aborts>>

\* (Mutant of RetryData) The flags of this attempt are not stored.
RetryDataForgetful == [job EXCEPT !.failures = @ + 1]

\* The retry carries the flags of this attempt.
RetryData == [job EXCEPT !.failures = @ + 1, !.delivered = executor.delivered]

\* into_job with the backoff as delay: a second row, before the first is deleted.
Requeue ==
    /\ executor.pc = "requeue"
    /\ HasFreshId(table)
    /\ table' = EnqueueJob(table, RetryData)
    /\ executor' = [executor EXCEPT !.pc = "delete"]
    /\ UNCHANGED <<users, unreachable, cli, history, aborts>>

\* (Mutant of SetReachability) The branches are swapped.
SetReachabilityInverted(r) ==
    IF r \in executor.delivered THEN unreachable \cup {r} ELSE unreachable \ {r}

\* set_reachability_status
SetReachability(r) ==
    IF r \in executor.delivered THEN unreachable \ {r} ELSE unreachable \cup {r}

Report(r) ==
    /\ executor.pc = "report"
    /\ r \in executor.todo
    /\ unreachable' = SetReachability(r)
    /\ executor' = [executor EXCEPT !.todo = @ \ {r},
                                    !.pc = IF executor.todo = {r} THEN "delete" ELSE @]
    /\ UNCHANGED <<table, users, cli, history, aborts>>

DeleteJob ==
    /\ executor.pc = "delete"
    /\ table' = DeleteJobFromQueue(table, executor.job)
    /\ executor' = Idle
    /\ UNCHANGED <<users, unreachable, cli, history, aborts>>

\* A database error in the middle of a job, or a crash and a restart.
Abort ==
    /\ executor # Idle
    /\ aborts < MaxAborts
    /\ aborts' = aborts + 1
    /\ executor' = Idle
    /\ UNCHANGED <<db, cli, history>>

-----------------------------------------------------------------------------
(* Time *)

RowBecomesDue(id) ==
    /\ id \in DOMAIN table
    /\ ~IsDue(table, id)
    /\ table' = BecomeDue(table, id)
    /\ UNCHANGED <<users, unreachable, cli, executor, history, aborts>>

\* JOB_TIMEOUT passes.  Ticks are 5 seconds apart, so an idle executor picks up
\* what is eligible before another hour passes, and only the requests to the
\* inboxes can keep a busy one for an hour.
JobTimeout ==
    /\ AgeRunning(table) # table
    /\ \/ executor.pc = "send"
       \/ executor = Idle /\ BatchOf(table, 1) = {}
    /\ table' = AgeRunning(table)
    /\ UNCHANGED <<users, unreachable, cli, executor, history, aborts>>

-----------------------------------------------------------------------------
Execute ==
    \/ StartBatch
    \/ EmptyBatch
    \/ LoadSender
    \/ SenderMissing
    \/ DeliveryRefused
    \/ \E r \in Actor, ok \in BOOLEAN : Send(r, ok)
    \/ Decide
    \/ Requeue
    \/ \E r \in Actor : Report(r)
    \/ DeleteJob

Next ==
    \/ \E a \in Activity : Enqueue(a) \/ CliDeleteProfile(a) \/ CliEnqueue(a)
    \/ Execute
    \/ Abort
    \/ \E id \in JobId : RowBecomesDue(id)
    \/ JobTimeout

\* The scheduler task runs, requests time out, and the clock advances.
Fairness ==
    /\ WF_vars(Execute)
    /\ \A id \in JobId : WF_vars(RowBecomesDue(id))
    /\ WF_vars(JobTimeout)

Spec == Init /\ [][Next]_vars

FairSpec == Spec /\ Fairness

-----------------------------------------------------------------------------
(* Properties *)

Pending(a, r) ==
    LET Undelivered(d) == d.activity = a /\ r \notin d.delivered
    IN  RowsWith(table, Undelivered)

\* No recipient is forgotten: once an activity is enqueued, each recipient has
\* acknowledged it, or is still owed it by a row of the table, or was tried as
\* often as the retry policy says, whatever errors and crashes came between
\* (the retry is enqueued before the old row is deleted).
NoRecipientForgotten ==
    \A a \in enqueued \ refused : \A r \in Recipients[a] :
        \/ acks[a][r] > 0
        \/ Pending(a, r) # {}
        \/ tries[a][r] > RetriesMax

\* An acknowledged delivery is repeated only because of an abort: the flags
\* stored with a retry keep the recipients that already have the activity out.
NoNeedlessRedelivery ==
    \A a \in Activity, r \in Actor : acks[a][r] <= 1 + aborts

\* An actor is recorded as unreachable only by an activity whose retries for
\* that actor are used up.
UnreachableEarned ==
    \A r \in unreachable : \E a \in Activity : tries[a][r] > RetriesMax

\* Every job leaves the queue, also one that was interrupted ("Restart stalled
\* background jobs"), unless its sender no longer exists.
QueueDrains ==
    \A a \in Activity :
        a \in enqueued ~>
            \/ LET Of(d) == d.activity = a IN RowsWith(table, Of) = {}
            \/ Sender[a] \notin users
=============================================================================
