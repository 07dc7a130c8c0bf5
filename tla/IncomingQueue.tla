---------------------------- MODULE IncomingQueue ----------------------------
(***************************************************************************)
(* Deferred processing of received activities: receive_activity queues     *)
(* Announce, Create, Delete, Move, Undo and Update activities, and the     *)
(* incoming executor (process_queued_incoming_activities) hands them to    *)
(* handle_activity in batches, with a time limit and a retry policy.  What *)
(* a handler does is not modelled here, only how it can end.  Each         *)
(* activity stands for one accepted request: a sender that repeats a       *)
(* request is a second activity.                                           *)
(***************************************************************************)
EXTENDS Naturals, JobTable, Inbox

CONSTANTS
    Activity,      \* requests to the inbox that end in the queue
    BatchSize,     \* INCOMING_QUEUE_BATCH_SIZE
    RetriesMax,    \* INCOMING_QUEUE_RETRIES_MAX
    MaxAborts      \* bound on the number of aborts

ASSUME IncomingAssumption ==
    /\ BatchSize \in Nat \ {0}
    /\ RetriesMax \in Nat
    /\ MaxAborts \in Nat

VARIABLES
    table,       \* the rows of type IncomingActivity
    batch,       \* jobs of the current batch that are still to be processed
    executor,    \* program counter and current job
    origin,      \* history: who sent the activities put in the queue
    settled,     \* history: activities the executor was done with
    aborts       \* number of aborts so far

history == <<origin, settled>>
vars    == <<table, batch, executor, history, aborts>>

JobData == [activity : Activity, authenticated : BOOLEAN, failures : 0..RetriesMax]

Idle == [pc |-> "idle"]

Busy == [pc : {"next"}] \cup [pc : {"handle", "requeue", "delete"}, job : JobId]

accepted == DOMAIN origin

job      == table[executor.job].data
activity == job.activity

TypeOK ==
    /\ IsTable(table, JobData)
    /\ batch \subseteq DOMAIN table
    /\ executor \in Busy \cup {Idle}
    /\ executor.pc \notin {"idle", "next"} => executor.job \in DOMAIN table
    /\ accepted \subseteq Activity
    /\ \A a \in accepted : origin[a] \in Origin
    /\ settled \subseteq Activity
    /\ aborts \in 0..MaxAborts

Init ==
    /\ table = EmptyTable
    /\ batch = {}
    /\ executor = Idle
    /\ origin = <<>>
    /\ settled = {}
    /\ aborts = 0

-----------------------------------------------------------------------------
\* The end of receive_activity for an activity that passed its checks.
Receive(a) ==
    /\ a \notin accepted
    /\ HasFreshId(table)
    /\ \E q \in QueuedKinds :
        /\ table' = EnqueueJob(table, [activity |-> a, authenticated |-> q.authenticated,
                                       failures |-> 0])
        /\ origin' = [x \in accepted \cup {a} |->
                        IF x = a THEN q.origin ELSE origin[x]]
    /\ UNCHANGED <<batch, executor, settled, aborts>>

StartBatch ==
    /\ executor = Idle
    /\ BatchOf(table, BatchSize) # {}
    /\ batch' = BatchOf(table, BatchSize)
    /\ table' = GetJobBatch(table, batch')
    /\ executor' = [pc |-> "next"]
    /\ UNCHANGED <<history, aborts>>

\* The tick finds nothing to do.
EmptyBatch ==
    /\ executor = Idle
    /\ BatchOf(table, BatchSize) = {}
    /\ UNCHANGED vars

StartHandler(id) ==
    /\ executor.pc = "next"
    /\ id \in batch
    /\ batch' = batch \ {id}
    /\ executor' = [pc |-> "handle", job |-> id]
    /\ UNCHANGED <<table, history, aborts>>

\* The loop ends.
EndBatch ==
    /\ executor.pc = "next"
    /\ batch = {}
    /\ executor' = Idle
    /\ UNCHANGED <<table, batch, history, aborts>>

HandlerSucceeds ==
    /\ executor.pc = "handle"
    /\ executor' = [executor EXCEPT !.pc = "delete"]
    /\ settled' = settled \cup {activity}
    /\ UNCHANGED <<table, batch, origin, aborts>>

\* (Mutant of RetriesLeft) Compares the counter before it is incremented.
RetriesLeftOffByOne == job.failures <= RetriesMax

\* failure_count is incremented, then compared.
RetriesLeft == job.failures + 1 <= RetriesMax

\* The handler returns an error; recursion is whether it is the fetcher's
\* recursion error.
HandlerFails(recursion) ==
    /\ executor.pc = "handle"
    /\ IF RetriesLeft /\ ~recursion
       THEN /\ executor' = [executor EXCEPT !.pc = "requeue"]
            /\ settled' = settled
       ELSE /\ executor' = [executor EXCEPT !.pc = "delete"]
            /\ settled' = settled \cup {activity}
    /\ UNCHANGED <<table, batch, origin, aborts>>

\* tokio::time::timeout drops the handler after ten minutes: no retry.
HandlerTimesOut ==
    /\ executor.pc = "handle"
    /\ executor' = [executor EXCEPT !.pc = "delete"]
    /\ settled' = settled \cup {activity}
    /\ UNCHANGED <<table, batch, origin, aborts>>

\* (Mutant of Requeue) The error is only logged.
RequeueSkipped ==
    /\ executor.pc = "requeue"
    /\ executor' = [executor EXCEPT !.pc = "delete"]
    /\ UNCHANGED <<table, batch, history, aborts>>

\* into_job: a second row, before the first is deleted.
Requeue ==
    /\ executor.pc = "requeue"
    /\ HasFreshId(table)
    /\ table' = EnqueueJob(table, [job EXCEPT !.failures = @ + 1])
    /\ executor' = [executor EXCEPT !.pc = "delete"]
    /\ UNCHANGED <<batch, history, aborts>>

DeleteJob ==
    /\ executor.pc = "delete"
    /\ table' = DeleteJobFromQueue(table, executor.job)
    /\ executor' = [pc |-> "next"]
    /\ UNCHANGED <<batch, history, aborts>>

\* A database error ends the executor's turn, or the server stops and starts
\* again: the rest of the batch stays Running.
Abort ==
    /\ executor # Idle
    /\ aborts < MaxAborts
    /\ aborts' = aborts + 1
    /\ executor' = Idle
    /\ batch' = {}
    /\ UNCHANGED <<table, history>>

-----------------------------------------------------------------------------
(* Time *)

RowBecomesDue(id) ==
    /\ id \in DOMAIN table
    /\ ~IsDue(table, id)
    /\ table' = BecomeDue(table, id)
    /\ UNCHANGED <<batch, executor, history, aborts>>

\* JOB_TIMEOUT passes: handlers may take ten minutes each, ticks are 5
\* seconds apart.
JobTimeout ==
    /\ AgeRunning(table) # table
    /\ \/ executor.pc = "handle"
       \/ executor = Idle /\ BatchOf(table, BatchSize) = {}
    /\ table' = AgeRunning(table)
    /\ UNCHANGED <<batch, executor, history, aborts>>

-----------------------------------------------------------------------------
Execute ==
    \/ StartBatch
    \/ EmptyBatch
    \/ \E id \in JobId : StartHandler(id)
    \/ EndBatch
    \/ HandlerSucceeds
    \/ \E recursion \in BOOLEAN : HandlerFails(recursion)
    \/ HandlerTimesOut
    \/ Requeue
    \/ DeleteJob

Next ==
    \/ \E a \in Activity : Receive(a)
    \/ Execute
    \/ Abort
    \/ \E id \in JobId : RowBecomesDue(id)
    \/ JobTimeout

\* The scheduler task runs, handlers are cut off after ten minutes, and the
\* clock advances.
Fairness ==
    /\ WF_vars(Execute)
    /\ \A id \in JobId : WF_vars(RowBecomesDue(id))
    /\ WF_vars(JobTimeout)

Spec == Init /\ [][Next]_vars

FairSpec == Spec /\ Fairness

-----------------------------------------------------------------------------
(* Properties *)

RowsOf(a) == LET Of(d) == d.activity = a IN RowsWith(table, Of)

\* An accepted activity is in the queue until the executor is done with it,
\* whatever is interrupted (the retry is enqueued before the row is deleted).
NoActivityLost == \A a \in accepted \ settled : RowsOf(a) # {}

\* An activity is processed in the name of its actor only if the actor signed
\* it or the request, and all that others can pass on is a Create.  The
\* decision is taken when the request arrives, and used by every retry.
OriginRespected ==
    /\ \A a \in accepted : origin[a] # "forged"
    /\ \A id \in DOMAIN table :
        LET d == table[id].data
        IN  d.authenticated <=> origin[d.activity] = "actor"

\* The queue delivers at least once: an activity leaves it only when the
\* executor is done with it, and only activities that are in it are processed.
Mailbox == INSTANCE AtLeastOnce WITH
    Item     <- Activity,
    accepted <- accepted,
    waiting  <- {a \in Activity : RowsOf(a) # {}},
    done     <- settled

DeliversAtLeastOnce == Mailbox!Spec

\* Every accepted activity leaves the queue, also one whose batch was
\* interrupted ("Restart stalled background jobs").
QueueDrains == \A a \in Activity : a \in accepted ~> RowsOf(a) = {}
=============================================================================
