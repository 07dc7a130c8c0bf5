------------------------------ MODULE JobTable ------------------------------
(***************************************************************************)
(* The background_job table of the server and the three statements that    *)
(* touch it (fedimovies-models/src/background_jobs/queries.rs).            *)
(*                                                                         *)
(* A table is a function from the ids of its rows to the rows.  Timestamps *)
(* are abstracted to what the statements compare:                          *)
(*   stalled  is  updated_at < now - JOB_TIMEOUT                           *)
(*   due      is  0 until scheduled_for passes, and then the place of the  *)
(*            row among the rows that are due, in the order of             *)
(*            scheduled_for                                                *)
(* The job payload is whatever the executor that uses the table stores.    *)
(***************************************************************************)
EXTENDS Naturals, FiniteSets

CONSTANT JobId    \* ids that rows may have; freed ids are used again

ASSUME JobIdAssumption == IsFiniteSet(JobId)

-----------------------------------------------------------------------------
EmptyTable == <<>>

JobRow(Data) ==
    [status : {"Queued", "Running"}, stalled : BOOLEAN, due : Nat, data : Data]

IsTable(t, Data) ==
    /\ t = [id \in DOMAIN t |-> t[id]]
    /\ DOMAIN t \subseteq JobId
    /\ \A id \in DOMAIN t : t[id] \in JobRow(Data)

IsDue(t, id) == t[id].due > 0

RowsWith(t, P(_)) == {id \in DOMAIN t : P(t[id].data)}

-----------------------------------------------------------------------------
(* Statements *)

FreshId(t) == CHOOSE id \in JobId : id \notin DOMAIN t

HasFreshId(t) == ~(JobId \subseteq DOMAIN t)

\* INSERT with the column defaults: Queued, updated now.
EnqueueJob(t, data) ==
    LET row == [status |-> "Queued", stalled |-> FALSE, due |-> 0, data |-> data]
    IN  [id \in DOMAIN t \cup {FreshId(t)} |-> IF id \in DOMAIN t THEN t[id] ELSE row]

\* (Mutant of Eligible) Without "Restart stalled background jobs".
EligibleQueuedOnly(t) == {id \in DOMAIN t : IsDue(t, id) /\ t[id].status = "Queued"}

\* Due rows that are queued, or left Running for longer than JOB_TIMEOUT.
Eligible(t) ==
    {id \in DOMAIN t : IsDue(t, id) /\ (t[id].status = "Queued" \/ t[id].stalled)}

\* ORDER BY: queued jobs first, each group in the order of scheduled_for.
Before(t, x, y) ==
    \/ t[x].status = "Queued" /\ t[y].status = "Running"
    \/ t[x].status = t[y].status /\ t[x].due < t[y].due

\* LIMIT: the set of ids a batch returns (RETURNING has no order).
BatchOf(t, size) ==
    {id \in Eligible(t) : Cardinality({x \in Eligible(t) : Before(t, x, id)}) < size}

\* The UPDATE: status Running, updated_at now.
GetJobBatch(t, ids) ==
    [id \in DOMAIN t |->
        IF id \in ids THEN [t[id] EXCEPT !.status = "Running", !.stalled = FALSE]
                      ELSE t[id]]

DeleteJobFromQueue(t, id) ==
    [x \in DOMAIN t \ {id} |->
        IF IsDue(t, id) /\ t[id].due < t[x].due THEN [t[x] EXCEPT !.due = @ - 1]
                                                ELSE t[x]]

-----------------------------------------------------------------------------
(* The clock *)

\* scheduled_for of a row passes.
BecomeDue(t, id) ==
    [t EXCEPT ![id].due = Cardinality({x \in DOMAIN t : IsDue(t, x)}) + 1]

\* JOB_TIMEOUT passes: whatever is still Running is now stalled.
AgeRunning(t) ==
    [id \in DOMAIN t |-> [t[id] EXCEPT !.stalled = (@ \/ t[id].status = "Running")]]
=============================================================================
