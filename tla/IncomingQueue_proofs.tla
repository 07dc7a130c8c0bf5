------------------------ MODULE IncomingQueue_proofs ------------------------
(***************************************************************************)
(* What the receiver of activities decides, for every request.  Then: the  *)
(* incoming queue loses nothing: proofs of the type invariant, of          *)
(* NoActivityLost and OriginRespected, and that IncomingQueue implements   *)
(* AtLeastOnce, for any set of activities, any batch size and retry limit. *)
(*                                                                         *)
(* At the end, the import of posts that the handlers of the queue call:    *)
(* proofs of its type invariant, of ParentsTrue and of ThreadImported, for *)
(* any documents, any number of importers and any limit of the recursion.  *)
(***************************************************************************)
EXTENDS IncomingQueue, ImportPost, FiniteSetTheorems, SequenceTheorems,
        NaturalsInduction, WellFoundedInduction, TLAPS

-----------------------------------------------------------------------------
(* The receiver *)

\* Who is_authenticated names has signed, with a key that could be had.
LEMMA AuthenticatedSigned ==
    ASSUME NEW r \in Request, HttpVerified(r), Authenticated(r)
    PROVE  ActorSigned(r)
<1>1. CASE JsonVerified(r)
  BY <1>1 DEF JsonVerified, ActorSigned
<1>2. CASE ~JsonVerified(r)
  <2>1. r.owner = "actor"
    BY <1>2 DEF Authenticated, Signer
  <2> QED
    BY <2>1 DEF HttpVerified, ActorSigned
<1> QED
  BY <1>1, <1>2

\* An accepted activity acts for its actor only if the actor signed it or the
\* request (receive_activity, handle_create).
THEOREM AcceptedActsForActor == ActsForActor
<1> SUFFICES ASSUME NEW r \in Request, Accepted(r)
             PROVE  /\ "actor" \notin r.blocked
                    /\ ActorSigned(r) \/ (r.type = "Create" /\ ~Authenticated(r))
                    /\ TakesObject(r) => ActorSigned(r) /\ r.author = "actor"
  BY DEF ActsForActor
<1>1. HttpVerified(r)
  BY DEF Accepted, Refused
<1>2. "actor" \notin r.blocked
  BY DEF Accepted, Ignored
<1>3. ActorSigned(r) \/ (r.type = "Create" /\ ~Authenticated(r))
  <2>1. CASE Authenticated(r)
    BY <1>1, <2>1, AuthenticatedSigned
  <2>2. CASE ~Authenticated(r)
    BY <2>2 DEF Accepted, Refused
  <2> QED
    BY <2>1, <2>2
<1>4. TakesObject(r) => ActorSigned(r) /\ r.author = "actor"
  BY <1>1, AuthenticatedSigned DEF TakesObject
<1> QED
  BY <1>2, <1>3, <1>4

\* What an actor sends itself with a right signature is accepted.
THEOREM OwnAlwaysAccepted == OwnAccepted
<1> SUFFICES ASSUME NEW r \in Request,
                    r.http = "right", r.owner = "actor", "actor" \notin r.blocked,
                    Found(r, "actor"), ~Unsolicited(r)
             PROVE  Accepted(r)
  BY DEF OwnAccepted
<1>1. HttpVerified(r)
  BY DEF HttpVerified
<1>2. Signer(r) = "actor" /\ Authenticated(r)
  BY DEF Signer, Authenticated
<1>3. ~Unverifiable(r)
  BY DEF Unverifiable
<1> QED
  BY <1>1, <1>2, <1>3 DEF Accepted, Ignored, Refused

LEMMA QueuedKindsType ==
    \A q \in QueuedKinds : q.authenticated \in BOOLEAN /\ q.origin \in Origin
<1>1. \A r \in Request : Authenticated(r) \in BOOLEAN
  BY DEF Authenticated
<1>2. \A r \in Request : OriginOf(r) \in Origin
  BY DEF OriginOf, Origin
<1> SUFFICES ASSUME NEW q \in QueuedKinds
             PROVE  q.authenticated \in BOOLEAN /\ q.origin \in Origin
  OBVIOUS
<1>3. PICK r \in Request : q = [authenticated |-> Authenticated(r), origin |-> OriginOf(r)]
  BY Zenon DEF QueuedKinds
<1>4. q.authenticated = Authenticated(r) /\ q.origin = OriginOf(r)
  BY <1>3, Zenon
<1> QED
  BY <1>1, <1>2, <1>4

\* Every request put in the queue is what OriginRespected says of it: never
\* forged, and authenticated exactly if its actor signed it.
THEOREM QueuedOrigin ==
    \A q \in QueuedKinds :
        q.origin # "forged" /\ (q.authenticated <=> q.origin = "actor")
<1> SUFFICES ASSUME NEW r \in Request, Outcome(r) = "queued"
             PROVE  /\ OriginOf(r) # "forged"
                    /\ Authenticated(r) <=> OriginOf(r) = "actor"
  BY DEF QueuedKinds
<1>1. Accepted(r) /\ HttpVerified(r)
  BY DEF Outcome, Accepted, Refused
<1>2. ActorSigned(r) \/ r.type = "Create"
  BY <1>1, AcceptedActsForActor DEF ActsForActor
<1>3. Authenticated(r) => ActorSigned(r)
  BY <1>1, AuthenticatedSigned
<1>4. ActorSigned(r) => Authenticated(r)
  BY DEF ActorSigned, Authenticated, Signer, JsonVerified
<1> QED
  BY <1>2, <1>3, <1>4 DEF OriginOf

-----------------------------------------------------------------------------
(* What the statements on the background_job table do to its rows *)

\* Ids and payloads of two tables agree.
SameData(t, u) == DOMAIN u = DOMAIN t /\ \A id \in DOMAIN t : u[id].data = t[id].data

\* INSERT adds one row under an id that was free ...
LEMMA EnqueueJobAdds ==
    ASSUME NEW Data, NEW t, IsTable(t, Data), NEW data \in Data, HasFreshId(t)
    PROVE  /\ IsTable(EnqueueJob(t, data), Data)
           /\ FreshId(t) \in JobId \ DOMAIN t
           /\ DOMAIN EnqueueJob(t, data) = DOMAIN t \cup {FreshId(t)}
<1> DEFINE n == FreshId(t)
           r == [status |-> "Queued", stalled |-> FALSE, due |-> 0, data |-> data]
           u == EnqueueJob(t, data)
<1>1. n \in JobId \ DOMAIN t
  BY DEF FreshId, HasFreshId
<1>2. u = [id \in DOMAIN t \cup {n} |-> IF id \in DOMAIN t THEN t[id] ELSE r]
  BY DEF EnqueueJob
<1>3. r \in JobRow(Data)
  BY DEF JobRow
<1> HIDE DEF n, r, u
<1>4. /\ DOMAIN u = DOMAIN t \cup {n}
      /\ \A id \in DOMAIN t : u[id] = t[id]
      /\ u[n] = r
  BY <1>1, <1>2
<1>5. IsTable(u, Data)
  BY <1>1, <1>2, <1>3, <1>4 DEF IsTable
<1> QED
  BY <1>1, <1>4, <1>5 DEF n, u

\* ... with the given payload ...
LEMMA EnqueueJobPayload ==
    ASSUME NEW t, NEW data, HasFreshId(t)
    PROVE  EnqueueJob(t, data)[FreshId(t)].data = data
<1>1. FreshId(t) \notin DOMAIN t
  BY DEF FreshId, HasFreshId
<1> QED
  BY <1>1 DEF EnqueueJob

\* ... and leaves the others alone.
LEMMA EnqueueJobKeeps ==
    ASSUME NEW t, NEW data, NEW id \in DOMAIN t
    PROVE  EnqueueJob(t, data)[id] = t[id]
BY DEF EnqueueJob

\* A batch consists of rows of the table.
LEMMA BatchOfRows ==
    ASSUME NEW t, NEW size
    PROVE  BatchOf(t, size) \subseteq DOMAIN t
BY DEF BatchOf, Eligible

\* The UPDATE of a batch keeps ids and payloads.
LEMMA GetJobBatchKeeps ==
    ASSUME NEW Data, NEW t, IsTable(t, Data), NEW ids
    PROVE  IsTable(GetJobBatch(t, ids), Data) /\ SameData(t, GetJobBatch(t, ids))
<1> DEFINE u == GetJobBatch(t, ids)
<1>1. DOMAIN u = DOMAIN t
  BY DEF GetJobBatch
<1>2. ASSUME NEW id \in DOMAIN t
      PROVE  u[id] \in JobRow(Data) /\ u[id].data = t[id].data
  <2>1. t[id] \in JobRow(Data)
    BY DEF IsTable
  <2> QED
    BY <2>1 DEF GetJobBatch, JobRow
<1> QED
  BY <1>1, <1>2 DEF IsTable, SameData, GetJobBatch

\* DELETE keeps the payloads of the other rows ...
LEMMA DeleteJobKeeps ==
    ASSUME NEW Data, NEW t, IsTable(t, Data), NEW id \in DOMAIN t,
           NEW x \in DOMAIN t \ {id}
    PROVE  /\ DeleteJobFromQueue(t, id)[x] \in JobRow(Data)
           /\ DeleteJobFromQueue(t, id)[x].data = t[x].data
<1> DEFINE r == DeleteJobFromQueue(t, id)[x]
<1>1. t[x] \in JobRow(Data) /\ t[id] \in JobRow(Data)
  BY DEF IsTable
<1>2. t[x].due \in Nat /\ t[id].due \in Nat
  BY <1>1 DEF JobRow
<1>3. CASE IsDue(t, id) /\ t[id].due < t[x].due
  <2>1. r = [t[x] EXCEPT !.due = @ - 1]
    BY <1>3 DEF DeleteJobFromQueue
  <2>2. t[x].due - 1 \in Nat
    BY <1>2, <1>3 DEF IsDue
  <2> QED
    BY <1>1, <2>1, <2>2 DEF JobRow
<1>4. CASE ~(IsDue(t, id) /\ t[id].due < t[x].due)
  BY <1>1, <1>4 DEF DeleteJobFromQueue
<1> QED
  BY <1>3, <1>4

\* ... and takes the row away.
LEMMA DeleteJobRemoves ==
    ASSUME NEW Data, NEW t, IsTable(t, Data), NEW id \in DOMAIN t
    PROVE  /\ IsTable(DeleteJobFromQueue(t, id), Data)
           /\ DOMAIN DeleteJobFromQueue(t, id) = DOMAIN t \ {id}
<1> DEFINE u == DeleteJobFromQueue(t, id)
<1>1. DOMAIN u = DOMAIN t \ {id} /\ u = [x \in DOMAIN u |-> u[x]]
  BY DEF DeleteJobFromQueue
<1>2. \A x \in DOMAIN t \ {id} : u[x] \in JobRow(Data)
  BY DeleteJobKeeps
<1> HIDE DEF u
<1>3. IsTable(u, Data)
  BY <1>1, <1>2 DEF IsTable
<1> QED
  BY <1>1, <1>3 DEF u

\* A row that becomes due keeps its payload.
LEMMA BecomeDueKeeps ==
    ASSUME NEW Data, NEW t, IsTable(t, Data), NEW id \in DOMAIN t
    PROVE  IsTable(BecomeDue(t, id), Data) /\ SameData(t, BecomeDue(t, id))
<1> DEFINE D == {x \in DOMAIN t : IsDue(t, x)}
           u == BecomeDue(t, id)
<1>1. Cardinality(D) \in Nat
  <2>1. D \subseteq JobId
    BY DEF IsTable
  <2> QED
    BY <2>1, JobIdAssumption, FS_Subset, FS_CardinalityType
<1>2. u = [t EXCEPT ![id].due = Cardinality(D) + 1]
  BY DEF BecomeDue
<1> HIDE DEF D, u
<1>3. DOMAIN u = DOMAIN t /\ u = [x \in DOMAIN u |-> u[x]]
  BY <1>2 DEF IsTable
<1>4. ASSUME NEW x \in DOMAIN t
      PROVE  u[x] \in JobRow(Data) /\ u[x].data = t[x].data
  <2>1. t[x] \in JobRow(Data)
    BY DEF IsTable
  <2>2. CASE x = id
    BY <1>1, <1>2, <2>1, <2>2 DEF JobRow
  <2>3. CASE x # id
    BY <1>2, <2>1, <2>3
  <2> QED
    BY <2>2, <2>3
<1>5. IsTable(u, Data)
  BY <1>3, <1>4 DEF IsTable
<1> QED
  BY <1>3, <1>4, <1>5 DEF SameData, u

\* So do the rows that stall.
LEMMA AgeRunningKeeps ==
    ASSUME NEW Data, NEW t, IsTable(t, Data)
    PROVE  IsTable(AgeRunning(t), Data) /\ SameData(t, AgeRunning(t))
<1> DEFINE u == AgeRunning(t)
<1>1. DOMAIN u = DOMAIN t
  BY DEF AgeRunning
<1>2. ASSUME NEW id \in DOMAIN t
      PROVE  u[id] \in JobRow(Data) /\ u[id].data = t[id].data
  <2>1. t[id] \in JobRow(Data)
    BY DEF IsTable
  <2>2. u[id] = [t[id] EXCEPT !.stalled = (@ \/ t[id].status = "Running")]
    BY DEF AgeRunning
  <2>3. (t[id].stalled \/ t[id].status = "Running") \in BOOLEAN
    OBVIOUS
  <2> QED
    BY <2>1, <2>2, <2>3 DEF JobRow
<1> QED
  BY <1>1, <1>2 DEF IsTable, SameData, AgeRunning

-----------------------------------------------------------------------------
(* The queue *)

\* The job being processed is no longer in the batch.
JobOffBatch == executor.pc \notin {"idle", "next"} => executor.job \notin batch

\* A retry is only asked for while there are some left.
RetryHasBudget == executor.pc = "requeue" => job.failures < RetriesMax

TInv == TypeOK /\ JobOffBatch /\ RetryHasBudget

\* The executor in the middle of a job.
LEMMA BusyExecutor ==
    ASSUME TypeOK, executor.pc \notin {"idle", "next"}
    PROVE  /\ executor.pc \in {"handle", "requeue", "delete"}
           /\ executor.job \in DOMAIN table
           /\ executor.job \in JobId
           /\ executor = [pc |-> executor.pc, job |-> executor.job]
           /\ \A p \in {"handle", "requeue", "delete"} :
                [executor EXCEPT !.pc = p] = [pc |-> p, job |-> executor.job]
           /\ job \in JobData
           /\ job.activity \in Activity
           /\ job.failures \in 0..RetriesMax
<1>1. executor \in [pc : {"handle", "requeue", "delete"}, job : JobId]
  BY DEF TypeOK, Busy, Idle
<1>2. executor.job \in DOMAIN table
  BY DEF TypeOK
<1>3. table[executor.job].data \in JobData
  BY <1>2 DEF TypeOK, IsTable, JobRow
<1> QED
  BY <1>1, <1>2, <1>3 DEF job, JobData

LEMMA InitTInv == Init => TInv
BY IncomingAssumption
   DEF Init, TInv, TypeOK, JobOffBatch, RetryHasBudget, IsTable, EmptyTable,
       Idle, accepted

LEMMA NextTInv == TInv /\ [Next]_vars => TInv'
<1> SUFFICES ASSUME TInv, [Next]_vars PROVE TInv'
  OBVIOUS
<1> USE DEF TInv
<1> USE IncomingAssumption
<1>1. ASSUME NEW a \in Activity, Receive(a) PROVE TInv'
  <2>1. PICK q \in QueuedKinds :
          /\ table' = EnqueueJob(table, [activity |-> a, authenticated |-> q.authenticated,
                                         failures |-> 0])
          /\ origin' = [x \in accepted \cup {a} |-> IF x = a THEN q.origin ELSE origin[x]]
    BY <1>1 DEF Receive
  <2> DEFINE d == [activity |-> a, authenticated |-> q.authenticated, failures |-> 0]
  <2>2. d \in JobData /\ q.origin \in Origin
    BY <2>1, QueuedKindsType DEF JobData
  <2>3. table' = EnqueueJob(table, d) /\ HasFreshId(table) /\ IsTable(table, JobData)
    BY <1>1, <2>1 DEF Receive, TypeOK
  <2> HIDE DEF d
  <2>4. /\ IsTable(table', JobData)
        /\ DOMAIN table \subseteq DOMAIN table'
    <3>1. /\ IsTable(EnqueueJob(table, d), JobData)
          /\ DOMAIN EnqueueJob(table, d) = DOMAIN table \cup {FreshId(table)}
      BY <2>2, <2>3, EnqueueJobAdds
    <3> QED
      BY <2>3, <3>1
  <2>5. \A id \in DOMAIN table : table'[id] = table[id]
    BY <2>3, EnqueueJobKeeps
  <2>6. accepted' = accepted \cup {a} /\ \A x \in accepted' : origin'[x] \in Origin
    BY <2>1, <2>2 DEF accepted, TypeOK
  <2>7. executor' = executor /\ batch' = batch /\ settled' = settled /\ aborts' = aborts
    BY <1>1 DEF Receive
  <2>8. TypeOK'
    BY <2>4, <2>6, <2>7 DEF TypeOK
  <2>9. JobOffBatch'
    BY <2>7 DEF JobOffBatch
  <2>10. RetryHasBudget'
    BY <2>7, <2>5, BusyExecutor DEF RetryHasBudget, job
  <2> QED
    BY <2>8, <2>9, <2>10
<1>2. ASSUME StartBatch PROVE TInv'
  <2>1. /\ IsTable(table', JobData)
        /\ DOMAIN table' = DOMAIN table
    BY <1>2, GetJobBatchKeeps DEF StartBatch, TypeOK, SameData
  <2>2. batch' \subseteq DOMAIN table'
    BY <1>2, <2>1, BatchOfRows DEF StartBatch
  <2>3. executor' = [pc |-> "next"]
    BY <1>2 DEF StartBatch
  <2> QED
    BY <1>2, <2>1, <2>2, <2>3
    DEF StartBatch, TypeOK, JobOffBatch, RetryHasBudget, Busy, history, accepted
<1>3. CASE EmptyBatch \/ UNCHANGED vars
  BY <1>3 DEF EmptyBatch, vars, history, TypeOK, JobOffBatch, RetryHasBudget, job, accepted
<1>4. ASSUME NEW id \in JobId, StartHandler(id) PROVE TInv'
  <2>1. id \in DOMAIN table /\ executor' = [pc |-> "handle", job |-> id] /\ id \notin batch'
    BY <1>4 DEF StartHandler, TypeOK
  <2> QED
    BY <1>4, <2>1
    DEF StartHandler, TypeOK, JobOffBatch, RetryHasBudget, Busy, history, accepted
<1>5. CASE EndBatch \/ Abort
  BY <1>5
  DEF EndBatch, Abort, TypeOK, JobOffBatch, RetryHasBudget, Idle, history, accepted
<1>6. CASE HandlerSucceeds \/ HandlerTimesOut \/ \E recursion \in BOOLEAN : HandlerFails(recursion)
  <2>1. /\ executor.pc = "handle"
        /\ UNCHANGED <<table, batch, origin, aborts>>
        /\ \/ executor' = [executor EXCEPT !.pc = "delete"]
           \/ executor' = [executor EXCEPT !.pc = "requeue"] /\ RetriesLeft
        /\ settled' \subseteq settled \cup {activity}
    BY <1>6 DEF HandlerSucceeds, HandlerTimesOut, HandlerFails
  <2>2. \/ executor' = [pc |-> "delete", job |-> executor.job]
        \/ executor' = [pc |-> "requeue", job |-> executor.job] /\ RetriesLeft
    BY <2>1, BusyExecutor
  <2>3. TypeOK'
    BY <2>1, <2>2, BusyExecutor DEF TypeOK, Busy, activity, accepted
  <2>4. JobOffBatch'
    BY <2>1, <2>2 DEF JobOffBatch
  <2>5. RetryHasBudget'
    BY <2>1, <2>2, BusyExecutor DEF RetryHasBudget, RetriesLeft, job
  <2> QED
    BY <2>3, <2>4, <2>5
<1>7. ASSUME Requeue PROVE TInv'
  <2> DEFINE d == [job EXCEPT !.failures = @ + 1]
  <2>1. executor.pc = "requeue" /\ HasFreshId(table)
    BY <1>7 DEF Requeue
  <2>2. d \in JobData
    BY <2>1, BusyExecutor DEF JobData, RetryHasBudget
  <2>3. table' = EnqueueJob(table, d) /\ IsTable(table, JobData)
    BY <1>7 DEF Requeue, TypeOK
  <2> HIDE DEF d
  <2>4. /\ IsTable(table', JobData)
        /\ DOMAIN table \subseteq DOMAIN table'
    <3>1. /\ IsTable(EnqueueJob(table, d), JobData)
          /\ DOMAIN EnqueueJob(table, d) = DOMAIN table \cup {FreshId(table)}
      BY <2>1, <2>2, <2>3, EnqueueJobAdds
    <3> QED
      BY <2>3, <3>1
  <2>5. executor' = [pc |-> "delete", job |-> executor.job]
    BY <1>7, <2>1, BusyExecutor DEF Requeue
  <2> QED
    BY <1>7, <2>1, <2>4, <2>5, BusyExecutor
    DEF Requeue, TypeOK, JobOffBatch, RetryHasBudget, Busy, history, accepted
<1>8. ASSUME DeleteJob PROVE TInv'
  <2>1. executor.pc = "delete" /\ executor.job \in DOMAIN table
    BY <1>8, BusyExecutor DEF DeleteJob
  <2>2. IsTable(table', JobData) /\ DOMAIN table' = DOMAIN table \ {executor.job}
    BY <1>8, <2>1, DeleteJobRemoves DEF DeleteJob, TypeOK
  <2>3. batch' \subseteq DOMAIN table'
    BY <1>8, <2>1, <2>2 DEF DeleteJob, TypeOK, JobOffBatch
  <2> QED
    BY <1>8, <2>2, <2>3
    DEF DeleteJob, TypeOK, JobOffBatch, RetryHasBudget, Busy, history, accepted
<1>9. CASE (\E id \in JobId : RowBecomesDue(id)) \/ JobTimeout
  <2>1. IsTable(table', JobData) /\ SameData(table, table')
    BY <1>9, BecomeDueKeeps, AgeRunningKeeps DEF RowBecomesDue, JobTimeout, TypeOK
  <2>2. UNCHANGED <<batch, executor, origin, settled, aborts>>
    BY <1>9 DEF RowBecomesDue, JobTimeout, history
  <2>3. TypeOK' /\ JobOffBatch'
    BY <2>1, <2>2 DEF TypeOK, JobOffBatch, SameData, accepted
  <2>4. RetryHasBudget'
    BY <2>1, <2>2, BusyExecutor DEF RetryHasBudget, SameData, job
  <2> QED
    BY <2>3, <2>4
<1> QED
  BY <1>1, <1>2, <1>3, <1>4, <1>5, <1>6, <1>7, <1>8, <1>9 DEF Next, Execute

\* The type invariant of the queue.
THEOREM IncomingTypeCorrect == Spec => []TypeOK
<1>1. TInv => TypeOK
  BY DEF TInv
<1> QED
  BY <1>1, InitTInv, NextTInv, PTL DEF Spec

-----------------------------------------------------------------------------
(* What is in the queue *)

RowsAccepted == \A id \in DOMAIN table : table[id].data.activity \in accepted

\* The row of a job is deleted when the activity is done with, or has a retry.
DeleteSafe ==
    executor.pc = "delete" =>
        \/ activity \in settled
        \/ \E id \in DOMAIN table \ {executor.job} : table[id].data.activity = activity

QInv ==
    /\ RowsAccepted
    /\ settled \subseteq accepted
    /\ DeleteSafe
    /\ NoActivityLost
    /\ OriginRespected

\* A step that leaves the payloads alone, and does not begin to delete.
Quiet ==
    /\ SameData(table, table')
    /\ UNCHANGED <<origin, settled>>
    /\ executor'.pc = "delete" => executor' = executor

\* A step with which the executor is done with its activity.
Finish ==
    /\ executor.pc = "handle"
    /\ UNCHANGED <<table, origin>>
    /\ settled' = settled \cup {activity}
    /\ executor' = [pc |-> "delete", job |-> executor.job]

LEMMA RowsOfActivity ==
    \A a : RowsOf(a) = {id \in DOMAIN table : table[id].data.activity = a}
BY DEF RowsOf, RowsWith

LEMMA KindsOfSteps ==
    ASSUME TInv, [Next]_vars
    PROVE  Quiet \/ Finish \/ (\E a \in Activity : Receive(a)) \/ Requeue \/ DeleteJob
<1> USE DEF TInv
<1>1. ASSUME StartBatch PROVE Quiet
  <2>1. SameData(table, table')
    BY <1>1, GetJobBatchKeeps DEF StartBatch, TypeOK
  <2> QED
    BY <1>1, <2>1 DEF StartBatch, Quiet, history
<1>2. CASE EmptyBatch \/ UNCHANGED vars
  BY <1>2 DEF EmptyBatch, vars, history, Quiet, SameData
<1>3. CASE EndBatch \/ Abort \/ \E id \in JobId : StartHandler(id)
  BY <1>3 DEF EndBatch, Abort, StartHandler, Idle, history, Quiet, SameData
<1>4. CASE HandlerSucceeds \/ HandlerTimesOut \/ \E recursion \in BOOLEAN : HandlerFails(recursion)
  <2>1. /\ executor.pc = "handle"
        /\ UNCHANGED <<table, origin>>
        /\ \/ executor' = [executor EXCEPT !.pc = "delete"] /\ settled' = settled \cup {activity}
           \/ executor' = [executor EXCEPT !.pc = "requeue"] /\ settled' = settled
    BY <1>4 DEF HandlerSucceeds, HandlerTimesOut, HandlerFails
  <2>2. CASE executor' = [executor EXCEPT !.pc = "delete"] /\ settled' = settled \cup {activity}
    BY <2>1, <2>2, BusyExecutor DEF Finish
  <2>3. CASE executor' = [executor EXCEPT !.pc = "requeue"] /\ settled' = settled
    <3>1. executor' = [pc |-> "requeue", job |-> executor.job]
      BY <2>1, <2>3, BusyExecutor
    <3> QED
      BY <2>1, <2>3, <3>1 DEF Quiet, SameData
  <2> QED
    BY <2>1, <2>2, <2>3
<1>5. CASE (\E id \in JobId : RowBecomesDue(id)) \/ JobTimeout
  <2>1. SameData(table, table')
    BY <1>5, BecomeDueKeeps, AgeRunningKeeps DEF RowBecomesDue, JobTimeout, TypeOK
  <2> QED
    BY <1>5, <2>1 DEF RowBecomesDue, JobTimeout, history, Quiet
<1> QED
  BY <1>1, <1>2, <1>3, <1>4, <1>5 DEF Next, Execute

LEMMA QuietQInv ==
    ASSUME TInv, QInv, Quiet
    PROVE  QInv' /\ \A a : RowsOf(a)' = RowsOf(a)
<1>1. /\ DOMAIN table' = DOMAIN table
      /\ \A id \in DOMAIN table : table'[id].data = table[id].data
      /\ origin' = origin /\ accepted' = accepted /\ settled' = settled
  BY DEF Quiet, SameData, accepted
<1>2. \A a : RowsOf(a)' = RowsOf(a)
  BY <1>1 DEF RowsOf, RowsWith
<1>3. RowsAccepted' /\ settled' \subseteq accepted' /\ OriginRespected'
  BY <1>1 DEF QInv, RowsAccepted, OriginRespected
<1>4. DeleteSafe'
  <2> SUFFICES ASSUME executor.pc = "delete", executor' = executor
               PROVE  DeleteSafe'
    BY DEF DeleteSafe, Quiet
  <2>1. executor.job \in DOMAIN table
    BY BusyExecutor DEF TInv
  <2> QED
    BY <1>1, <2>1 DEF QInv, DeleteSafe, activity, job
<1>5. NoActivityLost'
  BY <1>1, <1>2 DEF QInv, NoActivityLost
<1> QED
  BY <1>2, <1>3, <1>4, <1>5 DEF QInv

LEMMA FinishQInv ==
    ASSUME TInv, QInv, Finish
    PROVE  /\ QInv'
           /\ \A a : RowsOf(a)' = RowsOf(a)
           /\ activity \in Activity /\ RowsOf(activity) # {}
<1>1. executor.job \in DOMAIN table /\ activity \in Activity
  BY BusyExecutor DEF TInv, Finish, activity
<1>2. \A a : RowsOf(a)' = RowsOf(a)
  BY DEF RowsOf, RowsWith, Finish
<1>3. RowsOf(activity) # {}
  BY <1>1, RowsOfActivity DEF activity, job
<1>4. accepted' = accepted /\ RowsAccepted' /\ OriginRespected'
  BY DEF QInv, Finish, RowsAccepted, OriginRespected, accepted
<1>5. activity \in accepted /\ settled' \subseteq accepted'
  BY <1>1, <1>4 DEF QInv, RowsAccepted, Finish, activity, job
<1>6. DeleteSafe'
  BY DEF DeleteSafe, Finish, activity, job
<1>7. NoActivityLost'
  BY <1>2, <1>4 DEF QInv, NoActivityLost, Finish
<1> QED
  BY <1>1, <1>2, <1>3, <1>4, <1>5, <1>6, <1>7 DEF QInv

LEMMA ReceiveQInv ==
    ASSUME TInv, QInv, NEW a \in Activity, Receive(a)
    PROVE  /\ QInv'
           /\ accepted' = accepted \cup {a}
           /\ RowsOf(a)' # {}
           /\ \A x : x # a => RowsOf(x)' = RowsOf(x)
<1>1. PICK q \in QueuedKinds :
        /\ table' = EnqueueJob(table, [activity |-> a, authenticated |-> q.authenticated,
                                       failures |-> 0])
        /\ origin' = [x \in accepted \cup {a} |-> IF x = a THEN q.origin ELSE origin[x]]
  BY DEF Receive
<1> DEFINE d == [activity |-> a, authenticated |-> q.authenticated, failures |-> 0]
           n == FreshId(table)
<1>2. d \in JobData
  <2>1. q.authenticated \in BOOLEAN
    BY QueuedKindsType
  <2> QED
    BY <2>1, IncomingAssumption DEF JobData
<1>3. d.activity = a /\ d.authenticated = q.authenticated
  OBVIOUS
<1>4. table' = EnqueueJob(table, d) /\ HasFreshId(table) /\ IsTable(table, JobData)
  BY <1>1 DEF Receive, TInv, TypeOK
<1> HIDE DEF d
<1>5. n \notin DOMAIN table /\ DOMAIN table' = DOMAIN table \cup {n} /\ table'[n].data = d
  BY <1>2, <1>4, EnqueueJobAdds, EnqueueJobPayload
<1>6. \A id \in DOMAIN table : table'[id] = table[id]
  BY <1>4, EnqueueJobKeeps
<1> HIDE DEF n
<1>7. /\ accepted' = accepted \cup {a}
      /\ a \notin accepted
      /\ executor' = executor /\ settled' = settled
      /\ origin'[a] = q.origin
      /\ \A x \in accepted : origin'[x] = origin[x]
  BY <1>1 DEF Receive, accepted
<1>8. RowsOf(a)' # {} /\ \A x : x # a => RowsOf(x)' = RowsOf(x)
  BY <1>3, <1>5, <1>6 DEF RowsOf, RowsWith
<1>9. RowsAccepted'
  BY <1>3, <1>5, <1>6, <1>7 DEF QInv, RowsAccepted
<1>10. settled' \subseteq accepted'
  BY <1>7 DEF QInv
<1>11. DeleteSafe'
  <2> SUFFICES ASSUME executor.pc = "delete" PROVE DeleteSafe'
    BY <1>7 DEF DeleteSafe
  <2>1. executor.job \in DOMAIN table
    BY BusyExecutor DEF TInv
  <2> QED
    BY <1>5, <1>6, <1>7, <2>1 DEF QInv, DeleteSafe, activity, job
<1>12. NoActivityLost'
  BY <1>7, <1>8 DEF QInv, NoActivityLost
<1>13. OriginRespected'
  <2>1. q.origin # "forged" /\ (q.authenticated <=> q.origin = "actor")
    BY QueuedOrigin
  <2>2. \A x \in accepted' : origin'[x] # "forged"
    BY <1>7, <2>1 DEF QInv, OriginRespected
  <2>3. ASSUME NEW id \in DOMAIN table
        PROVE  table'[id].data.authenticated <=> origin'[table'[id].data.activity] = "actor"
    BY <1>6, <1>7, <2>3 DEF QInv, OriginRespected, RowsAccepted
  <2>4. table'[n].data.authenticated <=> origin'[table'[n].data.activity] = "actor"
    BY <1>3, <1>5, <1>7, <2>1
  <2> QED
    BY <1>5, <2>2, <2>3, <2>4 DEF OriginRespected
<1> QED
  BY <1>7, <1>8, <1>9, <1>10, <1>11, <1>12, <1>13 DEF QInv

LEMMA RequeueQInv ==
    ASSUME TInv, QInv, Requeue
    PROVE  /\ QInv'
           /\ \A a : (RowsOf(a)' # {}) <=> (RowsOf(a) # {})
<1> DEFINE d == [job EXCEPT !.failures = @ + 1]
           n == FreshId(table)
<1>1. /\ executor.job \in DOMAIN table
      /\ executor' = [pc |-> "delete", job |-> executor.job]
      /\ job \in JobData
      /\ job.failures \in Nat /\ job.failures < RetriesMax
  BY BusyExecutor, IncomingAssumption DEF TInv, Requeue, RetryHasBudget
<1>2. d \in JobData /\ d.activity = activity /\ d.authenticated = job.authenticated
  BY <1>1, IncomingAssumption DEF JobData, activity
<1>3. table' = EnqueueJob(table, d) /\ HasFreshId(table) /\ IsTable(table, JobData)
  BY DEF Requeue, TInv, TypeOK
<1> HIDE DEF d
<1>4. n \notin DOMAIN table /\ DOMAIN table' = DOMAIN table \cup {n} /\ table'[n].data = d
  BY <1>2, <1>3, EnqueueJobAdds, EnqueueJobPayload
<1>5. \A id \in DOMAIN table : table'[id] = table[id]
  BY <1>3, EnqueueJobKeeps
<1> HIDE DEF n
<1>6. origin' = origin /\ accepted' = accepted /\ settled' = settled
  BY DEF Requeue, history, accepted
<1>7. activity \in accepted
  BY <1>1 DEF QInv, RowsAccepted, activity, job
<1>8. \A a : (RowsOf(a)' # {}) <=> (RowsOf(a) # {})
  BY <1>1, <1>2, <1>4, <1>5 DEF RowsOf, RowsWith, activity, job
<1>9. RowsAccepted'
  BY <1>2, <1>4, <1>5, <1>6, <1>7 DEF QInv, RowsAccepted
<1>10. DeleteSafe'
  <2>1. activity' = activity /\ executor'.job = executor.job
    BY <1>1, <1>5 DEF activity, job
  <2>2. n \in DOMAIN table' \ {executor'.job} /\ table'[n].data.activity = activity'
    BY <1>1, <1>2, <1>4, <2>1
  <2> QED
    BY <2>2 DEF DeleteSafe
<1>11. NoActivityLost'
  BY <1>6, <1>8 DEF QInv, NoActivityLost
<1>12. OriginRespected'
  <2>1. d.authenticated <=> origin[d.activity] = "actor"
    BY <1>1, <1>2 DEF QInv, OriginRespected, activity, job
  <2> QED
    BY <1>4, <1>5, <1>6, <2>1 DEF QInv, OriginRespected
<1> QED
  BY <1>6, <1>8, <1>9, <1>10, <1>11, <1>12 DEF QInv

LEMMA DeleteQInv ==
    ASSUME TInv, QInv, DeleteJob, NEW i, i = activity
    PROVE  /\ QInv'
           /\ i \in Activity /\ RowsOf(i) # {}
           /\ \A a : a # i => RowsOf(a)' = RowsOf(a)
           /\ RowsOf(i)' = {} => i \in settled
<1>1. executor.pc = "delete" /\ executor.job \in DOMAIN table /\ i \in Activity
  BY BusyExecutor DEF TInv, DeleteJob, activity
<1>2. DOMAIN table' = DOMAIN table \ {executor.job}
  BY <1>1, DeleteJobRemoves DEF DeleteJob, TInv, TypeOK
<1>3. \A x \in DOMAIN table \ {executor.job} : table'[x].data = table[x].data
  BY <1>1, DeleteJobKeeps DEF DeleteJob, TInv, TypeOK
<1>4. origin' = origin /\ accepted' = accepted /\ settled' = settled
  BY DEF DeleteJob, history, accepted
<1>5. \A a : a # i => RowsOf(a)' = RowsOf(a)
  BY <1>2, <1>3 DEF RowsOf, RowsWith, activity, job
<1>6. RowsOf(i)' = {} => i \in settled
  <2> SUFFICES ASSUME i \notin settled PROVE RowsOf(i)' # {}
    OBVIOUS
  <2>1. PICK id \in DOMAIN table \ {executor.job} : table[id].data.activity = i
    BY <1>1 DEF QInv, DeleteSafe
  <2>2. id \in DOMAIN table' /\ table'[id].data.activity = i
    BY <1>2, <1>3, <2>1
  <2> QED
    BY <2>2 DEF RowsOf, RowsWith
<1>7. RowsOf(i) # {}
  BY <1>1, RowsOfActivity DEF activity, job
<1>8. RowsAccepted' /\ OriginRespected'
  BY <1>2, <1>3, <1>4 DEF QInv, RowsAccepted, OriginRespected
<1>9. DeleteSafe'
  BY DEF DeleteJob, DeleteSafe
<1>10. NoActivityLost'
  BY <1>4, <1>5, <1>6 DEF QInv, NoActivityLost
<1> QED
  BY <1>1, <1>4, <1>5, <1>6, <1>7, <1>8, <1>9, <1>10 DEF QInv

-----------------------------------------------------------------------------
(* Theorems *)

LEMMA InitQInv == Init => QInv
BY DEF Init, QInv, RowsAccepted, DeleteSafe, NoActivityLost, OriginRespected,
       EmptyTable, Idle, accepted

LEMMA NextQInv == TInv /\ QInv /\ [Next]_vars => QInv'
<1> SUFFICES ASSUME TInv, QInv, [Next]_vars PROVE QInv'
  OBVIOUS
<1>1. CASE Quiet
  BY <1>1, QuietQInv
<1>2. CASE Finish
  BY <1>2, FinishQInv
<1>3. CASE \E a \in Activity : Receive(a)
  BY <1>3, ReceiveQInv
<1>4. CASE Requeue
  BY <1>4, RequeueQInv
<1>5. CASE DeleteJob
  BY <1>5, DeleteQInv
<1> QED
  BY <1>1, <1>2, <1>3, <1>4, <1>5, KindsOfSteps

\* An accepted activity is in the queue until the executor is done with it.
THEOREM IncomingNothingLost == Spec => []NoActivityLost
<1>1. QInv => NoActivityLost
  BY DEF QInv
<1> QED
  BY <1>1, InitTInv, NextTInv, InitQInv, NextQInv, PTL DEF Spec

\* What the queue processes in the name of an actor, the actor has signed.
THEOREM IncomingOriginRespected == Spec => []OriginRespected
<1>1. QInv => OriginRespected
  BY DEF QInv
<1> QED
  BY <1>1, InitTInv, NextTInv, InitQInv, NextQInv, PTL DEF Spec

LEMMA MailboxInit == Init => Mailbox!Init
BY RowsOfActivity DEF Init, Mailbox!Init, EmptyTable, accepted

LEMMA MailboxStep == TInv /\ QInv /\ [Next]_vars => [Mailbox!Next]_Mailbox!vars
<1> DEFINE W == {a \in Activity : RowsOf(a) # {}}
<1> SUFFICES ASSUME TInv, QInv, [Next]_vars
             PROVE  Mailbox!Next \/ UNCHANGED <<accepted, W, settled>>
  BY DEF Mailbox!vars
<1>1. CASE Quiet
  <2>1. \A a : RowsOf(a)' = RowsOf(a)
    BY <1>1, QuietQInv
  <2>2. W' = W
    BY <2>1
  <2> QED
    BY <1>1, <2>2 DEF Quiet, accepted
<1>2. ASSUME Finish, NEW i, i = activity PROVE Mailbox!Next
  <2>1. (\A a : RowsOf(a)' = RowsOf(a)) /\ i \in Activity /\ RowsOf(i) # {}
    BY <1>2, FinishQInv
  <2>2. W' = W /\ i \in W
    BY <2>1
  <2>3. accepted' = accepted /\ settled' = settled \cup {i}
    BY <1>2 DEF Finish, accepted
  <2>4. Mailbox!DealWith(i)
    BY <2>2, <2>3 DEF Mailbox!DealWith
  <2> QED
    BY <2>1, <2>4 DEF Mailbox!Next
<1>3. ASSUME NEW a \in Activity, Receive(a) PROVE Mailbox!Next
  <2>1. /\ accepted' = accepted \cup {a}
        /\ RowsOf(a)' # {}
        /\ \A x : x # a => RowsOf(x)' = RowsOf(x)
    BY <1>3, ReceiveQInv
  <2>2. W' = W \cup {a}
    BY <2>1
  <2>3. Mailbox!Accept(a)
    BY <1>3, <2>1, <2>2 DEF Receive, Mailbox!Accept
  <2> QED
    BY <2>3 DEF Mailbox!Next
<1>4. CASE Requeue
  <2>1. \A a : (RowsOf(a)' # {}) <=> (RowsOf(a) # {})
    BY <1>4, RequeueQInv
  <2>2. W' = W
    BY <2>1
  <2> QED
    BY <1>4, <2>2 DEF Requeue, history, accepted
<1>5. ASSUME DeleteJob, NEW i, i = activity
      PROVE  Mailbox!Next \/ UNCHANGED <<accepted, W, settled>>
  <2>1. /\ i \in Activity /\ RowsOf(i) # {}
        /\ \A a : a # i => RowsOf(a)' = RowsOf(a)
        /\ RowsOf(i)' = {} => i \in settled
    BY <1>5, DeleteQInv
  <2>2. accepted' = accepted /\ settled' = settled
    BY <1>5 DEF DeleteJob, history, accepted
  <2>3. CASE RowsOf(i)' = {}
    <3>1. W' = W \ {i} /\ i \in settled
      BY <2>1, <2>3
    <3>2. Mailbox!Drop(i)
      BY <2>2, <3>1 DEF Mailbox!Drop
    <3> QED
      BY <2>1, <3>2 DEF Mailbox!Next
  <2>4. CASE RowsOf(i)' # {}
    <3>1. W' = W
      BY <2>1, <2>4
    <3> QED
      BY <2>2, <3>1
  <2> QED
    BY <2>3, <2>4
<1> QED
  BY <1>1, <1>2, <1>3, <1>4, <1>5, KindsOfSteps

\* The queue implements AtLeastOnce.
THEOREM IncomingDeliversAtLeastOnce == Spec => DeliversAtLeastOnce
<1> QED
  BY MailboxInit, MailboxStep, InitTInv, NextTInv, InitQInv, NextQInv, PTL
  DEF Spec, DeliversAtLeastOnce, Mailbox!Spec

-----------------------------------------------------------------------------
(* Sequences of the importer *)

LEMMA FrontOf ==
    ASSUME NEW T, NEW q \in Seq(T), q # <<>>
    PROVE  /\ Front(q) \in Seq(T) /\ Len(Front(q)) = Len(q) - 1
           /\ \A k \in 1..(Len(q) - 1) : Front(q)[k] = q[k]
           /\ Len(q) \in Nat \ {0}
           /\ Last(q) = q[Len(q)] /\ Last(q) \in T
<1>1. Len(q) \in Nat \ {0} /\ \A k \in 1..Len(q) : q[k] \in T
  OBVIOUS
<1>2. /\ SubSeq(q, 1, Len(q) - 1) \in Seq(T) /\ Len(SubSeq(q, 1, Len(q) - 1)) = Len(q) - 1
      /\ \A k \in 1..(Len(q) - 1) : SubSeq(q, 1, Len(q) - 1)[k] = q[k]
  <2>1. PICK n : n = Len(q) - 1
    OBVIOUS
  <2>2. n \in Nat /\ n \in Int /\ \A k \in 1..n : q[k] \in T
    BY <1>1, <2>1
  <2>3. /\ SubSeq(q, 1, n) \in Seq(T)
        /\ Len(SubSeq(q, 1, n)) = IF 1 <= n THEN n - 1 + 1 ELSE 0
        /\ \A k \in 1..(n - 1 + 1) : SubSeq(q, 1, n)[k] = q[1 + k - 1]
    BY <2>2, SubSeqProperties
  <2> QED
    BY <2>1, <2>2, <2>3
<1> QED
  BY <1>1, <1>2 DEF Front, Last

LEMMA ReverseOf ==
    ASSUME NEW T, NEW q \in Seq(T)
    PROVE  /\ Reverse(q) \in Seq(T) /\ Len(Reverse(q)) = Len(q)
           /\ \A k \in 1..Len(q) : Reverse(q)[k] = q[Len(q) - k + 1]
<1>1. Len(q) \in Nat /\ \A k \in 1..Len(q) : Len(q) - k + 1 \in 1..Len(q) /\ q[Len(q) - k + 1] \in T
  OBVIOUS
<1>2. Reverse(q) = [k \in 1..Len(q) |-> q[Len(q) - k + 1]]
  BY DEF Reverse
<1>3. Reverse(q) \in [1..Len(q) -> T]
  BY <1>1, <1>2
<1>4. Reverse(q) \in Seq(T)
  BY <1>1, <1>3
<1> QED
  BY <1>1, <1>2, <1>4

LEMMA SetOfSeq ==
    ASSUME NEW T, NEW q \in Seq(T)
    PROVE  /\ \A x : x \in ToSet(q) <=> \E k \in 1..Len(q) : q[k] = x
           /\ ToSet(q) \subseteq T
BY DEF ToSet

LEMMA TailOf ==
    ASSUME NEW T, NEW q \in Seq(T), q # <<>>
    PROVE  /\ Tail(q) \in Seq(T) /\ Len(Tail(q)) = Len(q) - 1 /\ Len(q) \in Nat \ {0}
           /\ \A k \in 1..(Len(q) - 1) : Tail(q)[k] = q[k + 1]
           /\ ToSet(Tail(q)) \subseteq ToSet(q)
<1>1. /\ Tail(q) \in Seq(T) /\ Len(Tail(q)) = Len(q) - 1 /\ Len(q) \in Nat \ {0}
      /\ \A k \in 1..Len(Tail(q)) : Tail(q)[k] = q[k + 1]
  BY HeadTailProperties
<1>2. ASSUME NEW x, x \in ToSet(Tail(q)) PROVE x \in ToSet(q)
  <2>1. PICK k \in 1..Len(Tail(q)) : Tail(q)[k] = x
    BY <1>1, <1>2, SetOfSeq
  <2>2. k + 1 \in 1..Len(q) /\ q[k + 1] = x
    BY <1>1, <2>1
  <2> QED
    BY <2>2, SetOfSeq
<1> QED
  BY <1>1, <1>2

LEMMA ReverseSet ==
    ASSUME NEW T, NEW q \in Seq(T)
    PROVE  ToSet(Reverse(q)) = ToSet(q)
<1>1. Len(q) \in Nat
  OBVIOUS
<1>2. ASSUME NEW x, x \in ToSet(Reverse(q)) PROVE x \in ToSet(q)
  <2>1. PICK k \in 1..Len(q) : Reverse(q)[k] = x
    BY <1>2, ReverseOf, SetOfSeq
  <2> QED
    BY <1>1, <2>1, ReverseOf, SetOfSeq
<1>3. ASSUME NEW x, x \in ToSet(q) PROVE x \in ToSet(Reverse(q))
  <2>1. PICK k \in 1..Len(q) : q[k] = x
    BY <1>3, SetOfSeq
  <2>2. Len(q) - k + 1 \in 1..Len(q) /\ Len(q) - (Len(q) - k + 1) + 1 = k
    BY <1>1
  <2>3. Reverse(q)[Len(q) - k + 1] = x
    BY <2>1, <2>2, ReverseOf
  <2> QED
    BY <2>2, <2>3, ReverseOf, SetOfSeq
<1> QED
  BY <1>2, <1>3

-----------------------------------------------------------------------------
(* Types of the importer *)

Redirections == UNION {[S -> Id] : S \in SUBSET Url}

LEMMA RedirectionsType ==
    \A r : r \in Redirections <=> DOMAIN r \subseteq Url /\ r \in [DOMAIN r -> Id]
BY DEF Redirections

LEMMA WorldType ==
    ASSUME NEW w \in World
    PROVE  /\ \A u \in Url : w.canon[u] \in Id
           /\ \A u \in Url : w.canon[u] \in Url => w.canon[w.canon[u]] = w.canon[u]
           /\ \A u \in Url : w.parent[u] \in Id \cup {None}
           /\ \A u \in Url : w.links[u] \in Seq(Id)
           /\ w \in Worlds
BY ImportAssumption DEF Worlds

LEMMA CallType ==
    ASSUME NEW c \in Call
    PROVE  /\ c.pc \in {"fetching", "storing"} /\ c.start \in Url
           /\ c.queue \in Seq(Id) /\ c.held \in Id \cup {None}
           /\ c.objects \in Seq(Url)
           /\ DOMAIN c.redirects \subseteq Url /\ c.redirects \in [DOMAIN c.redirects -> Id]
           /\ c.fetches \in Nat /\ c.fetches <= DepthMax /\ c.disturbed \in BOOLEAN
           /\ c # NoCall
<1>1. c.redirects \in Redirections
  BY DEF Call, Redirections
<1>2. c.pc # "idle"
  BY DEF Call
<1>3. c # NoCall
  BY <1>2 DEF NoCall
<1> QED
  BY <1>1, <1>3, RedirectionsType, ImportAssumption DEF Call

ImportTInv == world \in World /\ ImportTypeOK

LEMMA ActiveCall ==
    ASSUME ImportTInv, NEW i \in Importer, importer[i].pc \in {"fetching", "storing"}
    PROVE  importer[i] \in Call
BY DEF ImportTInv, ImportTypeOK, NoCall

\* How one iteration changes the variables of a call, where w is what the other
\* servers say, S the stored posts and L the posts of this server.
Unfinished(c) == c.pc = "fetching" /\ c.queue # <<>>

SameCall(c, d) == d.start = c.start /\ d.disturbed = c.disturbed

Skipped(S, L, c, d) ==
    /\ Unfinished(c)
    /\ \/ Last(c.queue) \in ToSet(c.objects)
       \/ Last(c.queue) \in L
       \/ Last(c.queue) \in S /\ c.objects # <<>>
    /\ d.pc = c.pc /\ d.queue = Front(c.queue) /\ d.held = c.held
    /\ d.objects = c.objects /\ d.redirects = c.redirects /\ d.fetches = c.fetches

Unknown(S, c) ==
    /\ Unfinished(c)
    /\ Last(c.queue) \notin ToSet(c.objects)
    /\ Last(c.queue) \in Url \ S

Got(w, c) == IF c.held = None THEN w.canon[Last(c.queue)] ELSE c.held

Counted(c) == c.fetches + IF c.held = None THEN 1 ELSE 0

Redirected(w, S, c, d) ==
    /\ Unknown(S, c)
    /\ Got(w, c) # Last(c.queue)
    /\ d.pc = c.pc /\ d.queue = Append(Front(c.queue), Got(w, c)) /\ d.held = Got(w, c)
    /\ d.objects = c.objects /\ d.fetches = Counted(c)
    /\ d.redirects = [u \in DOMAIN c.redirects \cup {Last(c.queue)} |->
                         IF u = Last(c.queue) THEN Got(w, c) ELSE c.redirects[u]]

Collected(w, S, c, d) ==
    /\ Unknown(S, c)
    /\ Got(w, c) = Last(c.queue)
    /\ d.pc = c.pc /\ d.held = None
    /\ d.queue = Upcoming(Front(c.queue), w.parent[Last(c.queue)], w.links[Last(c.queue)])
    /\ d.objects = Append(c.objects, Last(c.queue)) /\ d.fetches = Counted(c)
    /\ d.redirects = c.redirects

Reversed(c, d) ==
    /\ c.pc = "fetching" /\ c.queue = <<>> /\ c.objects # <<>>
    /\ d.pc = "storing" /\ d.objects = Reverse(c.objects)
    /\ d.queue = c.queue /\ d.held = c.held
    /\ d.redirects = c.redirects /\ d.fetches = c.fetches

Iteration(w, S, L, c, d) ==
    /\ SameCall(c, d)
    /\ \/ Skipped(S, L, c, d)
       \/ Redirected(w, S, c, d)
       \/ Collected(w, S, c, d)
       \/ Reversed(c, d)

\* A step of one importer that changes only its own variables.
OwnStep(i) ==
    /\ importer[i] \in Call /\ importer'[i] \in Call
    /\ \A k \in Importer : k # i => importer'[k] = importer[k]
    /\ importer' \in [Importer -> {NoCall} \cup Call]
    /\ UNCHANGED <<world, local, posts, outcome>>

LEMMA ContinueStep ==
    ASSUME ImportTInv, NEW i \in Importer, Fetching(i), Continue(i),
           \/ Top(i) \in ToSet(importer[i].objects)
           \/ Top(i) \in local
           \/ Top(i) \in Stored /\ importer[i].objects # <<>>
    PROVE  OwnStep(i) /\ Iteration(world, Stored, local, importer[i], importer'[i])
<1> DEFINE c == importer[i]
           d == [c EXCEPT !.queue = Rest(i)]
<1>1. c \in Call
  BY ActiveCall DEF Fetching
<1>2. Rest(i) \in Seq(Id)
  BY <1>1, CallType, FrontOf DEF Fetching, Rest
<1>3. d \in Call
  BY <1>1, <1>2 DEF Call
<1>4. importer' = [importer EXCEPT ![i] = d] /\ importer \in [Importer -> {NoCall} \cup Call]
  BY DEF Continue, ImportTInv, ImportTypeOK
<1>5. d.pc = c.pc /\ d.queue = Front(c.queue) /\ d.held = c.held /\ d.objects = c.objects
      /\ d.redirects = c.redirects /\ d.fetches = c.fetches /\ SameCall(c, d)
  BY <1>1 DEF Call, SameCall, Rest
<1>6. importer'[i] = d
  BY <1>4
<1>7. OwnStep(i)
  BY <1>1, <1>3, <1>4 DEF OwnStep, Continue
<1>8. Skipped(Stored, local, c, d)
  BY <1>5 DEF Skipped, Unfinished, Fetching, Top
<1> QED
  BY <1>5, <1>6, <1>7, <1>8 DEF Iteration

LEMMA GotType ==
    ASSUME ImportTInv, NEW i \in Importer, Missing(i), Fetches(i) <= DepthMax
    PROVE  /\ importer[i] \in Call
           /\ Got(world, importer[i]) = Object(i) /\ Object(i) \in Id
           /\ Counted(importer[i]) = Fetches(i) /\ Fetches(i) \in 0..DepthMax
           /\ Rest(i) \in Seq(Id) /\ Top(i) \in Url
           /\ Unknown(Stored, importer[i])
<1> DEFINE c == importer[i]
<1>1. c \in Call
  BY ActiveCall DEF Missing, Fetching
<1>2. Rest(i) \in Seq(Id) /\ Top(i) \in Url
  BY <1>1, CallType, FrontOf DEF Missing, Fetching, Rest, Top
<1>3. Got(world, c) = Object(i) /\ Object(i) \in Id
  BY <1>1, <1>2, CallType, WorldType DEF Got, Object, Top, ImportTInv
<1>4. Counted(c) = Fetches(i) /\ Fetches(i) \in 0..DepthMax
  BY <1>1, CallType, ImportAssumption DEF Counted, Fetches
<1>5. Unknown(Stored, c)
  BY <1>2 DEF Unknown, Unfinished, Missing, Fetching, Known, Top
<1> QED
  BY <1>1, <1>2, <1>3, <1>4, <1>5

LEMMA RedirectStep ==
    ASSUME ImportTInv, NEW i \in Importer, Redirect(i)
    PROVE  OwnStep(i) /\ Iteration(world, Stored, local, importer[i], importer'[i])
<1> DEFINE c == importer[i]
           r == [u \in DOMAIN c.redirects \cup {Top(i)} |->
                    IF u = Top(i) THEN Object(i) ELSE c.redirects[u]]
           q == Append(Rest(i), Object(i))
           d == [c EXCEPT !.redirects = r, !.queue = q, !.held = Object(i), !.fetches = Fetches(i)]
<1>1. /\ c \in Call
      /\ Got(world, c) = Object(i) /\ Object(i) \in Id
      /\ Counted(c) = Fetches(i) /\ Fetches(i) \in 0..DepthMax
      /\ Rest(i) \in Seq(Id) /\ Top(i) \in Url
      /\ Unknown(Stored, c)
  BY GotType DEF Redirect
<1>2. r \in Redirections
  <2>1. DOMAIN c.redirects \subseteq Url /\ c.redirects \in [DOMAIN c.redirects -> Id]
    BY <1>1, CallType
  <2>2. DOMAIN r \subseteq Url /\ r \in [DOMAIN r -> Id]
    BY <1>1, <2>1
  <2> QED
    BY <2>2, RedirectionsType
<1>3. q \in Seq(Id)
  BY <1>1
<1>4. importer' = [importer EXCEPT ![i] = d] /\ importer \in [Importer -> {NoCall} \cup Call]
  BY DEF Redirect, ImportTInv, ImportTypeOK
<1> HIDE DEF r, q
<1>5. d \in Call
  BY <1>1, <1>2, <1>3 DEF Call, Redirections
<1>6. d.pc = c.pc /\ d.queue = q /\ d.held = Object(i) /\ d.objects = c.objects
      /\ d.redirects = r /\ d.fetches = Fetches(i) /\ SameCall(c, d)
  BY <1>1 DEF Call, SameCall
<1>7. importer'[i] = d
  BY <1>4
<1>8. UNCHANGED <<world, local, posts, outcome>>
  BY DEF Redirect
<1> HIDE DEF d
<1>9. /\ \A k \in Importer : k # i => importer'[k] = importer[k]
      /\ importer' \in [Importer -> {NoCall} \cup Call]
  BY <1>4, <1>5
<1>10. OwnStep(i)
  <2>1. importer[i] \in Call /\ importer'[i] \in Call
    BY <1>1, <1>5, <1>7
  <2> QED
    BY <1>8, <1>9, <2>1 DEF OwnStep
<1>11. Redirected(world, Stored, c, d)
  BY <1>1, <1>6 DEF Redirected, Redirect, Top, Rest, q, r
<1> QED
  BY <1>6, <1>7, <1>10, <1>11 DEF Iteration

LEMMA UpcomingType ==
    ASSUME NEW rest \in Seq(Id), NEW parent \in Id \cup {None}, NEW links \in Seq(Id)
    PROVE  Upcoming(rest, parent, links) \in Seq(Id)
<1>1. Reverse(links) \in Seq(Id)
  BY ReverseOf
<1>2. (IF parent = None THEN <<>> ELSE <<parent>>) \in Seq(Id)
  OBVIOUS
<1> QED
  BY <1>1, <1>2 DEF Upcoming

LEMMA CollectStep ==
    ASSUME ImportTInv, NEW i \in Importer, Collect(i)
    PROVE  OwnStep(i) /\ Iteration(world, Stored, local, importer[i], importer'[i])
<1> DEFINE c == importer[i]
           q == Upcoming(Rest(i), world.parent[Top(i)], world.links[Top(i)])
           d == [c EXCEPT !.queue = q, !.objects = Append(@, Top(i)), !.held = None,
                          !.fetches = Fetches(i)]
<1>1. /\ c \in Call
      /\ Got(world, c) = Object(i) /\ Object(i) \in Id
      /\ Counted(c) = Fetches(i) /\ Fetches(i) \in 0..DepthMax
      /\ Rest(i) \in Seq(Id) /\ Top(i) \in Url
      /\ Unknown(Stored, c)
  BY GotType DEF Collect
<1>2. q \in Seq(Id)
  BY <1>1, UpcomingType, WorldType DEF ImportTInv
<1>3. Append(c.objects, Top(i)) \in Seq(Url)
  BY <1>1, CallType
<1>4. importer' = [importer EXCEPT ![i] = d] /\ importer \in [Importer -> {NoCall} \cup Call]
  BY DEF Collect, ImportTInv, ImportTypeOK
<1> HIDE DEF q
<1>5. d \in Call
  BY <1>1, <1>2, <1>3 DEF Call
<1>6. d.pc = c.pc /\ d.queue = q /\ d.held = None /\ d.objects = Append(c.objects, Top(i))
      /\ d.redirects = c.redirects /\ d.fetches = Fetches(i) /\ SameCall(c, d)
  BY <1>1 DEF Call, SameCall
<1>7. importer'[i] = d
  BY <1>4
<1>8. OwnStep(i)
  <2>1. UNCHANGED <<world, local, posts, outcome>>
    BY DEF Collect
  <2> QED
    BY <1>1, <1>4, <1>5, <2>1 DEF OwnStep
<1> HIDE DEF d
<1>9. Collected(world, Stored, c, d)
  BY <1>1, <1>6 DEF Collected, Collect, Top, Rest, q
<1> QED
  BY <1>6, <1>7, <1>8, <1>9 DEF Iteration

LEMMA StartStoringStep ==
    ASSUME ImportTInv, NEW i \in Importer, StartStoring(i)
    PROVE  OwnStep(i) /\ Iteration(world, Stored, local, importer[i], importer'[i])
<1> DEFINE c == importer[i]
           d == [c EXCEPT !.pc = "storing", !.objects = Reverse(@)]
<1>1. c \in Call
  BY ActiveCall DEF StartStoring
<1>2. Reverse(c.objects) \in Seq(Url)
  BY <1>1, CallType, ReverseOf
<1>3. d \in Call
  BY <1>1, <1>2 DEF Call
<1>4. importer' = [importer EXCEPT ![i] = d] /\ importer \in [Importer -> {NoCall} \cup Call]
  BY DEF StartStoring, StoringOrder, ImportTInv, ImportTypeOK
<1>5. d.pc = "storing" /\ d.queue = c.queue /\ d.held = c.held /\ d.objects = Reverse(c.objects)
      /\ d.redirects = c.redirects /\ d.fetches = c.fetches /\ SameCall(c, d)
  BY <1>1 DEF Call, SameCall
<1>6. importer'[i] = d
  BY <1>4
<1>7. OwnStep(i)
  BY <1>1, <1>3, <1>4 DEF OwnStep, StartStoring
<1> HIDE DEF d
<1>8. Reversed(c, d)
  BY <1>5 DEF Reversed, StartStoring
<1> QED
  BY <1>5, <1>6, <1>7, <1>8 DEF Iteration

-----------------------------------------------------------------------------
(* What a step of the importers does *)

\* A call ends.
Ended(i) ==
    /\ importer[i] \in Call
    /\ importer' = [importer EXCEPT ![i] = NoCall]
    /\ UNCHANGED <<world, local, posts>>

\* The next object of a call is stored.
OtherCall(c) == IF c = NoCall THEN NoCall ELSE [c EXCEPT !.disturbed = TRUE]

LEMMA OtherCallType ==
    ASSUME NEW c \in {NoCall} \cup Call
    PROVE  OtherCall(c) \in {NoCall} \cup Call
BY DEF OtherCall, Call

\* The iteration that SkipKnown, SkipLocal or SkipStored is, if the call goes on.
LEMMA SkipStep ==
    ASSUME ImportTInv, NEW i \in Importer, Fetching(i), Continue(i),
           SkipKnown(i) \/ SkipLocal(i) \/ SkipStored(i)
    PROVE  OwnStep(i) /\ Iteration(world, Stored, local, importer[i], importer'[i])
<1>1. importer'[i] # NoCall
  <2>1. importer[i] \in Call
    BY ActiveCall DEF Fetching
  <2>2. importer'[i].pc = "fetching"
    BY <2>1 DEF Continue, Fetching, ImportTInv, ImportTypeOK, Call
  <2> QED
    BY <2>2 DEF NoCall
<1>2. ASSUME NEW result PROVE ~Ends(i, result)
  BY <1>1 DEF Ends, End, ImportTInv, ImportTypeOK
<1>3. CASE SkipKnown(i)
  BY <1>3, ContinueStep DEF SkipKnown, Known
<1>4. CASE SkipLocal(i)
  BY <1>2, <1>4, ContinueStep DEF SkipLocal
<1>5. CASE SkipStored(i)
  BY <1>2, <1>5, ContinueStep DEF SkipStored
<1> QED
  BY <1>3, <1>4, <1>5

Iterates(i) == OwnStep(i) /\ Iteration(world, Stored, local, importer[i], importer'[i])

\* Why a call ends by itself.
EndReason(i, result) ==
    \/ /\ result = "ok" /\ Fetching(i) /\ Top(i) \in Stored
       /\ importer[i].objects = <<>>
    \/ result = "ok" /\ importer[i].pc = "storing" /\ importer[i].objects = <<>>
    \/ result = "error" /\ Fetching(i) /\ Top(i) \in LocalId \ local
    \/ /\ result = "error" /\ Missing(i)
       /\ importer[i].held = None /\ importer[i].fetches = DepthMax
    \/ /\ result = "panic" /\ importer[i].pc = "fetching"
       /\ importer[i].queue = <<>> /\ importer[i].objects = <<>>
    \/ /\ result = "error" /\ importer[i].pc = "storing" /\ importer[i].objects # <<>>
       /\ \/ ~Refers(i, Head(importer[i].objects))
          \/ Head(importer[i].objects) \in Stored

Ending(i, result, disturbed) ==
    /\ importer[i] # NoCall
    /\ \/ result = "error" /\ disturbed
       \/ disturbed = importer[i].disturbed /\ EndReason(i, result)

\* What an importer does, in one step.
LEMMA KindsOfImportStep ==
    ASSUME ImportTInv, NEW i \in Importer, ImportStep(i)
    PROVE  \/ \E u \in Url, received \in BOOLEAN : Start(i, u, received)
           \/ Iterates(i)
           \/ StoreNext(i)
           \/ \E result \in {"ok", "error", "panic"}, disturbed \in BOOLEAN :
                  Ending(i, result, disturbed) /\ End(i, result, disturbed)
<1>1. ASSUME NEW result \in {"ok", "error", "panic"}, Ends(i, result),
             importer[i].pc \in {"fetching", "storing"}, EndReason(i, result)
      PROVE  \E r \in {"ok", "error", "panic"}, disturbed \in BOOLEAN :
                  Ending(i, r, disturbed) /\ End(i, r, disturbed)
  <2>1. importer[i] \in Call
    BY <1>1, ActiveCall
  <2>2. importer[i].disturbed \in BOOLEAN /\ importer[i] # NoCall
    BY <2>1, CallType
  <2> QED
    BY <1>1, <2>2 DEF Ends, Ending
<1>2. CASE SkipKnown(i)
  BY <1>2, SkipStep DEF SkipKnown, Iterates
<1>3. CASE SkipLocal(i)
  BY <1>1, <1>3, SkipStep DEF SkipLocal, Iterates, Fetching, EndReason
<1>4. CASE SkipStored(i)
  BY <1>1, <1>4, SkipStep DEF SkipStored, Iterates, Fetching, EndReason
<1>5. CASE Redirect(i)
  BY <1>5, RedirectStep DEF Iterates
<1>6. CASE Collect(i)
  BY <1>6, CollectStep DEF Iterates
<1>7. CASE StartStoring(i)
  BY <1>7, StartStoringStep DEF Iterates
<1>8. CASE TooDeep(i)
  BY <1>1, <1>8 DEF TooDeep, Missing, Fetching, EndReason
<1>9. CASE Panic(i) \/ StoreFails(i) \/ StoredAll(i)
  BY <1>1, <1>9 DEF Panic, StoreFails, StoredAll, EndReason
<1>10. CASE Fail(i)
  BY <1>10 DEF Fail, Ending
<1> QED
  BY <1>2, <1>3, <1>4, <1>5, <1>6, <1>7, <1>8, <1>9, <1>10 DEF ImportStep

-----------------------------------------------------------------------------
(* The type invariant *)

StartedCall(u, received) ==
    [pc |-> "fetching", start |-> u, queue |-> <<u>>,
     held |-> IF received THEN u ELSE None, objects |-> <<>>,
     redirects |-> [x \in {} |-> None], fetches |-> 0, disturbed |-> FALSE]

LEMMA StartedCallType ==
    ASSUME NEW u \in Url, NEW received \in BOOLEAN
    PROVE  StartedCall(u, received) \in Call
<1>1. [x \in {} |-> None] \in Redirections
  BY RedirectionsType
<1>2. <<u>> \in Seq(Id) /\ <<>> \in Seq(Url)
  BY DEF Id
<1>3. 0 \in 0..DepthMax
  BY ImportAssumption
<1>4. (IF received THEN u ELSE None) \in Id \cup {None}
  BY DEF Id
<1> HIDE DEF Redirections
<1> QED
  BY <1>1, <1>2, <1>3, <1>4 DEF StartedCall, Call, Redirections

\* What handle_note stores.
LEMMA StoredRow ==
    ASSUME ImportTInv, NEW i \in Importer, StoreNext(i), NEW u, u = Head(importer[i].objects)
    PROVE  /\ importer[i] \in Call /\ u \in Url /\ u \notin Stored
           /\ DOMAIN posts' = Stored \cup {u}
           /\ posts'[u] = Row(i, u) /\ \A x \in Stored : posts'[x] = posts[x]
           /\ Row(i, u).parent \in Stored \cup local \cup {None}
           /\ Row(i, u).links \subseteq Stored \cup local
           /\ importer'[i] = [importer[i] EXCEPT !.objects = Tail(@)]
           /\ importer'[i] \in Call
           /\ \A k \in Importer : k # i => importer'[k] = OtherCall(importer[k])
           /\ importer' \in [Importer -> {NoCall} \cup Call]
<1> DEFINE c == importer[i]
<1>1. c \in Call
  BY ActiveCall DEF StoreNext
<1>2. c.objects \in Seq(Url) /\ c.objects # <<>>
  BY <1>1, CallType DEF StoreNext
<1>3. u \in Url /\ Tail(c.objects) \in Seq(Url)
  BY <1>2
<1>4. /\ Refers(i, u) /\ u \notin Stored
      /\ posts' = [x \in Stored \cup {u} |-> IF x = u THEN Row(i, u) ELSE posts[x]]
  BY DEF StoreNext
<1>5. Row(i, u).links \subseteq Stored \cup local
  <2>1. None \notin Row(i, u).links
    <3>1. \A id \in ToSet(world.links[u]) : Resolved(i, id) \in Id
      <4>1. ToSet(world.links[u]) \subseteq Id
        BY <1>3, WorldType, SetOfSeq DEF ImportTInv
      <4> QED
        BY <1>1, <4>1, CallType DEF Resolved
    <3> QED
      BY <3>1, ImportAssumption DEF Row
  <2> QED
    BY <1>4, <2>1 DEF Refers
<1>6. importer' = [k \in Importer |->
         IF k = i THEN [importer[k] EXCEPT !.objects = Tail(@)] ELSE OtherCall(importer[k])]
  BY DEF StoreNext, OtherCall
<1>7. [c EXCEPT !.objects = Tail(@)] \in Call
  BY <1>1, <1>3 DEF Call
<1>8. importer' \in [Importer -> {NoCall} \cup Call]
  BY <1>6, <1>7, OtherCallType DEF ImportTInv, ImportTypeOK
<1>9. DOMAIN posts' = Stored \cup {u}
      /\ posts'[u] = Row(i, u) /\ \A x \in Stored : posts'[x] = posts[x]
  BY <1>4
<1>10. Row(i, u).parent \in Stored \cup local \cup {None}
  BY <1>4 DEF Refers
<1>11. importer'[i] = [c EXCEPT !.objects = Tail(@)]
       /\ \A k \in Importer : k # i => importer'[k] = OtherCall(importer[k])
  BY <1>6
<1> QED
  BY <1>1, <1>3, <1>4, <1>5, <1>7, <1>8, <1>9, <1>10, <1>11

LEMMA ImportInitTInv == ImportInit => ImportTInv
<1> SUFFICES ASSUME ImportInit PROVE ImportTInv
  OBVIOUS
<1>1. Stored = {}
  BY DEF ImportInit, Stored
<1>2. world \in World /\ world \in Worlds
  BY WorldType DEF ImportInit
<1>3. NoResult \in CallResult
  BY DEF NoResult, CallResult
<1>4. outcome \in [Importer -> CallResult] /\ importer \in [Importer -> {NoCall} \cup Call]
  BY <1>3 DEF ImportInit
<1> QED
  BY <1>1, <1>2, <1>4 DEF ImportInit, ImportTInv, ImportTypeOK

LEMMA ImportNextTInv == ImportTInv /\ [ImportNext]_importVars => ImportTInv'
<1> SUFFICES ASSUME ImportTInv, [ImportNext]_importVars PROVE ImportTInv'
  OBVIOUS
<1>1. CASE UNCHANGED importVars
  BY <1>1 DEF importVars, ImportTInv, ImportTypeOK, Stored
<1>2. ASSUME NEW i \in Importer, ImportStep(i) PROVE ImportTInv'
  <2>1. ASSUME UNCHANGED <<world, local, posts>>,
               importer' \in [Importer -> {NoCall} \cup Call],
               outcome' \in [Importer -> CallResult]
        PROVE  ImportTInv'
    BY <2>1 DEF ImportTInv, ImportTypeOK, Stored
  <2>2. outcome \in [Importer -> CallResult] /\ importer \in [Importer -> {NoCall} \cup Call]
    BY DEF ImportTInv, ImportTypeOK
  <2>3. ASSUME NEW u \in Url, NEW received \in BOOLEAN, Start(i, u, received)
        PROVE  ImportTInv'
    <3>1. importer' = [importer EXCEPT ![i] = StartedCall(u, received)]
      BY <2>3 DEF Start, StartedCall
    <3>2. importer' \in [Importer -> {NoCall} \cup Call]
      BY <2>2, <3>1, StartedCallType
    <3>3. NoResult \in CallResult
      BY DEF NoResult, CallResult
    <3>4. outcome' \in [Importer -> CallResult]
      BY <2>2, <2>3, <3>3 DEF Start
    <3> QED
      BY <2>1, <2>3, <3>2, <3>4 DEF Start
  <2>4. CASE Iterates(i)
    BY <2>1, <2>2, <2>4 DEF Iterates, OwnStep
  <2>5. CASE StoreNext(i)
    <3>1. PICK u : u = Head(importer[i].objects)
      OBVIOUS
    <3>2. /\ u \in Url
          /\ DOMAIN posts' = Stored \cup {u}
          /\ posts'[u] = Row(i, u) /\ \A x \in Stored : posts'[x] = posts[x]
          /\ Row(i, u).parent \in Stored \cup local \cup {None}
          /\ Row(i, u).links \subseteq Stored \cup local
          /\ importer' \in [Importer -> {NoCall} \cup Call]
      BY <2>5, <3>1, StoredRow
    <3>3. UNCHANGED <<world, local, outcome>>
      BY <2>5 DEF StoreNext
    <3>4. \A x \in Stored' : /\ posts'[x].parent \in Stored' \cup local \cup {None}
                             /\ posts'[x].links \subseteq Stored' \cup local
      BY <3>2 DEF ImportTInv, ImportTypeOK, Stored
    <3> QED
      BY <2>2, <3>2, <3>3, <3>4 DEF ImportTInv, ImportTypeOK, Stored
  <2>6. ASSUME NEW result \in {"ok", "error", "panic"}, NEW disturbed \in BOOLEAN,
               Ending(i, result, disturbed), End(i, result, disturbed)
        PROVE  ImportTInv'
    <3>1. importer[i].start \in Url
      BY <2>2, <2>6, CallType DEF Ending
    <3>2. [result |-> result, start |-> importer[i].start, disturbed |-> disturbed] \in CallResult
      BY <3>1 DEF CallResult
    <3> QED
      BY <2>1, <2>2, <2>6, <3>2 DEF End
  <2> QED
    BY <1>2, <2>3, <2>4, <2>5, <2>6, KindsOfImportStep
<1> QED
  BY <1>1, <1>2 DEF ImportNext

\* The type invariant of the import: in particular every stored post refers to
\* stored or local posts (handle_note looks the parent and the links up).
THEOREM ImportTypeCorrect == ImportSpec => []ImportTypeOK
<1>1. ImportTInv => ImportTypeOK
  BY DEF ImportTInv
<1> QED
  BY <1>1, ImportInitTInv, ImportNextTInv, PTL DEF ImportSpec

-----------------------------------------------------------------------------
(* Parents of replies, under redirections *)

Linked(w, id) == \E x \in Url : id \in ToSet(w.links[x])

\* The object that is held was skipped as known: it is never used, but taken
\* for what the following ids of the queue stand for.
Frozen(c, S) == c.held # None /\ c.held \in ToSet(c.objects) \cup S \cup LocalId

Aimed(w, c, p) ==
    /\ w.canon[p] # p /\ p \in DOMAIN c.redirects
    /\ c.redirects[p] = w.canon[p] \/ Linked(w, p)

\* The parent p of an object is next, or what the object will refer to is settled.
ParentHandled(w, S, c, p) ==
    \/ p \in LocalId \cup {None}
    \/ c.held = None /\ c.queue # <<>> /\ Last(c.queue) = p
    \/ /\ p \in Url /\ w.canon[p] = p /\ p \in ToSet(c.objects) \cup S
       /\ p \notin DOMAIN c.redirects
    \/ p \in Url /\ Aimed(w, c, p)

ObjectsFinal(w, c) == \A u \in ToSet(c.objects) : w.canon[u] = u

HeldFinal(w, c) == c.held \in {None} \cup LocalId \/ (c.held \in Url /\ w.canon[c.held] = c.held)

OthersLinked(w, c) == \A k \in 1..(Len(c.queue) - 1) : Linked(w, c.queue[k])

HeldNext(w, S, c) ==
    c.held # None =>
        \/ c.queue # <<>> /\ Last(c.queue) = c.held
        \/ Frozen(c, S) /\ \A k \in 1..Len(c.queue) : Linked(w, c.queue[k])

RedirectsRight(w, S, c) ==
    \A z \in DOMAIN c.redirects :
        (w.canon[z] # z /\ c.redirects[z] = w.canon[z]) \/ Frozen(c, S)

FetchInv(w, S, c) ==
    /\ ObjectsFinal(w, c)
    /\ HeldFinal(w, c)
    /\ OthersLinked(w, c)
    /\ HeldNext(w, S, c)
    /\ RedirectsRight(w, S, c)
    /\ \A u \in ToSet(c.objects) : ParentHandled(w, S, c, w.parent[u])

StoreInv(w, c) ==
    /\ ObjectsFinal(w, c)
    /\ \A u \in ToSet(c.objects) :
        LET p == w.parent[u]
        IN  \/ p \in LocalId \cup {None}
            \/ p \in Url /\ w.canon[p] = p /\ p \notin DOMAIN c.redirects
            \/ p \in Url /\ Aimed(w, c, p)

CallInv(w, S, c) ==
    /\ c.pc = "fetching" => FetchInv(w, S, c)
    /\ c.pc = "storing" => StoreInv(w, c)

\* More stored posts do no harm.
LEMMA FetchInvGrows ==
    ASSUME NEW w, NEW S, NEW S2, S \subseteq S2, NEW c, CallInv(w, S, c)
    PROVE  CallInv(w, S2, c)
<1>1. Frozen(c, S) => Frozen(c, S2)
  BY DEF Frozen
<1>2. \A p : ParentHandled(w, S, c, p) => ParentHandled(w, S2, c, p)
  BY DEF ParentHandled
<1>3. RedirectsRight(w, S, c) => RedirectsRight(w, S2, c)
  BY <1>1 DEF RedirectsRight
<1>4. HeldNext(w, S, c) => HeldNext(w, S2, c)
  BY <1>1 DEF HeldNext
<1> QED
  BY <1>2, <1>3, <1>4 DEF CallInv, FetchInv

\* What one iteration works on.
LEMMA CallQueue ==
    ASSUME NEW c \in Call, Unfinished(c)
    PROVE  /\ Front(c.queue) \in Seq(Id) /\ Len(Front(c.queue)) = Len(c.queue) - 1
           /\ \A k \in 1..(Len(c.queue) - 1) : Front(c.queue)[k] = c.queue[k]
           /\ Len(c.queue) \in Nat \ {0}
           /\ Last(c.queue) = c.queue[Len(c.queue)] /\ Last(c.queue) \in Id
BY CallType, FrontOf DEF Unfinished

LEMMA SkippedFetchInv ==
    ASSUME NEW w \in World, NEW S \in SUBSET Url, NEW L \in SUBSET LocalId,
           \A u \in S : w.canon[u] = u,
           NEW c \in Call, NEW d \in Call,
           FetchInv(w, S, c), Skipped(S, L, c, d)
    PROVE  FetchInv(w, S, d)
<1>1. Unfinished(c)
  BY DEF Skipped
<1>2. d.queue = Front(c.queue) /\ d.held = c.held /\ d.objects = c.objects /\ d.redirects = c.redirects
  BY DEF Skipped
<1>3. \/ Last(c.queue) \in ToSet(c.objects)
      \/ Last(c.queue) \in LocalId
      \/ Last(c.queue) \in S
  BY DEF Skipped
<1>4. /\ Len(d.queue) = Len(c.queue) - 1 /\ Len(c.queue) \in Nat \ {0}
      /\ \A k \in 1..Len(d.queue) : d.queue[k] = c.queue[k]
  BY <1>1, <1>2, CallQueue
<1>5. \A k \in 1..Len(d.queue) : Linked(w, d.queue[k])
  BY <1>4 DEF FetchInv, OthersLinked
<1>6. OthersLinked(w, d)
  BY <1>4, <1>5 DEF OthersLinked
<1>7. Frozen(c, S) => Frozen(d, S)
  BY <1>2 DEF Frozen
<1>8. HeldNext(w, S, d)
  <2>1. CASE c.held # None /\ Last(c.queue) = c.held
    <3>1. Frozen(d, S)
      BY <1>2, <1>3, <2>1 DEF Frozen
    <3> QED
      BY <1>5, <3>1 DEF HeldNext
  <2> QED
    BY <1>2, <1>5, <1>7, <2>1 DEF HeldNext, FetchInv
<1>9. RedirectsRight(w, S, d)
  BY <1>2, <1>7 DEF RedirectsRight, FetchInv
<1>10. ASSUME NEW u \in ToSet(d.objects) PROVE ParentHandled(w, S, d, w.parent[u])
  <2> DEFINE p == w.parent[u]
  <2>1. ParentHandled(w, S, c, p)
    BY <1>2, <1>10 DEF FetchInv
  <2>2. CASE c.held = None /\ c.queue # <<>> /\ Last(c.queue) = p
    <3>1. CASE p \in LocalId
      BY <3>1 DEF ParentHandled
    <3>2. CASE p \in ToSet(c.objects) \cup S
      <4>1. p \in Url
        BY <3>2, CallType, SetOfSeq
      <4>2. w.canon[p] = p
        BY <3>2 DEF FetchInv, ObjectsFinal
      <4>3. p \notin DOMAIN c.redirects
        BY <2>2, <4>2 DEF FetchInv, RedirectsRight, Frozen
      <4> QED
        BY <1>2, <3>2, <4>1, <4>2, <4>3 DEF ParentHandled
    <3> QED
      BY <1>3, <2>2, <3>1, <3>2
  <2> QED
    BY <1>2, <2>1, <2>2 DEF ParentHandled, Aimed
<1> QED
  BY <1>2, <1>6, <1>8, <1>9, <1>10 DEF FetchInv, ObjectsFinal, HeldFinal

\* The object is the one that was asked for, if nothing is held.
LEMMA GotFinal ==
    ASSUME NEW w \in World, NEW S \in SUBSET Url, NEW c \in Call,
           FetchInv(w, S, c), Unknown(S, c), NEW t, t = Last(c.queue), NEW o, o = Got(w, c)
    PROVE  /\ t \in Url /\ o \in Id
           /\ o \in LocalId \/ (o \in Url /\ w.canon[o] = o)
           /\ o = t => ~Frozen(c, S)
           /\ c.held # None /\ o # t => Frozen(c, S) /\ Linked(w, t)
           /\ c.held = None => ~Frozen(c, S) /\ o = w.canon[t]
<1>1. t \in Url /\ t \notin S /\ t \notin ToSet(c.objects)
  BY DEF Unknown
<1>2. CASE c.held = None
  <2>1. o = w.canon[t]
    BY <1>2 DEF Got
  <2>2. o \in Id /\ (o \in Url => w.canon[o] = o)
    BY <1>1, <2>1, WorldType
  <2> QED
    BY <1>1, <1>2, <2>1, <2>2 DEF Frozen, Id
<1>3. CASE c.held # None
  <2>1. o = c.held
    BY <1>3 DEF Got
  <2>2. o \in LocalId \/ (o \in Url /\ w.canon[o] = o)
    BY <1>3, <2>1 DEF FetchInv, HeldFinal
  <2>3. o = t => ~Frozen(c, S)
    BY <1>1, <2>1, ImportAssumption DEF Frozen
  <2>4. ASSUME o # t PROVE Frozen(c, S) /\ Linked(w, t)
    <3>1. Frozen(c, S) /\ \A k \in 1..Len(c.queue) : Linked(w, c.queue[k])
      BY <1>3, <2>1, <2>4 DEF FetchInv, HeldNext
    <3>2. Len(c.queue) \in 1..Len(c.queue) /\ t = c.queue[Len(c.queue)]
      BY CallQueue DEF Unknown
    <3> QED
      BY <3>1, <3>2
  <2> QED
    BY <1>1, <1>3, <2>2, <2>3, <2>4 DEF Id
<1> QED
  BY <1>2, <1>3

LEMMA RedirectedFetchInv ==
    ASSUME NEW w \in World, NEW S \in SUBSET Url,
           NEW c \in Call, NEW d \in Call,
           FetchInv(w, S, c), Redirected(w, S, c, d)
    PROVE  FetchInv(w, S, d)
<1>1. PICK t : t = Last(c.queue)
  OBVIOUS
<1>2. PICK o : o = Got(w, c)
  OBVIOUS
<1>3. /\ Unknown(S, c) /\ o # t
      /\ d.queue = Append(Front(c.queue), o) /\ d.held = o
      /\ d.objects = c.objects
      /\ d.redirects = [u \in DOMAIN c.redirects \cup {t} |-> IF u = t THEN o ELSE c.redirects[u]]
  BY <1>1, <1>2 DEF Redirected
<1>4. /\ t \in Url /\ o \in Id
      /\ o \in LocalId \/ (o \in Url /\ w.canon[o] = o)
      /\ c.held # None => Frozen(c, S) /\ Linked(w, t)
      /\ c.held = None => ~Frozen(c, S) /\ o = w.canon[t]
      /\ t \notin S /\ t \notin ToSet(c.objects)
  BY <1>1, <1>2, <1>3, GotFinal DEF Unknown
<1>5. /\ Front(c.queue) \in Seq(Id) /\ Len(Front(c.queue)) = Len(c.queue) - 1
      /\ \A k \in 1..(Len(c.queue) - 1) : Front(c.queue)[k] = c.queue[k]
      /\ Len(c.queue) \in Nat \ {0}
  BY <1>3, CallQueue DEF Unknown
<1>6. /\ Len(d.queue) = Len(c.queue) /\ d.queue[Len(d.queue)] = o
      /\ \A k \in 1..(Len(c.queue) - 1) : d.queue[k] = c.queue[k]
  BY <1>3, <1>4, <1>5
<1>7. OthersLinked(w, d)
  BY <1>6 DEF OthersLinked, FetchInv
<1>8. d.queue # <<>> /\ Last(d.queue) = o /\ o # None
  BY <1>4, <1>5, <1>6, ImportAssumption DEF Last
<1>9. HeldFinal(w, d) /\ HeldNext(w, S, d)
  BY <1>3, <1>4, <1>8 DEF HeldFinal, HeldNext
<1>10. c.held # None => Frozen(d, S)
  BY <1>2, <1>3, <1>4 DEF Frozen, Got
<1>11. DOMAIN d.redirects = DOMAIN c.redirects \cup {t} /\ d.redirects[t] = o
       /\ \A u \in DOMAIN c.redirects : u # t => d.redirects[u] = c.redirects[u]
  BY <1>3
<1>12. RedirectsRight(w, S, d)
  BY <1>3, <1>4, <1>10, <1>11 DEF RedirectsRight, FetchInv
<1>13. ASSUME NEW u \in ToSet(d.objects) PROVE ParentHandled(w, S, d, w.parent[u])
  <2> DEFINE p == w.parent[u]
  <2>1. ParentHandled(w, S, c, p)
    BY <1>3, <1>13 DEF FetchInv
  <2>2. CASE p = t /\ w.canon[t] # t
    BY <1>4, <1>11, <2>2 DEF ParentHandled, Aimed
  <2>3. CASE p = t /\ w.canon[t] = t
    <3>1. c.held # None
      BY <1>3, <1>4, <2>3
    <3> QED
      BY <1>4, <2>1, <2>3, <3>1, ImportAssumption DEF ParentHandled, Aimed, Id
  <2>4. CASE p # t
    BY <1>1, <1>3, <1>11, <2>1, <2>4 DEF ParentHandled, Aimed
  <2> QED
    BY <2>2, <2>3, <2>4
<1> QED
  BY <1>3, <1>7, <1>9, <1>12, <1>13 DEF FetchInv, ObjectsFinal

Mixed(q, n, links, rest) ==
    \A k \in 1..n : q[k] \in ToSet(links) \/ \E m \in 1..Len(rest) : q[k] = rest[m]

\* What the queue becomes when an object is collected.
LEMMA UpcomingQueue ==
    ASSUME NEW rest \in Seq(Id), NEW parent \in Id \cup {None}, NEW links \in Seq(Id),
           NEW q, q = Upcoming(rest, parent, links)
    PROVE  /\ q \in Seq(Id)
           /\ parent = None => Mixed(q, Len(q), links, rest)
           /\ parent # None =>
                 q # <<>> /\ Last(q) = parent /\ Mixed(q, Len(q) - 1, links, rest)
<1>1. PICK r : r = Reverse(links)
  OBVIOUS
<1>2. r \in Seq(Id) /\ \A k \in 1..Len(r) : r[k] \in ToSet(links)
  <2>1. r \in Seq(Id) /\ ToSet(r) = ToSet(links)
    BY <1>1, ReverseOf, ReverseSet
  <2> QED
    BY <2>1, SetOfSeq
<1>3. PICK b : b = r \o rest
  OBVIOUS
<1>4. b \in Seq(Id) /\ Len(b) = Len(r) + Len(rest)
  BY <1>2, <1>3
<1>5. \A k \in 1..Len(b) : b[k] \in ToSet(links) \/ \E n \in 1..Len(rest) : b[k] = rest[n]
  <2>1. TAKE k \in 1..Len(b)
  <2>2. CASE k <= Len(r)
    BY <1>2, <1>3, <1>4, <2>2
  <2>3. CASE ~(k <= Len(r))
    <3>1. b[k] = rest[k - Len(r)] /\ k - Len(r) \in 1..Len(rest)
      BY <1>2, <1>3, <1>4, <2>3
    <3> QED
      BY <3>1
  <2> QED
    BY <2>2, <2>3
<1>6. CASE parent = None
  <2>1. q = b
    BY <1>1, <1>2, <1>3, <1>4, <1>6 DEF Upcoming
  <2> QED
    BY <1>4, <1>5, <1>6, <2>1 DEF Mixed
<1>7. CASE parent # None
  <2>1. q = b \o <<parent>>
    BY <1>1, <1>2, <1>3, <1>7 DEF Upcoming
  <2>2. /\ q \in Seq(Id) /\ Len(q) = Len(b) + 1 /\ q[Len(q)] = parent
        /\ \A k \in 1..Len(b) : q[k] = b[k]
    BY <1>4, <1>7, <2>1
  <2>3. q # <<>> /\ Last(q) = parent
    BY <1>4, <2>2 DEF Last
  <2>4. Len(q) - 1 = Len(b)
    BY <1>4, <2>2
  <2>5. Mixed(q, Len(b), links, rest)
    BY <1>5, <2>2 DEF Mixed
  <2> QED
    BY <1>7, <2>2, <2>3, <2>4, <2>5
<1> QED
  BY <1>6, <1>7

LEMMA CollectedFetchInv ==
    ASSUME NEW w \in World, NEW S \in SUBSET Url,
           NEW c \in Call, NEW d \in Call,
           FetchInv(w, S, c), Collected(w, S, c, d)
    PROVE  FetchInv(w, S, d)
<1>1. PICK t : t = Last(c.queue)
  OBVIOUS
<1>2. PICK p : p = w.parent[t]
  OBVIOUS
<1>3. /\ Unknown(S, c) /\ Got(w, c) = t
      /\ d.queue = Upcoming(Front(c.queue), p, w.links[t]) /\ d.held = None
      /\ d.objects = Append(c.objects, t) /\ d.redirects = c.redirects
  BY <1>1, <1>2 DEF Collected
<1>4. t \in Url /\ w.canon[t] = t /\ ~Frozen(c, S)
  BY <1>1, <1>3, GotFinal, ImportAssumption DEF Unknown
<1>5. /\ Front(c.queue) \in Seq(Id) /\ Len(Front(c.queue)) = Len(c.queue) - 1
      /\ \A k \in 1..(Len(c.queue) - 1) : Front(c.queue)[k] = c.queue[k]
      /\ Len(c.queue) \in Nat \ {0}
  BY <1>3, CallQueue DEF Unknown
<1>6. p \in Id \cup {None} /\ w.links[t] \in Seq(Id)
  BY <1>2, <1>4, WorldType
<1>7. \A k \in 1..Len(Front(c.queue)) : Linked(w, Front(c.queue)[k])
  BY <1>5 DEF FetchInv, OthersLinked
<1>8. \A id \in ToSet(w.links[t]) : Linked(w, id)
  BY <1>4 DEF Linked
<1>9. OthersLinked(w, d) /\ (p # None => d.queue # <<>> /\ Last(d.queue) = p)
  <2>1. PICK rest : rest = Front(c.queue)
    OBVIOUS
  <2>2. d.queue = Upcoming(rest, p, w.links[t]) /\ rest \in Seq(Id)
    BY <1>3, <1>5, <2>1
  <2>3. /\ d.queue \in Seq(Id)
        /\ p = None => Mixed(d.queue, Len(d.queue), w.links[t], rest)
        /\ p # None =>
              d.queue # <<>> /\ Last(d.queue) = p /\ Mixed(d.queue, Len(d.queue) - 1, w.links[t], rest)
    BY <1>6, <2>2, UpcomingQueue
  <2>4. \A k \in 1..(Len(d.queue) - 1) : k \in 1..Len(d.queue)
    BY <2>3
  <2>5. Mixed(d.queue, Len(d.queue) - 1, w.links[t], rest)
    BY <2>3, <2>4 DEF Mixed
  <2>6. OthersLinked(w, d)
    BY <1>7, <1>8, <2>1, <2>5 DEF OthersLinked, Mixed
  <2> QED
    BY <2>3, <2>6
<1>10. RedirectsRight(w, S, d) /\ \A z \in DOMAIN c.redirects : w.canon[z] # z
  BY <1>3, <1>4 DEF RedirectsRight, FetchInv
<1>11. ToSet(d.objects) = ToSet(c.objects) \cup {t}
  <2>1. c.objects \in Seq(Url)
    BY CallType
  <2>2. Len(d.objects) = Len(c.objects) + 1 /\ d.objects[Len(c.objects) + 1] = t
        /\ \A k \in 1..Len(c.objects) : d.objects[k] = c.objects[k]
    BY <1>3, <1>4, <2>1
  <2>3. d.objects \in Seq(Url) /\ Len(c.objects) \in Nat
    BY <2>1, CallType
  <2>4. \A x : x \in ToSet(d.objects) <=> \E k \in 1..(Len(c.objects) + 1) : d.objects[k] = x
    BY <2>2, <2>3, SetOfSeq
  <2>5. \A x : x \in ToSet(c.objects) <=> \E k \in 1..Len(c.objects) : c.objects[k] = x
    BY <2>1, SetOfSeq
  <2> QED
    BY <2>2, <2>3, <2>4, <2>5
<1>12. ObjectsFinal(w, d) /\ HeldFinal(w, d) /\ HeldNext(w, S, d)
  BY <1>3, <1>4, <1>11 DEF FetchInv, ObjectsFinal, HeldFinal, HeldNext
<1>13. ASSUME NEW u \in ToSet(d.objects) PROVE ParentHandled(w, S, d, w.parent[u])
  <2>1. CASE u = t
    BY <1>2, <1>3, <1>9, <2>1 DEF ParentHandled
  <2>2. CASE u \in ToSet(c.objects)
    <3>1. ParentHandled(w, S, c, w.parent[u])
      BY <2>2 DEF FetchInv
    <3>2. CASE c.queue # <<>> /\ Last(c.queue) = w.parent[u]
      BY <1>1, <1>3, <1>4, <1>10, <1>11, <3>2 DEF ParentHandled
    <3> QED
      BY <1>3, <1>11, <3>1, <3>2 DEF ParentHandled, Aimed
  <2> QED
    BY <1>11, <2>1, <2>2
<1> QED
  BY <1>9, <1>10, <1>12, <1>13 DEF FetchInv

LEMMA ReversedStoreInv ==
    ASSUME NEW w \in World, NEW S \in SUBSET Url, \A u \in S : w.canon[u] = u,
           NEW c \in Call, NEW d \in Call,
           FetchInv(w, S, c), Reversed(c, d)
    PROVE  StoreInv(w, d)
<1>1. ToSet(d.objects) = ToSet(c.objects)
  BY CallType, ReverseSet DEF Reversed
<1>2. ObjectsFinal(w, d)
  BY <1>1 DEF FetchInv, ObjectsFinal
<1>3. ASSUME NEW u \in ToSet(d.objects), NEW p, p = w.parent[u]
      PROVE  \/ p \in LocalId \cup {None}
             \/ p \in Url /\ w.canon[p] = p /\ p \notin DOMAIN d.redirects
             \/ p \in Url /\ Aimed(w, d, p)
  <2>1. ParentHandled(w, S, c, p)
    BY <1>1, <1>3 DEF FetchInv
  <2> QED
    BY <2>1 DEF ParentHandled, Aimed, Reversed
<1> QED
  BY <1>2, <1>3 DEF StoreInv

LEMMA IterationCallInv ==
    ASSUME NEW w \in World, NEW S \in SUBSET Url, NEW L \in SUBSET LocalId,
           \A u \in S : w.canon[u] = u,
           NEW c \in Call, NEW d \in Call,
           CallInv(w, S, c), Iteration(w, S, L, c, d)
    PROVE  CallInv(w, S, d)
<1>1. CASE Skipped(S, L, c, d)
  <2>1. c.pc = "fetching" /\ d.pc = "fetching"
    BY <1>1 DEF Skipped, Unfinished
  <2> QED
    BY <1>1, <2>1, SkippedFetchInv DEF CallInv
<1>2. CASE Redirected(w, S, c, d)
  <2>1. c.pc = "fetching" /\ d.pc = "fetching"
    BY <1>2 DEF Redirected, Unknown, Unfinished
  <2> QED
    BY <1>2, <2>1, RedirectedFetchInv DEF CallInv
<1>3. CASE Collected(w, S, c, d)
  <2>1. c.pc = "fetching" /\ d.pc = "fetching"
    BY <1>3 DEF Collected, Unknown, Unfinished
  <2> QED
    BY <1>3, <2>1, CollectedFetchInv DEF CallInv
<1>4. CASE Reversed(c, d)
  <2>1. c.pc = "fetching" /\ d.pc = "storing"
    BY <1>4 DEF Reversed
  <2> QED
    BY <1>4, <2>1, ReversedStoreInv DEF CallInv
<1> QED
  BY <1>1, <1>2, <1>3, <1>4 DEF Iteration

ParentsInv ==
    /\ ParentsTrue
    /\ \A u \in Stored : world.canon[u] = u
    /\ \A i \in Importer : CallInv(world, Stored, importer[i])

LEMMA IdleCallInv == \A w, S : CallInv(w, S, NoCall)
BY DEF CallInv, NoCall

LEMMA StartedCallInv ==
    ASSUME NEW w \in World, NEW S \in SUBSET Url, NEW u \in Url, NEW received \in BOOLEAN,
           received => w.canon[u] = u
    PROVE  CallInv(w, S, StartedCall(u, received))
<1> DEFINE c == StartedCall(u, received)
<1>1. /\ c.pc = "fetching" /\ c.queue = <<u>> /\ c.held \in {None, u} /\ c.objects = <<>>
      /\ c.redirects = [x \in {} |-> None] /\ (c.held # None => w.canon[u] = u)
  BY DEF StartedCall
<1> HIDE DEF c
<1>2. ToSet(c.objects) = {} /\ DOMAIN c.redirects = {} /\ Len(c.queue) = 1 /\ Last(c.queue) = u
  BY <1>1 DEF ToSet, Last
<1>3. FetchInv(w, S, c)
  BY <1>1, <1>2 DEF FetchInv, ObjectsFinal, HeldFinal, OthersLinked, HeldNext, RedirectsRight
<1> QED
  BY <1>1, <1>3 DEF CallInv, c

\* The parent of the row that is stored.
LEMMA StoredParentTrue ==
    ASSUME ImportTInv, ParentsInv, NEW i \in Importer, StoreNext(i),
           NEW u, u = Head(importer[i].objects)
    PROVE  /\ world.canon[u] = u
           /\ LET p == world.parent[u]
              IN  \/ Row(i, u).parent = Canon(world, p)
                  \/ p # Canon(world, p) /\ Linked(world, p)
<1> DEFINE c == importer[i]
           p == world.parent[u]
<1>1. c \in Call /\ u \in Url
  BY StoredRow
<1>2. u \in ToSet(c.objects) /\ c.pc = "storing"
  <2>1. c.pc = "storing" /\ c.objects # <<>> /\ c.objects \in Seq(Url)
    BY <1>1, CallType DEF StoreNext
  <2>2. 1 \in 1..Len(c.objects) /\ c.objects[1] = u
    BY <2>1
  <2> QED
    BY <2>1, <2>2, SetOfSeq
<1>3. StoreInv(world, c)
  BY <1>2 DEF ParentsInv, CallInv
<1>4. world.canon[u] = u
  BY <1>2, <1>3 DEF StoreInv, ObjectsFinal
<1>5. \/ p \in LocalId \cup {None}
      \/ p \in Url /\ world.canon[p] = p /\ p \notin DOMAIN c.redirects
      \/ p \in Url /\ Aimed(world, c, p)
  BY <1>2, <1>3 DEF StoreInv
<1>6. Row(i, u).parent = IF p \in DOMAIN c.redirects THEN c.redirects[p] ELSE p
  BY DEF Row, Resolved
<1>7. CASE p \in LocalId \cup {None}
  <2>1. p \notin Url
    BY <1>7, ImportAssumption DEF Id
  <2> QED
    BY <1>1, <1>4, <1>6, <2>1, CallType DEF Canon
<1>8. CASE p \in Url /\ world.canon[p] = p /\ p \notin DOMAIN c.redirects
  BY <1>4, <1>6, <1>8 DEF Canon
<1>9. CASE p \in Url /\ Aimed(world, c, p)
  BY <1>4, <1>6, <1>9 DEF Canon, Aimed
<1> QED
  BY <1>5, <1>7, <1>8, <1>9

LEMMA StoreNextParentsInv ==
    ASSUME ImportTInv, ParentsInv, NEW i \in Importer, StoreNext(i)
    PROVE  ParentsInv'
<1>1. PICK u : u = Head(importer[i].objects)
  OBVIOUS
<1>2. /\ importer[i] \in Call /\ u \in Url /\ u \notin Stored
      /\ Stored' = Stored \cup {u}
      /\ posts'[u] = Row(i, u) /\ \A x \in Stored : posts'[x] = posts[x]
      /\ importer'[i] = [importer[i] EXCEPT !.objects = Tail(@)]
      /\ \A k \in Importer : k # i => importer'[k] = OtherCall(importer[k])
      /\ world' = world
  BY <1>1, StoredRow DEF Stored, StoreNext
<1>3. /\ world.canon[u] = u
      /\ LET p == world.parent[u]
         IN  \/ Row(i, u).parent = Canon(world, p)
             \/ p # Canon(world, p) /\ Linked(world, p)
  BY <1>1, StoredParentTrue
<1>4. ParentsTrue'
  <2> SUFFICES ASSUME NEW x \in Stored \cup {u}, NEW p, p = world.parent[x]
               PROVE  \/ posts'[x].parent = Canon(world, p)
                      \/ p # Canon(world, p) /\ \E y \in Url : p \in ToSet(world.links[y])
    BY <1>2 DEF ParentsTrue
  <2>1. CASE x = u
    BY <1>2, <1>3, <2>1 DEF Linked
  <2>2. CASE x \in Stored
    BY <1>2, <2>2 DEF ParentsInv, ParentsTrue
  <2> QED
    BY <2>1, <2>2
<1>5. CallInv(world, Stored', importer'[i])
  <2> DEFINE c == importer[i]
             d == [c EXCEPT !.objects = Tail(@)]
  <2>1. /\ c.pc = "storing" /\ c.objects # <<>> /\ c.objects \in Seq(Url)
        /\ d.pc = c.pc /\ d.redirects = c.redirects /\ d.objects = Tail(c.objects)
    BY <1>2, CallType DEF StoreNext, Call
  <2>2. ToSet(d.objects) \subseteq ToSet(c.objects)
    BY <2>1, TailOf
  <2>3. StoreInv(world, c)
    BY <2>1 DEF ParentsInv, CallInv
  <2>4. StoreInv(world, d)
    BY <2>1, <2>2, <2>3 DEF StoreInv, ObjectsFinal, Aimed
  <2> QED
    BY <1>2, <2>1, <2>4 DEF CallInv
<1>6. ASSUME NEW k \in Importer, k # i PROVE CallInv(world, Stored', importer'[k])
  <2> DEFINE c == importer[k]
  <2>1. CallInv(world, Stored, c) /\ importer'[k] = OtherCall(c)
    BY <1>2, <1>6 DEF ParentsInv
  <2>2. CallInv(world, Stored', c)
    BY <1>2, <2>1, FetchInvGrows
  <2>3. CASE c = NoCall
    BY <2>1, <2>3, IdleCallInv DEF OtherCall
  <2>4. CASE c # NoCall
    <3>1. c \in Call
      BY <2>4 DEF ImportTInv, ImportTypeOK
    <3>2. /\ importer'[k].pc = c.pc /\ importer'[k].queue = c.queue /\ importer'[k].held = c.held
          /\ importer'[k].objects = c.objects /\ importer'[k].redirects = c.redirects
      BY <2>1, <2>4, <3>1 DEF OtherCall, Call
    <3> QED
      BY <2>2, <3>2 DEF CallInv, FetchInv, StoreInv, ObjectsFinal, HeldFinal, OthersLinked,
         HeldNext, RedirectsRight, ParentHandled, Frozen, Aimed
  <2> QED
    BY <2>3, <2>4
<1> QED
  BY <1>2, <1>3, <1>4, <1>5, <1>6 DEF ParentsInv

LEMMA ImportNextParentsInv == ImportTInv /\ ParentsInv /\ [ImportNext]_importVars => ParentsInv'
<1> SUFFICES ASSUME ImportTInv, ParentsInv, [ImportNext]_importVars PROVE ParentsInv'
  OBVIOUS
<1>1. ASSUME UNCHANGED <<world, posts>>,
             \A k \in Importer : CallInv(world, Stored, importer'[k])
      PROVE  ParentsInv'
  <2>1. Stored' = Stored
    BY <1>1 DEF Stored
  <2> QED
    BY <1>1, <2>1 DEF ParentsInv, ParentsTrue
<1>2. CASE UNCHANGED importVars
  BY <1>1, <1>2 DEF importVars, ParentsInv
<1>3. ASSUME NEW i \in Importer, ImportStep(i) PROVE ParentsInv'
  <2>1. /\ world \in World /\ Stored \in SUBSET Url /\ local \in SUBSET LocalId
        /\ importer \in [Importer -> {NoCall} \cup Call]
    BY DEF ImportTInv, ImportTypeOK
  <2>2. ASSUME NEW u \in Url, NEW received \in BOOLEAN, Start(i, u, received)
        PROVE  ParentsInv'
    <3>1. importer' = [importer EXCEPT ![i] = StartedCall(u, received)]
          /\ (received => world.canon[u] = u) /\ UNCHANGED <<world, posts>>
      BY <2>2 DEF Start, StartedCall
    <3>2. CallInv(world, Stored, StartedCall(u, received))
      BY <2>1, <3>1, StartedCallInv
    <3> QED
      BY <1>1, <2>1, <3>1, <3>2 DEF ParentsInv
  <2>3. CASE Iterates(i)
    <3>1. CallInv(world, Stored, importer'[i])
      BY <2>1, <2>3, IterationCallInv DEF Iterates, OwnStep, ParentsInv
    <3> QED
      BY <1>1, <2>3, <3>1 DEF Iterates, OwnStep, ParentsInv
  <2>4. CASE StoreNext(i)
    BY <2>4, StoreNextParentsInv
  <2>5. ASSUME NEW result \in {"ok", "error", "panic"}, NEW disturbed \in BOOLEAN,
               Ending(i, result, disturbed), End(i, result, disturbed)
        PROVE  ParentsInv'
    <3>1. importer' = [importer EXCEPT ![i] = NoCall] /\ UNCHANGED <<world, posts>>
      BY <2>5 DEF End
    <3> QED
      BY <1>1, <2>1, <3>1, IdleCallInv DEF ParentsInv
  <2> QED
    BY <1>3, <2>2, <2>3, <2>4, <2>5, KindsOfImportStep
<1> QED
  BY <1>2, <1>3 DEF ImportNext

LEMMA ImportInitParentsInv == ImportInit => ParentsInv
<1> SUFFICES ASSUME ImportInit PROVE ParentsInv
  OBVIOUS
<1>1. Stored = {}
  BY DEF ImportInit, Stored
<1>2. \A i \in Importer : importer[i] = NoCall
  BY DEF ImportInit
<1> QED
  BY <1>1, <1>2, IdleCallInv DEF ParentsInv, ParentsTrue

\* Every stored reply is attached to the post its document names, for any
\* documents, redirections and concurrent imports; only a redirected URL to which
\* another document links may be taken for another post (import_post, handle_note).
THEOREM ImportParentsTrue == ImportSpec => []ParentsTrue
<1>1. ParentsInv => ParentsTrue
  BY DEF ParentsInv
<1> QED
  BY <1>1, ImportInitTInv, ImportNextTInv, ImportInitParentsInv, ImportNextParentsInv, PTL
  DEF ImportSpec

-----------------------------------------------------------------------------
(* Threads *)

LEMMA LeastNat ==
    ASSUME NEW S \in SUBSET Nat, S # {}
    PROVE  \E m \in S : \A n \in S : m <= n
<1> DEFINE R == OpToRel(<, Nat)
<1>1. IsWellFoundedOn(R, Nat)
  BY NatLessThanWellFounded
<1>2. \A x \in Nat, y \in Nat : <<x, y>> \in R <=> x < y
  BY DEF OpToRel
<1> HIDE DEF R
<1>3. PICK m \in S : \A n \in S : <<n, m>> \notin R
  BY <1>1, WFMin
<1>4. m \in Nat
  OBVIOUS
<1>5. ASSUME NEW n \in S PROVE m <= n
  <2>1. n \in Nat /\ ~(n < m)
    BY <1>2, <1>3, <1>4
  <2> QED
    BY <1>4, <2>1
<1> QED
  BY <1>5

\* The object above another.
Above(w, x) == IF x \in Url THEN Canon(w, w.parent[x]) ELSE None

Rung(w, u, f, n) == IF n = 0 THEN Canon(w, u) ELSE Above(w, f[n - 1])

\* There are ancestors up to any height ...
LEMMA RungsExist ==
    ASSUME NEW w, NEW u, NEW N \in Nat
    PROVE  \E f : f = [n \in 0..N |-> Rung(w, u, f, n)]
<1> DEFINE Some(k) == \E f : f = [n \in 0..k |-> Rung(w, u, f, n)]
           missing == {k \in Nat : ~Some(k)}
<1> SUFFICES missing = {}
  OBVIOUS
<1>1. Some(0)
  <2> DEFINE f == [n \in 0..0 |-> Canon(w, u)]
  <2>1. \A n \in 0..0 : n = 0
    OBVIOUS
  <2>2. \A g : \A n \in 0..0 : Rung(w, u, g, n) = Canon(w, u)
    BY <2>1 DEF Rung
  <2>3. f = [n \in 0..0 |-> Rung(w, u, f, n)]
    BY <2>2
  <2> QED
    BY <2>3
<1>2. ASSUME NEW k \in Nat, Some(k) PROVE Some(k + 1)
  <2>1. PICK g : g = [n \in 0..k |-> Rung(w, u, g, n)]
    BY <1>2
  <2>2. PICK top : top = Above(w, g[k])
    OBVIOUS
  <2>3. PICK f : f = [n \in 0..(k + 1) |-> IF n = k + 1 THEN top ELSE g[n]]
    OBVIOUS
  <2>4. ASSUME NEW n \in 0..(k + 1) PROVE f[n] = Rung(w, u, f, n)
    <3>1. CASE n = k + 1
      <4>1. n # 0 /\ n - 1 = k /\ k \in 0..(k + 1) /\ k # k + 1
        BY <3>1
      <4>2. f[n] = top /\ f[n - 1] = g[k]
        BY <2>3, <3>1, <4>1
      <4> QED
        BY <2>2, <4>1, <4>2 DEF Rung
    <3>2. CASE n # k + 1
      <4>1. n \in 0..k
        BY <3>2
      <4>2. f[n] = g[n] /\ g[n] = Rung(w, u, g, n)
        BY <2>1, <2>3, <3>2, <4>1
      <4>3. n # 0 => n - 1 \in 0..(k + 1) /\ n - 1 # k + 1
        BY <4>1
      <4>4. n # 0 => f[n - 1] = g[n - 1]
        BY <2>3, <4>3
      <4> QED
        BY <4>2, <4>4 DEF Rung
    <3> QED
      BY <3>1, <3>2
  <2>5. f = [n \in 0..(k + 1) |-> Rung(w, u, f, n)]
    BY <2>3, <2>4
  <2> QED
    BY <2>5
<1> HIDE DEF Some
<1> SUFFICES ASSUME missing # {} PROVE FALSE
  OBVIOUS
<1>3. PICK m \in missing : \A n \in missing : m <= n
  BY LeastNat
<1>4. m \in Nat /\ ~Some(m) /\ m # 0
  BY <1>1, <1>3
<1>5. m - 1 \in Nat /\ (m - 1) + 1 = m /\ ~(m <= m - 1)
  BY <1>4
<1>6. Some(m - 1)
  BY <1>3, <1>5
<1> QED
  BY <1>2, <1>4, <1>5, <1>6

\* ... which is what Ancestors are.
LEMMA AncestorsAre ==
    ASSUME NEW w, NEW u
    PROVE  /\ Cardinality(Url) \in Nat
           /\ \A n \in 0..Cardinality(Url) :
                 Ancestors(w, u)[n] = Rung(w, u, Ancestors(w, u), n)
<1> DEFINE N == Cardinality(Url)
           Entry(f, n) == IF n = 0 THEN Canon(w, u)
                          ELSE IF f[n - 1] \in Url THEN Canon(w, w.parent[f[n - 1]])
                          ELSE None
<1>1. N \in Nat
  BY FS_CardinalityType, ImportAssumption
<1>2. \A f : \A n \in 0..N : Rung(w, u, f, n) = Entry(f, n)
  BY DEF Rung, Above
<1>3. \E f : f = [n \in 0..N |-> Entry(f, n)]
  <2>1. PICK f : f = [n \in 0..N |-> Rung(w, u, f, n)]
    BY <1>1, RungsExist
  <2> QED
    BY <1>2, <2>1
<1>4. Ancestors(w, u) = [n \in 0..N |-> Entry(Ancestors(w, u), n)]
  BY <1>3 DEF Ancestors
<1> HIDE DEF Entry
<1>5. \A n \in 0..N : Ancestors(w, u)[n] = Entry(Ancestors(w, u), n)
  BY <1>4
<1> QED
  BY <1>1, <1>2, <1>5

\* A names an object and its ancestors, and the last one is not a remote object.
Chain(w, N, A) ==
    /\ N \in Nat
    /\ \A n \in 1..N : A[n] = Above(w, A[n - 1])
    /\ A[N] \notin Url /\ None \notin Url

Rungs(N, A) == {A[n] : n \in 0..N}

LEMMA ChainBelow ==
    ASSUME NEW w, NEW N, NEW A, Chain(w, N, A), NEW n \in 0..N, A[n] \in Url
    PROVE  \A k \in 0..n : A[k] \in Url
<1> SUFFICES ASSUME NEW k \in 0..n, A[k] \notin Url PROVE FALSE
  OBVIOUS
<1> DEFINE later == {m \in Nat : m \in k..n /\ A[m] \in Url}
<1>1. N \in Nat /\ n \in Nat /\ k \in Nat /\ n <= N /\ k <= n
  BY DEF Chain
<1>2. n \in later
  BY <1>1
<1>3. PICK m \in later : \A x \in later : m <= x
  BY <1>2, LeastNat
<1>4. m \in Nat /\ m \in k..n /\ A[m] \in Url /\ m # k
  BY <1>1, <1>3
<1>5. m - 1 \in Nat /\ m - 1 \in k..n /\ ~(m <= m - 1) /\ m \in 1..N
  BY <1>1, <1>4
<1>6. A[m - 1] \notin Url
  BY <1>3, <1>5
<1>7. A[m] = Above(w, A[m - 1])
  BY <1>5 DEF Chain
<1> QED
  BY <1>4, <1>6, <1>7 DEF Above, Chain

\* What comes twice in a thread comes again and again.
LEMMA ChainRepeats ==
    ASSUME NEW w, NEW N, NEW A, Chain(w, N, A),
           NEW p \in Nat \ {0}, NEW j \in p..N, A[j] = A[j - p]
    PROVE  \A n \in j..N : A[n] = A[n - p]
<1> DEFINE bad == {n \in Nat : n \in j..N /\ A[n] # A[n - p]}
<1>1. N \in Nat /\ j \in Nat /\ p <= j /\ p >= 1
  BY DEF Chain
<1> SUFFICES ASSUME bad # {} PROVE FALSE
  BY <1>1
<1>2. PICK m \in bad : \A x \in bad : m <= x
  BY LeastNat
<1>3. m \in Nat /\ m \in j..N /\ A[m] # A[m - p] /\ m # j
  BY <1>2
<1>4. /\ m - 1 \in Nat /\ m - 1 \in j..N /\ ~(m <= m - 1)
      /\ m \in 1..N /\ m - p \in 1..N /\ (m - 1) - p = (m - p) - 1
  BY <1>1, <1>3
<1>5. A[m - 1] = A[(m - 1) - p]
  BY <1>2, <1>4
<1>6. A[m] = Above(w, A[m - 1]) /\ A[m - p] = Above(w, A[(m - p) - 1])
  BY <1>4 DEF Chain
<1> QED
  BY <1>3, <1>4, <1>5, <1>6

\* A thread that ends has no object twice.
LEMMA ChainDistinct ==
    ASSUME NEW w, NEW N, NEW A, Chain(w, N, A),
           NEW i \in 0..N, NEW j \in 0..N, i < j, A[i] \in Url
    PROVE  A[i] # A[j]
<1> SUFFICES ASSUME A[i] = A[j] PROVE FALSE
  OBVIOUS
<1> DEFINE ends == {n \in Nat : n \in 0..N /\ A[n] \notin Url}
<1>1. N \in Nat /\ i \in Nat /\ j \in Nat /\ j <= N
  BY DEF Chain
<1>2. PICK p : p = j - i
  OBVIOUS
<1>3. p \in Nat \ {0} /\ j \in p..N /\ j - p = i
  BY <1>1, <1>2
<1>4. \A n \in j..N : A[n] = A[n - p]
  BY <1>3, ChainRepeats
<1>5. N \in ends
  BY <1>1 DEF Chain
<1>6. PICK m \in ends : \A x \in ends : m <= x
  BY <1>5, LeastNat
<1>7. \A k \in 0..j : A[k] \in Url
  BY ChainBelow
<1>8. m \in Nat /\ m \in j..N /\ A[m] \notin Url
  BY <1>1, <1>6, <1>7
<1>9. m - p \in Nat /\ m - p \in 0..N /\ ~(m <= m - p)
  BY <1>1, <1>3, <1>8
<1>10. A[m - p] \notin Url
  BY <1>4, <1>8
<1> QED
  BY <1>6, <1>9, <1>10

\* So many objects are in a thread that goes beyond its m-th object.
LEMMA ChainCount ==
    ASSUME NEW w, NEW N, NEW A, Chain(w, N, A),
           NEW m \in 0..N, \A k \in 0..(m - 1) : A[k] \in Url, A[m] # None,
           NEW T, T = Rungs(N, A)
    PROVE  m + 1 <= Cardinality(T \ {None})
<1>1. N \in Nat /\ m \in Nat /\ m <= N
  BY DEF Chain
<1> DEFINE f == [k \in 0..m |-> A[k]]
<1> USE DEF Rungs
<1>2. IsFiniteSet(T \ {None})
  <2>1. IsFiniteSet(0..N)
    BY <1>1, FS_Interval
  <2>2. IsFiniteSet(T)
    <3> DEFINE g == [n \in 0..N |-> A[n]]
    <3>1. g \in Surjection(0..N, T)
      BY DEF Surjection
    <3> QED
      BY <2>1, <3>1, FS_Surjection
  <2> QED
    BY <2>2, FS_Subset
<1>3. ASSUME NEW k \in 0..m PROVE A[k] \in T \ {None}
  <2>1. k \in 0..N /\ (k = m \/ k \in 0..(m - 1))
    BY <1>1
  <2> QED
    BY <2>1 DEF Chain
<1>4. ASSUME NEW x \in 0..m, NEW y \in 0..m, x < y PROVE A[x] # A[y]
  <2>1. x \in 0..N /\ y \in 0..N /\ x \in 0..(m - 1)
    BY <1>1, <1>4
  <2> QED
    BY <1>4, <2>1, ChainDistinct
<1>5. f \in Injection(0..m, T \ {None})
  <2>1. f \in [0..m -> T \ {None}]
    BY <1>3
  <2>2. ASSUME NEW x \in 0..m, NEW y \in 0..m, f[x] = f[y] PROVE x = y
    <3>1. x \in Int /\ y \in Int /\ (x = y \/ x < y \/ y < x)
      BY <1>1
    <3> QED
      BY <1>4, <2>2, <3>1
  <2> QED
    BY <2>1, <2>2 DEF Injection, IsInjective
<1>6. IsFiniteSet(0..m) /\ Cardinality(0..m) = m + 1
  BY <1>1, FS_Interval
<1>7. Cardinality(0..m) <= Cardinality(T \ {None})
  BY <1>2, <1>5, FS_Injection
<1> QED
  BY <1>6, <1>7

-----------------------------------------------------------------------------
(* Which object a call begins with *)

StartInv(w, S, c) ==
    LET s == Canon(w, c.start)
    IN  /\ c.pc = "fetching" /\ c.objects = <<>> /\ c.queue # <<>> =>
              /\ Len(c.queue) = 1 /\ c.queue[1] \in {c.start, s}
              /\ c.held \in {None, c.queue[1]}
        /\ c.pc = "fetching" /\ c.objects # <<>> => c.objects[1] = s
        /\ c.pc = "storing" =>
              IF c.objects = <<>> THEN s \in S ELSE c.objects[Len(c.objects)] = s

LEMMA CanonTwice ==
    ASSUME NEW w \in World, NEW u \in Url
    PROVE  /\ Canon(w, u) = w.canon[u] /\ Canon(w, u) \in Id
           /\ Canon(w, Canon(w, u)) = Canon(w, u)
BY WorldType DEF Canon

LEMMA StartedStartInv ==
    ASSUME NEW w, NEW S, NEW u \in Url, NEW received \in BOOLEAN
    PROVE  StartInv(w, S, StartedCall(u, received))
BY DEF StartInv, StartedCall

LEMMA IterationStartInv ==
    ASSUME NEW w \in World, NEW S \in SUBSET Url, NEW L \in SUBSET LocalId,
           \A u \in S : w.canon[u] = u,
           NEW c \in Call, NEW d \in Call,
           CallInv(w, S, c), StartInv(w, S, c), Iteration(w, S, L, c, d)
    PROVE  StartInv(w, S, d)
<1>1. PICK s : s = Canon(w, c.start)
  OBVIOUS
<1>2. d.start = c.start /\ c.start \in Url /\ s \in Id /\ s = w.canon[c.start] /\ Canon(w, s) = s
  BY <1>1, CallType, CanonTwice DEF Iteration, SameCall
<1>3. c.queue \in Seq(Id) /\ c.objects \in Seq(Url) /\ d.queue \in Seq(Id) /\ d.objects \in Seq(Url)
  BY CallType
<1>4. CASE Skipped(S, L, c, d)
  <2>1. d.pc = c.pc /\ d.objects = c.objects /\ d.queue = Front(c.queue) /\ c.pc = "fetching"
        /\ c.queue # <<>>
    BY <1>4 DEF Skipped, Unfinished
  <2>2. Len(d.queue) = Len(c.queue) - 1
    BY <2>1, CallQueue DEF Unfinished
  <2>3. CASE c.objects = <<>>
    <3>1. Len(c.queue) = 1
      BY <2>1, <2>3 DEF StartInv
    <3>2. d.queue = <<>>
      BY <1>3, <2>2, <3>1
    <3> QED
      BY <2>1, <2>3, <3>2 DEF StartInv
  <2>4. CASE c.objects # <<>>
    BY <1>2, <2>1, <2>4 DEF StartInv
  <2> QED
    BY <2>3, <2>4
<1>5. ASSUME Unknown(S, c), c.objects = <<>>, NEW t, t = Last(c.queue)
      PROVE  /\ Len(c.queue) = 1 /\ Front(c.queue) = <<>> /\ t \in {c.start, s} /\ c.held \in {None, t}
             /\ Got(w, c) # t => Got(w, c) = s /\ s # None
             /\ Got(w, c) = t => t = s
  <2>1. c.pc = "fetching" /\ c.queue # <<>> /\ t \in Url
    BY <1>5 DEF Unknown, Unfinished
  <2>2. Len(c.queue) = 1 /\ t = c.queue[1] /\ Front(c.queue) = <<>>
    <3>1. Len(c.queue) = 1
      BY <1>5, <2>1 DEF StartInv
    <3>2. Front(c.queue) \in Seq(Id) /\ Len(Front(c.queue)) = 0
      BY <1>5, <2>1, <3>1, CallQueue DEF Unfinished
    <3> QED
      BY <1>5, <3>1, <3>2 DEF Last
  <2>3. t \in {c.start, s} /\ c.held \in {None, t}
    BY <1>1, <1>5, <2>1, <2>2 DEF StartInv
  <2>4. ASSUME Got(w, c) # t PROVE Got(w, c) = s /\ s # None
    <3>1. c.held = None /\ Got(w, c) = w.canon[t]
      BY <1>5, <2>3, <2>4 DEF Got
    <3>2. w.canon[t] = s
      BY <1>2, <2>1, <2>3 DEF Canon
    <3> QED
      BY <1>2, <3>1, <3>2, ImportAssumption
  <2>5. ASSUME Got(w, c) = t PROVE t = s
    <3>1. w.canon[t] = t
      BY <1>5, <2>1, <2>5, GotFinal, ImportAssumption DEF CallInv
    <3> QED
      BY <1>2, <2>3, <3>1
  <2> QED
    BY <2>2, <2>3, <2>4, <2>5
<1>6. CASE Redirected(w, S, c, d)
  <2>1. PICK t : t = Last(c.queue)
    OBVIOUS
  <2>2. /\ d.pc = c.pc /\ d.objects = c.objects /\ c.pc = "fetching"
        /\ d.queue = Append(Front(c.queue), Got(w, c)) /\ d.held = Got(w, c)
        /\ Unknown(S, c) /\ Got(w, c) # t
    BY <1>6, <2>1 DEF Redirected, Unknown, Unfinished
  <2>3. CASE c.objects = <<>>
    <3>1. Front(c.queue) = <<>> /\ Got(w, c) = s
      BY <1>5, <2>1, <2>2, <2>3
    <3>2. d.queue = <<s>> /\ d.held = s
      BY <2>2, <3>1
    <3> QED
      BY <1>1, <1>2, <2>2, <2>3, <3>2 DEF StartInv
  <2>4. CASE c.objects # <<>>
    BY <1>2, <2>2, <2>4 DEF StartInv
  <2> QED
    BY <2>3, <2>4
<1>7. CASE Collected(w, S, c, d)
  <2>1. PICK t : t = Last(c.queue)
    OBVIOUS
  <2>2. /\ d.pc = c.pc /\ d.objects = Append(c.objects, t) /\ c.pc = "fetching"
        /\ Unknown(S, c) /\ Got(w, c) = t /\ t \in Url
    BY <1>7, <2>1 DEF Collected, Unknown, Unfinished
  <2>3. CASE c.objects = <<>>
    <3>1. t = s
      BY <1>5, <2>1, <2>2, <2>3
    <3>2. d.objects = <<s>>
      BY <2>2, <2>3, <3>1
    <3> QED
      BY <1>1, <1>2, <2>2, <3>2 DEF StartInv
  <2>4. CASE c.objects # <<>>
    <3>1. c.objects[1] = s
      BY <1>1, <2>2, <2>4 DEF StartInv
    <3>2. d.objects[1] = c.objects[1] /\ d.objects # <<>>
      BY <1>3, <2>2, <2>4
    <3> QED
      BY <1>1, <1>2, <2>2, <3>1, <3>2 DEF StartInv
  <2> QED
    BY <2>3, <2>4
<1>8. CASE Reversed(c, d)
  <2>1. d.pc = "storing" /\ c.pc = "fetching" /\ c.objects # <<>> /\ d.objects = Reverse(c.objects)
    BY <1>8 DEF Reversed
  <2>2. c.objects[1] = s
    BY <1>1, <2>1 DEF StartInv
  <2>3. Len(d.objects) = Len(c.objects) /\ Len(c.objects) \in Nat \ {0}
        /\ \A k \in 1..Len(c.objects) : d.objects[k] = c.objects[Len(c.objects) - k + 1]
    BY <1>3, <2>1, ReverseOf
  <2>4. Len(c.objects) \in 1..Len(c.objects) /\ Len(c.objects) - Len(c.objects) + 1 = 1
    BY <2>3
  <2>5. d.objects[Len(d.objects)] = s /\ d.objects # <<>>
    BY <1>3, <2>2, <2>3, <2>4
  <2> QED
    BY <1>1, <1>2, <2>1, <2>5 DEF StartInv
<1> QED
  BY <1>4, <1>6, <1>7, <1>8 DEF Iteration

\* The tail of the objects, when the first one is stored.
LEMMA StoringStartInv ==
    ASSUME NEW w, NEW S, NEW c \in Call, NEW d \in Call, c.pc = "storing",
           c.objects # <<>>, StartInv(w, S, c),
           d.pc = c.pc, d.start = c.start, d.objects = Tail(c.objects)
    PROVE  StartInv(w, S \cup {Head(c.objects)}, d)
<1>1. c.objects \in Seq(Url)
  BY CallType
<1>2. /\ Len(d.objects) = Len(c.objects) - 1 /\ Len(c.objects) \in Nat \ {0}
      /\ \A k \in 1..(Len(c.objects) - 1) : d.objects[k] = c.objects[k + 1]
      /\ d.objects \in Seq(Url)
  BY <1>1, TailOf
<1>3. c.objects[Len(c.objects)] = Canon(w, c.start)
  BY DEF StartInv
<1>4. CASE d.objects = <<>>
  <2>1. Head(c.objects) = c.objects[1]
    BY <1>1
  <2>2. Len(d.objects) = 0
    BY <1>2, <1>4
  <2>3. Len(c.objects) = 1
    BY <1>2, <2>2
  <2> QED
    BY <1>3, <1>4, <2>1, <2>3 DEF StartInv
<1>5. CASE d.objects # <<>>
  <2>1. Len(d.objects) \in 1..(Len(c.objects) - 1) /\ Len(d.objects) + 1 = Len(c.objects)
    BY <1>2, <1>5
  <2>2. d.objects[Len(d.objects)] = c.objects[Len(c.objects)]
    BY <1>2, <2>1
  <2> QED
    BY <1>3, <1>5, <2>2 DEF StartInv
<1> QED
  BY <1>4, <1>5

-----------------------------------------------------------------------------
(* The import of a plain thread that nothing disturbs *)

\* What a plain thread is, in terms of its chain A of N + 1 ids.
PlainChain(w, L, u, N, A) ==
    /\ Chain(w, N, A)
    /\ A[0] = Canon(w, u) /\ A[0] \in Url
    /\ \A n \in 0..N : A[n] \in Url \cup L \cup {None}
    /\ \A n \in 0..N : A[n] \in Url => w.links[A[n]] = <<>>
    /\ \A m \in 0..N : (\A k \in 0..(m - 1) : A[k] \in Url) /\ A[m] # None => m + 1 <= DepthMax

LEMMA PlainIsChain ==
    ASSUME NEW w, NEW L, NEW u, Plain(w, L, u)
    PROVE  PlainChain(w, L, u, Cardinality(Url), Ancestors(w, u))
<1>1. PICK A : A = Ancestors(w, u)
  OBVIOUS
<1>2. PICK N : N = Cardinality(Url)
  OBVIOUS
<1>3. N \in Nat /\ \A n \in 0..N : A[n] = Rung(w, u, A, n)
  BY <1>1, <1>2, AncestorsAre
<1>4. A[0] = Canon(w, u) /\ \A n \in 1..N : A[n] = Above(w, A[n - 1])
  <2>1. 0 \in 0..N /\ \A n \in 1..N : n \in 0..N /\ n # 0
    BY <1>3
  <2> QED
    BY <1>3, <2>1 DEF Rung
<1>5. Thread(w, u) = {A[n] : n \in 0..N}
  BY <1>1, <1>2 DEF Thread
<1>6. Chain(w, N, A)
  BY <1>1, <1>2, <1>3, <1>4, ImportAssumption DEF Chain, Plain, Rooted, Id
<1>7. ASSUME NEW n \in 0..N
      PROVE  A[n] \in Url \cup L \cup {None} /\ (A[n] \in Url => w.links[A[n]] = <<>>)
  <2>1. A[n] \in Thread(w, u)
    BY <1>5
  <2> QED
    BY <2>1 DEF Plain
<1>8. ASSUME NEW m \in 0..N, \A k \in 0..(m - 1) : A[k] \in Url, A[m] # None
      PROVE  m + 1 <= DepthMax
  <2>1. PICK T : T = Thread(w, u)
    OBVIOUS
  <2>2. m + 1 <= Cardinality(T \ {None})
    <3>1. T = Rungs(N, A)
      BY <1>5, <2>1 DEF Rungs
    <3>3. Chain(w, N, A)
      BY <1>6
    <3>4. \A k \in 0..(m - 1) : A[k] \in Url
      BY <1>8
    <3>5. A[m] # None
      BY <1>8
    <3> QED
      BY <3>1, <3>3, <3>4, <3>5, ChainCount
  <2>3. Cardinality(T \ {None}) <= DepthMax
    BY <2>1 DEF Plain
  <2>4. IsFiniteSet(T \ {None})
    <3> DEFINE g == [n \in 0..N |-> A[n]]
    <3>1. g \in Surjection(0..N, T)
      BY <1>5, <2>1 DEF Surjection
    <3>2. IsFiniteSet(T)
      BY <1>3, <3>1, FS_Interval, FS_Surjection
    <3> QED
      BY <3>2, FS_Subset
  <2>5. Cardinality(T \ {None}) \in Nat
    BY <2>4, FS_CardinalityType
  <2> QED
    BY <1>3, <2>2, <2>3, <2>5, ImportAssumption
<1> QED
  BY <1>1, <1>2, <1>4, <1>6, <1>7, <1>8 DEF PlainChain, Plain

\* The parent p of a collected object is known by its id, or is next.
Sought(w, c, p) ==
    Canon(w, p) = p \/ p \in DOMAIN c.redirects \/ (c.pc = "fetching" /\ c.queue = <<p>>)

FetchThread(w, S, L, A, c) ==
    LET m == Len(c.objects)
    IN  /\ \A k \in 1..m : c.objects[k] = A[k - 1]
        /\ \/ c.queue = <<>> /\ m >= 1 /\ A[m] \in S \cup L \cup {None}
           \/ /\ Len(c.queue) = 1 /\ Canon(w, c.queue[1]) = A[m]
              /\ c.held \in {None, c.queue[1]}
        /\ c.fetches <= m + IF c.held = None THEN 0 ELSE 1

StoreThread(S, L, A, c) ==
    LET m == Len(c.objects)
    IN  /\ \A k \in 1..m : c.objects[k] = A[m - k]
        /\ A[m] \in S \cup L \cup {None}

ThreadInv(w, S, L, N, A, c) ==
    /\ \A z \in DOMAIN c.redirects : c.redirects[z] = w.canon[z]
    /\ \A u \in ToSet(c.objects) : u \notin S
    /\ \A u \in ToSet(c.objects) : Sought(w, c, w.parent[u])
    /\ Len(c.objects) <= N
    /\ c.pc = "fetching" => FetchThread(w, S, L, A, c)
    /\ c.pc = "storing" => StoreThread(S, L, A, c)

LEMMA CanonOfOther ==
    ASSUME NEW w, NEW x, x \notin Url
    PROVE  Canon(w, x) = x
BY DEF Canon

LEMMA StartedThreadInv ==
    ASSUME NEW w, NEW S, NEW L, NEW N, NEW A, NEW u \in Url, NEW received \in BOOLEAN,
           PlainChain(w, L, u, N, A)
    PROVE  ThreadInv(w, S, L, N, A, StartedCall(u, received))
<1> DEFINE c == StartedCall(u, received)
<1>1. /\ c.pc = "fetching" /\ c.queue = <<u>> /\ c.held \in {None, u} /\ c.objects = <<>>
      /\ c.redirects = [x \in {} |-> None] /\ c.fetches = 0
  BY DEF StartedCall
<1> HIDE DEF c
<1>2. ToSet(c.objects) = {} /\ DOMAIN c.redirects = {} /\ Len(c.objects) = 0
      /\ Len(c.queue) = 1 /\ c.queue[1] = u
  BY <1>1 DEF ToSet
<1>3. FetchThread(w, S, L, A, c)
  BY <1>1, <1>2 DEF FetchThread, PlainChain
<1>4. N \in Nat
  BY DEF PlainChain, Chain
<1>5. ThreadInv(w, S, L, N, A, c)
  BY <1>1, <1>2, <1>3, <1>4 DEF ThreadInv
<1> QED
  BY <1>5 DEF c

NextIs(w, N, A, c, t, m) ==
    /\ m \in Nat /\ m \in 0..N /\ c.queue = <<t>> /\ Front(c.queue) = <<>>
    /\ t \in Id /\ Canon(w, t) = A[m] /\ c.held \in {None, t}
    /\ c.fetches <= m + IF c.held = None THEN 0 ELSE 1
    /\ \A k \in 1..m : c.objects[k] = A[k - 1]
    /\ \A k \in 0..(m - 1) : A[k] \in Url
    /\ A[m] \in Url => m < N

\* What a fetching call of a plain thread is about to look at.
LEMMA NextOfThread ==
    ASSUME NEW w \in World, NEW S \in SUBSET Url, NEW L \in SUBSET LocalId,
           NEW N, NEW A, NEW c \in Call, NEW t, t = Last(c.queue), NEW m, m = Len(c.objects),
           PlainChain(w, L, c.start, N, A), ThreadInv(w, S, L, N, A, c), Unfinished(c)
    PROVE  NextIs(w, N, A, c, t, m)
<1>1. c.queue \in Seq(Id) /\ c.objects \in Seq(Url) /\ N \in Nat /\ m \in Nat
  BY CallType DEF PlainChain, Chain
<1>2. m \in 0..N
  BY <1>1 DEF ThreadInv
<1>3. FetchThread(w, S, L, A, c) /\ c.queue # <<>>
  BY DEF ThreadInv, Unfinished
<1>4. Len(c.queue) = 1 /\ Canon(w, c.queue[1]) = A[m] /\ c.held \in {None, c.queue[1]}
  BY <1>3 DEF FetchThread
<1>5. t = c.queue[1] /\ c.queue = <<t>> /\ t \in Id
  BY <1>1, <1>4 DEF Last
<1>6. Front(c.queue) = <<>>
  <2>1. Front(c.queue) \in Seq(Id) /\ Len(Front(c.queue)) = 0
    BY <1>4, CallQueue
  <2> QED
    BY <2>1
<1>7. /\ c.fetches <= m + IF c.held = None THEN 0 ELSE 1
      /\ \A k \in 1..m : c.objects[k] = A[k - 1]
  BY <1>3 DEF FetchThread
<1>8. \A k \in 0..(m - 1) : A[k] \in Url
  <2>1. TAKE k \in 0..(m - 1)
  <2>2. k + 1 \in 1..m /\ (k + 1) - 1 = k
    BY <1>1
  <2>3. c.objects[k + 1] \in Url
    BY <1>1, <2>2
  <2> QED
    BY <1>7, <2>2, <2>3
<1>9. ASSUME A[m] \in Url PROVE m < N
  <2>1. m # N
    BY <1>9 DEF PlainChain, Chain
  <2> QED
    BY <1>1, <1>2, <2>1
<1> QED
  BY <1>1, <1>2, <1>4, <1>5, <1>6, <1>7, <1>8, <1>9 DEF NextIs

\* A chain that ends has nothing known again: what is skipped ends the thread.
LEMMA SkippedThreadInv ==
    ASSUME NEW w \in World, NEW S \in SUBSET Url, NEW L \in SUBSET LocalId,
           \A u \in S : w.canon[u] = u,
           NEW N, NEW A, NEW c \in Call, NEW d \in Call,
           PlainChain(w, L, c.start, N, A), FetchInv(w, S, c), ThreadInv(w, S, L, N, A, c),
           Skipped(S, L, c, d)
    PROVE  ThreadInv(w, S, L, N, A, d)
<1>1. PICK t : t = Last(c.queue)
  OBVIOUS
<1>2. PICK m : m = Len(c.objects)
  OBVIOUS
<1>3. /\ Unfinished(c) /\ d.pc = c.pc /\ d.queue = Front(c.queue) /\ d.held = c.held
      /\ d.objects = c.objects /\ d.redirects = c.redirects /\ d.fetches = c.fetches
      /\ c.pc = "fetching"
  BY DEF Skipped, Unfinished
<1>4. /\ m \in Nat /\ m \in 0..N /\ c.queue = <<t>> /\ d.queue = <<>>
      /\ t \in Id /\ Canon(w, t) = A[m] /\ c.held \in {None, t}
      /\ c.fetches <= m + IF c.held = None THEN 0 ELSE 1
      /\ \A k \in 1..m : c.objects[k] = A[k - 1]
      /\ \A k \in 0..(m - 1) : A[k] \in Url
  <2>1. NextIs(w, N, A, c, t, m)
    BY <1>1, <1>2, <1>3, NextOfThread
  <2> QED
    BY <1>3, <2>1 DEF NextIs
<1>5. t \notin ToSet(c.objects)
  <2> SUFFICES ASSUME t \in ToSet(c.objects) PROVE FALSE
    OBVIOUS
  <2>1. c.objects \in Seq(Url)
    BY CallType
  <2>2. PICK k \in 1..m : c.objects[k] = t
    BY <1>2, <2>1, SetOfSeq
  <2>3. t \in Url /\ Canon(w, t) = t
    BY <2>1, SetOfSeq DEF FetchInv, ObjectsFinal, Canon
  <2>4. k - 1 \in 0..N /\ k - 1 < m /\ A[k - 1] = t /\ A[m] = t /\ N \in Nat
    BY <1>4, <2>2, <2>3 DEF PlainChain, Chain
  <2> QED
    <3>1. Chain(w, N, A) /\ m \in 0..N
      BY <1>4 DEF PlainChain
    <3> QED
      BY <2>3, <2>4, <3>1, ChainDistinct
<1>6. t \in L \/ (t \in S /\ c.objects # <<>>)
  BY <1>1, <1>5 DEF Skipped
<1>7. A[m] = t /\ Canon(w, t) = t
  <2>1. CASE t \in L
    <3>1. t \notin Url
      BY <2>1, ImportAssumption
    <3> QED
      BY <1>4, <3>1 DEF Canon
  <2>2. CASE t \in S
    BY <1>4, <2>2 DEF Canon
  <2> QED
    BY <1>6, <2>1, <2>2
<1>8. m >= 1
  <2>1. CASE t \in L
    <3>1. t \notin Url
      BY <2>1, ImportAssumption
    <3>2. m # 0
      BY <1>7, <3>1 DEF PlainChain
    <3> QED
      BY <1>4, <3>2
  <2>2. CASE c.objects # <<>>
    <3>1. Len(c.objects) # 0
      BY <2>2, CallType
    <3> QED
      BY <1>2, <1>4, <3>1
  <2> QED
    BY <1>6, <2>1, <2>2
<1>9. FetchThread(w, S, L, A, d)
  BY <1>2, <1>3, <1>4, <1>6, <1>7, <1>8 DEF FetchThread
<1>10. ASSUME NEW u \in ToSet(d.objects) PROVE Sought(w, d, w.parent[u])
  <2>1. Sought(w, c, w.parent[u])
    BY <1>3, <1>10 DEF ThreadInv
  <2>2. CASE c.queue = <<w.parent[u]>>
    <3>1. w.parent[u] = t
      BY <1>4, <2>2
    <3> QED
      BY <1>7, <3>1 DEF Sought
  <2> QED
    BY <1>3, <2>1, <2>2 DEF Sought
<1> QED
  BY <1>3, <1>9, <1>10 DEF ThreadInv

LEMMA RedirectedThreadInv ==
    ASSUME NEW w \in World, NEW S \in SUBSET Url, NEW L \in SUBSET LocalId,
           NEW N, NEW A, NEW c \in Call, NEW d \in Call,
           PlainChain(w, L, c.start, N, A), FetchInv(w, S, c), ThreadInv(w, S, L, N, A, c),
           Redirected(w, S, c, d)
    PROVE  ThreadInv(w, S, L, N, A, d)
<1>1. PICK t : t = Last(c.queue)
  OBVIOUS
<1>2. PICK m : m = Len(c.objects)
  OBVIOUS
<1>3. PICK o : o = Got(w, c)
  OBVIOUS
<1>4. /\ Unknown(S, c) /\ Unfinished(c) /\ o # t /\ d.pc = c.pc /\ c.pc = "fetching" /\ t \in Url
      /\ d.queue = Append(Front(c.queue), o) /\ d.held = o
      /\ d.objects = c.objects /\ d.fetches = Counted(c)
      /\ d.redirects = [u \in DOMAIN c.redirects \cup {t} |-> IF u = t THEN o ELSE c.redirects[u]]
  BY <1>1, <1>3 DEF Redirected, Unknown, Unfinished
<1>5. /\ m \in Nat /\ m \in 0..N /\ c.queue = <<t>> /\ Front(c.queue) = <<>>
      /\ Canon(w, t) = A[m] /\ c.held \in {None, t}
      /\ c.fetches <= m + IF c.held = None THEN 0 ELSE 1
      /\ \A k \in 1..m : c.objects[k] = A[k - 1]
  <2>1. NextIs(w, N, A, c, t, m)
    BY <1>1, <1>2, <1>4, NextOfThread
  <2> QED
    BY <2>1 DEF NextIs
<1>6. c.held = None /\ o = w.canon[t]
  BY <1>1, <1>3, <1>4, <1>5 DEF Got
<1>7. o = A[m] /\ o \in Id /\ o # None /\ Canon(w, o) = o
  BY <1>4, <1>5, <1>6, CanonTwice, ImportAssumption
<1>8. d.queue = <<o>> /\ Len(d.queue) = 1 /\ d.queue[1] = o
  BY <1>4, <1>5
<1>9. d.fetches <= m + 1
  <2>1. d.fetches = c.fetches + 1 /\ c.fetches <= m /\ c.fetches \in Nat
    BY <1>4, <1>5, <1>6, CallType DEF Counted
  <2> QED
    BY <1>5, <2>1
<1>10. FetchThread(w, S, L, A, d)
  BY <1>2, <1>4, <1>5, <1>7, <1>8, <1>9 DEF FetchThread
<1>11. DOMAIN d.redirects = DOMAIN c.redirects \cup {t} /\ d.redirects[t] = o
       /\ \A z \in DOMAIN c.redirects : z # t => d.redirects[z] = c.redirects[z]
  BY <1>4
<1>12. \A z \in DOMAIN d.redirects : d.redirects[z] = w.canon[z]
  BY <1>6, <1>11 DEF ThreadInv
<1>13. ASSUME NEW u \in ToSet(d.objects) PROVE Sought(w, d, w.parent[u])
  <2>1. Sought(w, c, w.parent[u])
    BY <1>4, <1>13 DEF ThreadInv
  <2>2. CASE c.queue = <<w.parent[u]>>
    <3>1. w.parent[u] = t
      BY <1>5, <2>2
    <3> QED
      BY <1>11, <3>1 DEF Sought
  <2> QED
    BY <1>11, <2>1, <2>2 DEF Sought
<1> QED
  BY <1>4, <1>10, <1>12, <1>13 DEF ThreadInv

LEMMA AppendSet ==
    ASSUME NEW T, NEW q \in Seq(T), NEW t \in T
    PROVE  /\ Len(Append(q, t)) = Len(q) + 1 /\ Append(q, t)[Len(q) + 1] = t
           /\ \A k \in 1..Len(q) : Append(q, t)[k] = q[k]
           /\ ToSet(Append(q, t)) = ToSet(q) \cup {t}
<1>1. PICK r : r = Append(q, t)
  OBVIOUS
<1>2. /\ r \in Seq(T) /\ Len(r) = Len(q) + 1 /\ r[Len(q) + 1] = t /\ r # <<>>
      /\ Len(q) \in Nat /\ \A k \in 1..Len(q) : r[k] = q[k]
  BY <1>1
<1>3. \A x : x \in ToSet(r) <=> \E k \in 1..(Len(q) + 1) : r[k] = x
  <2>1. \A x : x \in ToSet(r) <=> \E k \in 1..Len(r) : r[k] = x
    BY <1>2, SetOfSeq
  <2> QED
    BY <1>2, <2>1
<1>4. \A x : x \in ToSet(q) <=> \E k \in 1..Len(q) : q[k] = x
  BY SetOfSeq
<1>5. ToSet(r) = ToSet(q) \cup {t}
  BY <1>2, <1>3, <1>4
<1> QED
  BY <1>1, <1>2, <1>5

LEMMA CollectedThreadInv ==
    ASSUME NEW w \in World, NEW S \in SUBSET Url, NEW L \in SUBSET LocalId,
           NEW N, NEW A, NEW c \in Call, NEW d \in Call,
           PlainChain(w, L, c.start, N, A), FetchInv(w, S, c), ThreadInv(w, S, L, N, A, c),
           Collected(w, S, c, d)
    PROVE  ThreadInv(w, S, L, N, A, d)
<1>1. PICK t : t = Last(c.queue)
  OBVIOUS
<1>2. PICK m : m = Len(c.objects)
  OBVIOUS
<1>3. PICK p : p = w.parent[t]
  OBVIOUS
<1>4. /\ Unknown(S, c) /\ Unfinished(c) /\ Got(w, c) = t /\ d.pc = c.pc /\ c.pc = "fetching"
      /\ d.queue = Upcoming(Front(c.queue), p, w.links[t]) /\ d.held = None
      /\ d.objects = Append(c.objects, t) /\ d.fetches = Counted(c)
      /\ d.redirects = c.redirects /\ t \in Url /\ t \notin S
  BY <1>1, <1>3 DEF Collected, Unknown, Unfinished
<1>5. w.canon[t] = t /\ Canon(w, t) = t
  BY <1>1, <1>4, GotFinal, ImportAssumption DEF Canon
<1>6. /\ m \in Nat /\ m \in 0..N /\ c.queue = <<t>> /\ Front(c.queue) = <<>>
      /\ A[m] = t /\ m < N
      /\ c.fetches <= m + IF c.held = None THEN 0 ELSE 1
      /\ \A k \in 1..m : c.objects[k] = A[k - 1]
  <2>1. NextIs(w, N, A, c, t, m)
    BY <1>1, <1>2, <1>4, NextOfThread
  <2> QED
    BY <1>4, <1>5, <2>1 DEF NextIs
<1>7. N \in Nat /\ m + 1 \in 1..N /\ (m + 1) - 1 = m /\ m + 1 >= 1
  BY <1>6 DEF PlainChain, Chain
<1>8. w.links[t] = <<>> /\ A[m + 1] = Canon(w, p)
  <2>1. w.links[t] = <<>>
    BY <1>4, <1>6 DEF PlainChain
  <2>2. A[m + 1] = Above(w, t)
    BY <1>6, <1>7 DEF PlainChain, Chain
  <2> QED
    BY <1>3, <1>4, <2>1, <2>2 DEF Above
<1>9. p \in Id \cup {None} /\ d.queue = IF p = None THEN <<>> ELSE <<p>>
  <2>1. p \in Id \cup {None}
    BY <1>3, <1>4, WorldType
  <2>2. Reverse(<<>>) = <<>>
    BY DEF Reverse
  <2>3. d.queue = <<>> \o <<>> \o (IF p = None THEN <<>> ELSE <<p>>)
    BY <1>4, <1>6, <1>8, <2>2 DEF Upcoming
  <2>4. <<>> \o <<>> = <<>> /\ <<>> \in Seq(Id)
    OBVIOUS
  <2>5. (IF p = None THEN <<>> ELSE <<p>>) \in Seq(Id)
    BY <2>1
  <2> QED
    BY <2>1, <2>3, <2>4, <2>5, ConcatEmptySeq
<1>10. c.objects \in Seq(Url)
  BY CallType
<1>11. /\ Len(d.objects) = m + 1 /\ d.objects[m + 1] = t /\ ToSet(d.objects) = ToSet(c.objects) \cup {t}
       /\ \A k \in 1..m : d.objects[k] = c.objects[k]
  <2>1. PICK q : q = c.objects
    OBVIOUS
  <2>2. PICK s : s = d.objects
    OBVIOUS
  <2>3. q \in Seq(Url) /\ t \in Url /\ s = Append(q, t) /\ m = Len(q)
    BY <1>2, <1>4, <1>10, <2>1, <2>2
  <2>4. /\ Len(Append(q, t)) = Len(q) + 1 /\ Append(q, t)[Len(q) + 1] = t
        /\ \A k \in 1..Len(q) : Append(q, t)[k] = q[k]
        /\ ToSet(Append(q, t)) = ToSet(q) \cup {t}
    BY <2>3, AppendSet
  <2> QED
    BY <2>1, <2>2, <2>3, <2>4
<1>12. d.fetches <= m + 1
  <2>1. c.fetches \in Nat
    BY CallType
  <2>2. CASE c.held = None
    BY <1>4, <1>6, <2>1, <2>2 DEF Counted
  <2>3. CASE c.held # None
    BY <1>4, <1>6, <2>1, <2>3 DEF Counted
  <2> QED
    BY <2>2, <2>3
<1>13. \A k \in 1..(m + 1) : d.objects[k] = A[k - 1]
  <2>1. TAKE k \in 1..(m + 1)
  <2>2. k = m + 1 \/ k \in 1..m
    BY <1>6
  <2> QED
    BY <1>6, <1>7, <1>11, <2>2
<1>14. FetchThread(w, S, L, A, d)
  <2>1. CASE p = None
    <3>1. A[m + 1] = None
      BY <1>8, <2>1, ImportAssumption DEF Canon, Id
    <3> QED
      BY <1>4, <1>7, <1>9, <1>11, <1>12, <1>13, <2>1, <3>1 DEF FetchThread
  <2>2. CASE p # None
    <3>1. Len(d.queue) = 1 /\ d.queue[1] = p
      BY <1>9, <2>2
    <3> QED
      BY <1>4, <1>7, <1>8, <1>11, <1>12, <1>13, <3>1 DEF FetchThread
  <2> QED
    BY <2>1, <2>2
<1>15. ASSUME NEW u \in ToSet(d.objects) PROVE Sought(w, d, w.parent[u])
  <2>1. CASE u = t
    <3>1. p = None => Canon(w, p) = p
      BY ImportAssumption DEF Canon, Id
    <3> QED
      BY <1>3, <1>4, <1>9, <2>1, <3>1 DEF Sought
  <2>2. CASE u \in ToSet(c.objects)
    <3>1. Sought(w, c, w.parent[u])
      BY <2>2 DEF ThreadInv
    <3>2. CASE c.queue = <<w.parent[u]>>
      <4>1. w.parent[u] = t
        BY <1>6, <3>2
      <4> QED
        BY <1>5, <4>1 DEF Sought
    <3> QED
      BY <1>4, <3>1, <3>2 DEF Sought
  <2> QED
    BY <1>11, <2>1, <2>2
<1>16. \A u \in ToSet(d.objects) : u \notin S
  BY <1>4, <1>11 DEF ThreadInv
<1> QED
  BY <1>4, <1>7, <1>11, <1>14, <1>15, <1>16 DEF ThreadInv

LEMMA ReversedThreadInv ==
    ASSUME NEW w \in World, NEW S \in SUBSET Url, NEW L \in SUBSET LocalId,
           NEW N, NEW A, NEW c \in Call, NEW d \in Call,
           PlainChain(w, L, c.start, N, A), ThreadInv(w, S, L, N, A, c),
           Reversed(c, d)
    PROVE  ThreadInv(w, S, L, N, A, d)
<1>1. PICK m : m = Len(c.objects)
  OBVIOUS
<1>2. /\ c.pc = "fetching" /\ c.queue = <<>> /\ d.pc = "storing"
      /\ d.objects = Reverse(c.objects) /\ d.redirects = c.redirects
  BY DEF Reversed
<1>3. c.objects \in Seq(Url) /\ m \in Nat
  BY <1>1, CallType
<1>4. ToSet(d.objects) = ToSet(c.objects) /\ Len(d.objects) = m
      /\ \A k \in 1..m : d.objects[k] = c.objects[m - k + 1]
  <2>1. PICK q : q = c.objects
    OBVIOUS
  <2>2. q \in Seq(Url) /\ m = Len(q) /\ d.objects = Reverse(q)
    BY <1>1, <1>2, <1>3, <2>1
  <2>3. Len(Reverse(q)) = Len(q) /\ \A k \in 1..Len(q) : Reverse(q)[k] = q[Len(q) - k + 1]
    BY <2>2, ReverseOf
  <2>4. ToSet(Reverse(q)) = ToSet(q)
    BY <2>2, ReverseSet
  <2> QED
    BY <2>1, <2>2, <2>3, <2>4
<1>5. FetchThread(w, S, L, A, c)
  BY <1>2 DEF ThreadInv
<1>6. A[m] \in S \cup L \cup {None}
  BY <1>1, <1>2, <1>5 DEF FetchThread
<1>7. \A k \in 1..m : d.objects[k] = A[m - k]
  <2>1. TAKE k \in 1..m
  <2>2. m - k + 1 \in 1..m /\ (m - k + 1) - 1 = m - k
    BY <1>3
  <2> QED
    BY <1>1, <1>4, <1>5, <2>2 DEF FetchThread
<1>8. StoreThread(S, L, A, d)
  BY <1>4, <1>6, <1>7 DEF StoreThread
<1>9. \A u \in ToSet(d.objects) : Sought(w, d, w.parent[u])
  BY <1>2, <1>4 DEF ThreadInv, Sought
<1> QED
  BY <1>1, <1>2, <1>4, <1>8, <1>9 DEF ThreadInv

LEMMA IterationThreadInv ==
    ASSUME NEW w \in World, NEW S \in SUBSET Url, NEW L \in SUBSET LocalId,
           \A u \in S : w.canon[u] = u,
           NEW N, NEW A, NEW c \in Call, NEW d \in Call,
           PlainChain(w, L, c.start, N, A), CallInv(w, S, c), ThreadInv(w, S, L, N, A, c),
           Iteration(w, S, L, c, d)
    PROVE  ThreadInv(w, S, L, N, A, d)
<1>1. CASE Skipped(S, L, c, d)
  BY <1>1, SkippedThreadInv DEF CallInv, Skipped, Unfinished
<1>2. CASE Redirected(w, S, c, d)
  BY <1>2, RedirectedThreadInv DEF CallInv, Redirected, Unknown, Unfinished
<1>3. CASE Collected(w, S, c, d)
  BY <1>3, CollectedThreadInv DEF CallInv, Collected, Unknown, Unfinished
<1>4. CASE Reversed(c, d)
  BY <1>4, ReversedThreadInv
<1> QED
  BY <1>1, <1>2, <1>3, <1>4 DEF Iteration

StoresNext(w, S, L, N, A, c, m, u, p) ==
    /\ m \in 1..N /\ m - 1 \in 0..N /\ u \in Url /\ u \in ToSet(c.objects) /\ u \notin S
    /\ u = A[m - 1] /\ w.links[u] = <<>>
    /\ (IF p \in DOMAIN c.redirects THEN c.redirects[p] ELSE p) \in S \cup L \cup {None}

\* The storing of the next object of such a thread cannot fail ...
LEMMA StoringThread ==
    ASSUME NEW w \in World, NEW S \in SUBSET Url, NEW L \in SUBSET LocalId,
           NEW N, NEW A, NEW c \in Call,
           PlainChain(w, L, c.start, N, A), ThreadInv(w, S, L, N, A, c),
           c.pc = "storing", c.objects # <<>>,
           NEW m, m = Len(c.objects), NEW u, u = Head(c.objects), NEW p, p = w.parent[u]
    PROVE  StoresNext(w, S, L, N, A, c, m, u, p)
<1>1. c.objects \in Seq(Url) /\ N \in Nat
  BY CallType DEF PlainChain, Chain
<1>2. m \in Nat /\ m # 0 /\ u = c.objects[1] /\ u \in Url
  BY <1>1
<1>3. m \in 1..N /\ m - 1 \in 0..N /\ 1 \in 1..m
  BY <1>1, <1>2 DEF ThreadInv
<1>4. u \in ToSet(c.objects)
  BY <1>1, <1>2, <1>3, SetOfSeq
<1>5. StoreThread(S, L, A, c)
  BY DEF ThreadInv
<1>6. u = A[m - 1] /\ A[m] \in S \cup L \cup {None}
  BY <1>2, <1>3, <1>5 DEF StoreThread
<1>7. w.links[u] = <<>>
  BY <1>2, <1>3, <1>6 DEF PlainChain
<1>8. A[m] = Canon(w, p)
  BY <1>2, <1>3, <1>6 DEF PlainChain, Chain, Above
<1>9. (IF p \in DOMAIN c.redirects THEN c.redirects[p] ELSE p) = Canon(w, p)
  <2>1. CASE p \in DOMAIN c.redirects
    <3>1. c.redirects[p] = w.canon[p] /\ p \in Url
      BY <2>1, CallType DEF ThreadInv
    <3> QED
      BY <2>1, <3>1 DEF Canon
  <2>2. CASE p \notin DOMAIN c.redirects
    BY <1>4, <2>2 DEF ThreadInv, Sought
  <2> QED
    BY <2>1, <2>2
<1> QED
  BY <1>2, <1>3, <1>4, <1>6, <1>7, <1>8, <1>9 DEF ThreadInv, StoresNext

\* ... and leaves the rest of it to be stored.
LEMMA StoringThreadInv ==
    ASSUME NEW w \in World, NEW S \in SUBSET Url, NEW L \in SUBSET LocalId,
           NEW N, NEW A, NEW c \in Call, NEW d \in Call,
           PlainChain(w, L, c.start, N, A), ThreadInv(w, S, L, N, A, c),
           c.pc = "storing", c.objects # <<>>,
           d.pc = c.pc, d.objects = Tail(c.objects), d.redirects = c.redirects
    PROVE  ThreadInv(w, S \cup {Head(c.objects)}, L, N, A, d)
<1>1. PICK m : m = Len(c.objects)
  OBVIOUS
<1>2. PICK u : u = Head(c.objects)
  OBVIOUS
<1>3. m \in 1..N /\ m - 1 \in 0..N /\ u = A[m - 1] /\ u \in Url
  <2>1. PICK p : p = w.parent[u]
    OBVIOUS
  <2>2. StoresNext(w, S, L, N, A, c, m, u, p)
    BY <1>1, <1>2, <2>1, StoringThread
  <2> QED
    BY <2>2 DEF StoresNext
<1>4. c.objects \in Seq(Url) /\ N \in Nat
  BY CallType DEF PlainChain, Chain
<1>5. /\ d.objects \in Seq(Url) /\ Len(d.objects) = m - 1
      /\ \A k \in 1..(m - 1) : d.objects[k] = c.objects[k + 1]
      /\ ToSet(d.objects) \subseteq ToSet(c.objects)
  BY <1>1, <1>4, TailOf
<1>6. StoreThread(S, L, A, c)
  BY DEF ThreadInv
<1>7. \A k \in 1..(m - 1) : d.objects[k] = A[(m - 1) - k]
  <2>1. TAKE k \in 1..(m - 1)
  <2>2. k + 1 \in 1..m /\ m - (k + 1) = (m - 1) - k
    BY <1>3
  <2> QED
    BY <1>1, <1>5, <1>6, <2>2 DEF StoreThread
<1>8. StoreThread(S \cup {u}, L, A, d)
  BY <1>3, <1>5, <1>7 DEF StoreThread
<1>9. \A x \in ToSet(d.objects) : x \notin S \cup {u}
  <2> SUFFICES ASSUME NEW x \in ToSet(d.objects), x = u PROVE FALSE
    BY <1>5 DEF ThreadInv
  <2>1. PICK k \in 1..(m - 1) : d.objects[k] = x
    <3>1. \E k \in 1..Len(d.objects) : d.objects[k] = x
      <4>1. PICK q : q = d.objects
        OBVIOUS
      <4>2. q \in Seq(Url) /\ x \in ToSet(q)
        BY <1>5, <4>1
      <4>3. \A y : y \in ToSet(q) <=> \E k \in 1..Len(q) : q[k] = y
        BY <4>2, SetOfSeq
      <4> QED
        BY <4>1, <4>2, <4>3
    <3> QED
      BY <1>5, <3>1
  <2>2. (m - 1) - k \in 0..N /\ (m - 1) - k < m - 1
    BY <1>3, <1>4, <2>1
  <2>3. A[(m - 1) - k] = u
    BY <1>7, <2>1
  <2>4. Chain(w, N, A)
    BY DEF PlainChain
  <2> QED
    BY <1>3, <2>2, <2>3, <2>4, ChainDistinct
<1>10. \A x \in ToSet(d.objects) : Sought(w, d, w.parent[x])
  BY <1>5 DEF ThreadInv, Sought
<1>11. Len(d.objects) <= N
  BY <1>3, <1>4, <1>5
<1> QED
  BY <1>2, <1>8, <1>9, <1>10, <1>11 DEF ThreadInv

Undisturbed(w, S, L, c) ==
    ~c.disturbed /\ Plain(w, L, c.start) =>
        ThreadInv(w, S, L, Cardinality(Url), Ancestors(w, c.start), c)

ThreadsInv ==
    /\ ThreadImported
    /\ \A i \in Importer :
        importer[i] # NoCall =>
            /\ StartInv(world, Stored, importer[i])
            /\ Undisturbed(world, Stored, local, importer[i])

\* A call that ends has stored what was asked for, or was not of a plain thread.
LEMMA EndingRight ==
    ASSUME ImportTInv, ParentsInv, ThreadsInv, NEW i \in Importer,
           NEW result \in {"ok", "error", "panic"}, NEW disturbed \in BOOLEAN,
           Ending(i, result, disturbed), NEW u, u = importer[i].start
    PROVE  /\ result = "ok" => Canon(world, u) \in Stored
           /\ result \in {"error", "panic"} /\ ~disturbed => ~Plain(world, local, u)
<1>1. PICK c : c = importer[i]
  OBVIOUS
<1>2. c \in Call /\ u \in Url /\ c.start = u
  BY <1>1, CallType DEF Ending, ImportTInv, ImportTypeOK
<1>3. /\ world \in World /\ Stored \in SUBSET Url /\ local \in SUBSET LocalId
      /\ \A x \in Stored : world.canon[x] = x
  BY DEF ImportTInv, ImportTypeOK, ParentsInv
<1>4. StartInv(world, Stored, c) /\ Undisturbed(world, Stored, local, c)
  BY <1>1 DEF ThreadsInv, Ending
<1>5. ASSUME result = "ok" PROVE Canon(world, u) \in Stored
  <2>1. CASE c.pc = "storing" /\ c.objects = <<>>
    BY <1>2, <1>4, <2>1 DEF StartInv
  <2>2. CASE c.pc = "fetching" /\ c.queue # <<>> /\ Last(c.queue) \in Stored /\ c.objects = <<>>
    <3>1. Len(c.queue) = 1 /\ c.queue[1] \in {u, Canon(world, u)}
      BY <1>2, <1>4, <2>2 DEF StartInv
    <3>2. Last(c.queue) = c.queue[1]
      BY <3>1 DEF Last
    <3> QED
      BY <1>2, <1>3, <2>2, <3>1, <3>2 DEF Canon
  <2> QED
    BY <1>1, <1>5, <2>1, <2>2 DEF Ending, EndReason, Fetching, Top
<1>6. ASSUME result \in {"error", "panic"}, ~disturbed, Plain(world, local, u) PROVE FALSE
  <2>1. PICK N : N = Cardinality(Url)
    OBVIOUS
  <2>2. PICK A : A = Ancestors(world, u)
    OBVIOUS
  <2>3. EndReason(i, result) /\ ~c.disturbed
    BY <1>1, <1>6 DEF Ending
  <2>4. PlainChain(world, local, c.start, N, A) /\ ThreadInv(world, Stored, local, N, A, c)
    BY <1>2, <1>4, <1>6, <2>1, <2>2, <2>3, PlainIsChain DEF Undisturbed
  <2>5. PICK m : m = Len(c.objects)
    OBVIOUS
  <2>6. PICK t : t = Last(c.queue)
    OBVIOUS
  <2>7. CASE Unfinished(c)
    <3>1. NextIs(world, N, A, c, t, m)
      BY <1>2, <1>3, <2>4, <2>5, <2>6, <2>7, NextOfThread
    <3>2. CASE t \in LocalId \ local
      <4>1. t \notin Url /\ t # None
        BY <3>2, ImportAssumption DEF Id
      <4>2. A[m] = t /\ m \in 0..N
        BY <3>1, <4>1 DEF NextIs, Canon
      <4>3. A[m] \in Url \cup local \cup {None}
        BY <2>4, <4>2 DEF PlainChain
      <4> QED
        BY <3>2, <4>1, <4>2, <4>3
    <3>3. CASE t \in Url /\ c.held = None /\ c.fetches = DepthMax
      <4>1. m \in Nat /\ m \in 0..N /\ c.fetches <= m /\ A[m] = world.canon[t]
            /\ \A k \in 0..(m - 1) : A[k] \in Url
        BY <3>1, <3>3 DEF NextIs, Canon
      <4>2. A[m] # None
        BY <1>3, <3>3, <4>1, WorldType, ImportAssumption
      <4>3. m + 1 <= DepthMax
        BY <2>4, <4>1, <4>2 DEF PlainChain
      <4> QED
        BY <3>3, <4>1, <4>3, ImportAssumption
    <3> QED
      BY <1>1, <1>6, <2>3, <2>6, <2>7, <3>2, <3>3
      DEF EndReason, Fetching, Top, Missing, Unfinished
  <2>8. CASE c.pc = "fetching" /\ c.queue = <<>> /\ c.objects = <<>>
    <3>1. m = 0
      BY <2>5, <2>8
    <3> QED
      BY <2>4, <2>5, <2>8, <3>1 DEF ThreadInv, FetchThread
  <2>9. CASE /\ c.pc = "storing" /\ c.objects # <<>>
             /\ ~Refers(i, Head(c.objects)) \/ Head(c.objects) \in Stored
    <3>1. PICK x : x = Head(c.objects)
      OBVIOUS
    <3>2. PICK p : p = world.parent[x]
      OBVIOUS
    <3>3. /\ x \notin Stored /\ world.links[x] = <<>>
          /\ (IF p \in DOMAIN c.redirects THEN c.redirects[p] ELSE p) \in Stored \cup local \cup {None}
      <4>1. StoresNext(world, Stored, local, N, A, c, m, x, p)
        BY <1>2, <1>3, <2>4, <2>5, <2>9, <3>1, <3>2, StoringThread
      <4> QED
        BY <4>1 DEF StoresNext
    <3>4. ToSet(world.links[x]) = {}
      BY <3>3 DEF ToSet
    <3>5. Row(i, x).links = {} /\ Row(i, x).parent \in Stored \cup local \cup {None}
      BY <1>1, <3>2, <3>3, <3>4 DEF Row, Resolved
    <3>6. Refers(i, x)
      BY <3>5 DEF Refers
    <3> QED
      BY <2>9, <3>1, <3>3, <3>6
  <2> QED
    BY <1>1, <1>6, <2>3, <2>7, <2>8, <2>9 DEF EndReason, Fetching, Missing, Unfinished
<1> QED
  BY <1>5, <1>6

LEMMA ImportInitThreadsInv == ImportInit => ThreadsInv
BY DEF ImportInit, ThreadsInv, ThreadImported, NoResult

LEMMA StoreNextThreadsInv ==
    ASSUME ImportTInv, ThreadsInv, NEW i \in Importer, StoreNext(i)
    PROVE  ThreadsInv'
<1>1. PICK u : u = Head(importer[i].objects)
  OBVIOUS
<1>2. PICK c : c = importer[i]
  OBVIOUS
<1>3. PICK d : d = importer'[i]
  OBVIOUS
<1>4. /\ c \in Call /\ u \in Url /\ Stored' = Stored \cup {u}
      /\ d = [c EXCEPT !.objects = Tail(@)] /\ d \in Call
      /\ \A k \in Importer : k # i => importer'[k] = OtherCall(importer[k])
      /\ UNCHANGED <<world, local, outcome>>
      /\ c.pc = "storing" /\ c.objects # <<>>
  BY <1>1, <1>2, <1>3, StoredRow DEF Stored, StoreNext
<1>5. /\ world \in World /\ Stored \in SUBSET Url /\ local \in SUBSET LocalId
  BY DEF ImportTInv, ImportTypeOK
<1>6. ThreadImported'
  BY <1>4 DEF ThreadsInv, ThreadImported
<1>7. /\ d.pc = c.pc /\ d.start = c.start /\ d.objects = Tail(c.objects)
      /\ d.redirects = c.redirects /\ d.disturbed = c.disturbed
  BY <1>4 DEF Call
<1>8. c # NoCall /\ StartInv(world, Stored, c) /\ Undisturbed(world, Stored, local, c)
  BY <1>2, <1>4, CallType DEF ThreadsInv
<1>9. StartInv(world, Stored', d)
  BY <1>1, <1>2, <1>4, <1>7, <1>8, StoringStartInv
<1>10. Undisturbed(world, Stored', local, d)
  <2> SUFFICES ASSUME ~c.disturbed, Plain(world, local, c.start)
               PROVE  ThreadInv(world, Stored', local, Cardinality(Url), Ancestors(world, c.start), d)
    BY <1>7 DEF Undisturbed
  <2>1. PlainChain(world, local, c.start, Cardinality(Url), Ancestors(world, c.start))
    BY PlainIsChain
  <2>2. ThreadInv(world, Stored, local, Cardinality(Url), Ancestors(world, c.start), c)
    BY <1>8 DEF Undisturbed
  <2>3. Stored' = Stored \cup {Head(c.objects)}
    BY <1>1, <1>2, <1>4
  <2> QED
    <3>1. ThreadInv(world, Stored \cup {Head(c.objects)}, local, Cardinality(Url),
                    Ancestors(world, c.start), d)
      BY <1>4, <1>5, <1>7, <2>1, <2>2, StoringThreadInv
    <3> QED
      BY <2>3, <3>1
<1>11. ASSUME NEW k \in Importer, k # i, importer'[k] # NoCall
       PROVE  StartInv(world, Stored', importer'[k]) /\ Undisturbed(world, Stored', local, importer'[k])
  <2>1. PICK e : e = importer[k]
    OBVIOUS
  <2>2. importer'[k] = OtherCall(e) /\ e # NoCall /\ e \in Call
    BY <1>4, <1>11, <2>1 DEF OtherCall, ImportTInv, ImportTypeOK
  <2>3. PICK g : g = importer'[k]
    OBVIOUS
  <2>4. /\ g.pc = e.pc /\ g.start = e.start /\ g.queue = e.queue /\ g.held = e.held
        /\ g.objects = e.objects /\ g.disturbed = TRUE
    BY <2>2, <2>3 DEF OtherCall, Call
  <2>5. StartInv(world, Stored, e)
    BY <2>1, <2>2 DEF ThreadsInv
  <2>6. StartInv(world, Stored', g)
    BY <1>4, <2>4, <2>5 DEF StartInv
  <2> QED
    BY <2>3, <2>4, <2>6 DEF Undisturbed
<1> QED
  BY <1>3, <1>4, <1>6, <1>9, <1>10, <1>11 DEF ThreadsInv

LEMMA ImportNextThreadsInv ==
    ImportTInv /\ ParentsInv /\ ThreadsInv /\ [ImportNext]_importVars => ThreadsInv'
<1> SUFFICES ASSUME ImportTInv, ParentsInv, ThreadsInv, [ImportNext]_importVars PROVE ThreadsInv'
  OBVIOUS
<1>1. ASSUME UNCHANGED <<world, local, posts>>,
             \A k \in Importer : importer'[k] # NoCall =>
                 /\ StartInv(world, Stored, importer'[k])
                 /\ Undisturbed(world, Stored, local, importer'[k]),
             ThreadImported'
      PROVE  ThreadsInv'
  <2>1. Stored' = Stored
    BY <1>1 DEF Stored
  <2> QED
    BY <1>1, <2>1 DEF ThreadsInv
<1>2. ASSUME UNCHANGED <<world, local, posts, outcome>> PROVE ThreadImported'
  <2>1. Stored' = Stored
    BY <1>2 DEF Stored
  <2> QED
    BY <1>2, <2>1 DEF ThreadsInv, ThreadImported
<1>3. CASE UNCHANGED importVars
  BY <1>1, <1>2, <1>3 DEF importVars, ThreadsInv
<1>4. ASSUME NEW i \in Importer, ImportStep(i) PROVE ThreadsInv'
  <2>1. /\ world \in World /\ Stored \in SUBSET Url /\ local \in SUBSET LocalId
        /\ importer \in [Importer -> {NoCall} \cup Call]
        /\ outcome \in [Importer -> CallResult]
        /\ \A u \in Stored : world.canon[u] = u
    BY DEF ImportTInv, ImportTypeOK, ParentsInv
  <2>2. ASSUME NEW u \in Url, NEW received \in BOOLEAN, Start(i, u, received)
        PROVE  ThreadsInv'
    <3>1. PICK c : c = StartedCall(u, received)
      OBVIOUS
    <3>2. /\ importer' = [importer EXCEPT ![i] = c] /\ UNCHANGED <<world, local, posts>>
          /\ outcome' = [outcome EXCEPT ![i] = NoResult]
      BY <2>2, <3>1 DEF Start, StartedCall
    <3>3. StartInv(world, Stored, c)
      BY <3>1, StartedStartInv
    <3>4. Undisturbed(world, Stored, local, c)
      <4>1. c.start = u
        BY <3>1 DEF StartedCall
      <4> SUFFICES ASSUME Plain(world, local, u)
                   PROVE  ThreadInv(world, Stored, local, Cardinality(Url), Ancestors(world, u), c)
        BY <4>1 DEF Undisturbed
      <4> QED
        BY <3>1, PlainIsChain, StartedThreadInv
    <3>5. ThreadImported'
      <4>1. Stored' = Stored
        BY <3>2 DEF Stored
      <4>2. NoResult.result = "none"
        BY DEF NoResult
      <4> QED
        BY <2>1, <3>2, <4>1, <4>2 DEF ThreadsInv, ThreadImported
    <3> QED
      BY <1>1, <2>1, <3>2, <3>3, <3>4, <3>5 DEF ThreadsInv
  <2>3. CASE Iterates(i)
    <3>1. PICK c : c = importer[i]
      OBVIOUS
    <3>2. PICK d : d = importer'[i]
      OBVIOUS
    <3>3. /\ c \in Call /\ d \in Call /\ Iteration(world, Stored, local, c, d)
          /\ \A k \in Importer : k # i => importer'[k] = importer[k]
          /\ UNCHANGED <<world, local, posts, outcome>>
          /\ d.start = c.start /\ d.disturbed = c.disturbed
      BY <2>3, <3>1, <3>2 DEF Iterates, OwnStep, Iteration, SameCall
    <3>4. CallInv(world, Stored, c) /\ StartInv(world, Stored, c)
          /\ Undisturbed(world, Stored, local, c)
      BY <3>1, <3>3, CallType DEF ParentsInv, ThreadsInv
    <3>5. StartInv(world, Stored, d)
      BY <2>1, <3>3, <3>4, IterationStartInv
    <3>6. Undisturbed(world, Stored, local, d)
      <4> SUFFICES ASSUME ~c.disturbed, Plain(world, local, c.start)
                   PROVE  ThreadInv(world, Stored, local, Cardinality(Url),
                                    Ancestors(world, c.start), d)
        BY <3>3 DEF Undisturbed
      <4>1. PlainChain(world, local, c.start, Cardinality(Url), Ancestors(world, c.start))
        BY PlainIsChain
      <4>2. ThreadInv(world, Stored, local, Cardinality(Url), Ancestors(world, c.start), c)
        BY <3>4 DEF Undisturbed
      <4> QED
        BY <2>1, <3>3, <3>4, <4>1, <4>2, IterationThreadInv
    <3> QED
      BY <1>1, <1>2, <3>2, <3>3, <3>5, <3>6 DEF ThreadsInv
  <2>4. CASE StoreNext(i)
    BY <2>4, StoreNextThreadsInv
  <2>5. ASSUME NEW result \in {"ok", "error", "panic"}, NEW disturbed \in BOOLEAN,
               Ending(i, result, disturbed), End(i, result, disturbed)
        PROVE  ThreadsInv'
    <3>1. PICK u : u = importer[i].start
      OBVIOUS
    <3>2. /\ importer' = [importer EXCEPT ![i] = NoCall] /\ UNCHANGED <<world, local, posts>>
          /\ outcome' = [outcome EXCEPT ![i] =
                [result |-> result, start |-> u, disturbed |-> disturbed]]
      BY <2>5, <3>1 DEF End
    <3>3. /\ result = "ok" => Canon(world, u) \in Stored
          /\ result \in {"error", "panic"} /\ ~disturbed => ~Plain(world, local, u)
      BY <2>5, <3>1, EndingRight
    <3>4. Stored' = Stored
      BY <3>2 DEF Stored
    <3>5. ThreadImported'
      <4> SUFFICES ASSUME NEW k \in Importer, NEW o, o = outcome'[k]
                   PROVE  /\ o.result = "ok" => Canon(world, o.start) \in Stored
                          /\ o.result \in {"error", "panic"} /\ ~o.disturbed =>
                                ~Plain(world, local, o.start)
        BY <3>2, <3>4 DEF ThreadImported
      <4>1. CASE k = i
        <5>1. o = [result |-> result, start |-> u, disturbed |-> disturbed]
          BY <2>1, <3>2, <4>1
        <5>2. o.result = result /\ o.start = u /\ o.disturbed = disturbed
          BY <5>1
        <5> QED
          BY <3>3, <5>2
      <4>2. CASE k # i
        <5>1. o = outcome[k]
          BY <2>1, <3>2, <4>2
        <5> QED
          BY <5>1 DEF ThreadsInv, ThreadImported
      <4> QED
        BY <4>1, <4>2
    <3> QED
      BY <1>1, <2>1, <3>2, <3>5 DEF ThreadsInv
  <2> QED
    BY <1>4, <2>2, <2>3, <2>4, <2>5, KindsOfImportStep
<1> QED
  BY <1>3, <1>4 DEF ImportNext

\* A call that nothing disturbs imports a plain thread, of any length within the
\* limit, however much of it is stored and under whichever URLs its replies name
\* their parents; a call that succeeds leaves the requested post stored
\* (import_post, handle_note).
THEOREM ImportThreadImported == ImportSpec => []ThreadImported
<1>1. ThreadsInv => ThreadImported
  BY DEF ThreadsInv
<1> QED
  BY <1>1, ImportInitTInv, ImportNextTInv, ImportInitParentsInv, ImportNextParentsInv,
     ImportInitThreadsInv, ImportNextThreadsInv, PTL
  DEF ImportSpec
=============================================================================
