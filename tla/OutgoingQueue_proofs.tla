------------------------ MODULE OutgoingQueue_proofs ------------------------
(***************************************************************************)
(* The outgoing queue forgets no recipient, repeats an acknowledged        *)
(* delivery only after an abort, and calls an actor unreachable only when  *)
(* the retries are used up: proofs for any set of activities, recipients   *)
(* and rows, and any limit of retries.                                     *)
(***************************************************************************)
EXTENDS OutgoingQueue, FiniteSetTheorems, TLAPS

-----------------------------------------------------------------------------
(* What the statements on the background_job table do to its rows *)

\* Ids and payloads of two tables agree.
SameData(t, u) == DOMAIN u = DOMAIN t /\ \A id \in DOMAIN t : u[id].data = t[id].data

\* INSERT adds one row under an id that was free ...
LEMMA EnqueueJobAdds ==
    ASSUME NEW Data, NEW t, IsTable(t, Data), NEW data \in Data, HasFreshId(t)
    PROVE  /\ IsTable(EnqueueJob(t, data), Data)
           /\ FreshId(t) \in JobId \ DOMAIN t
           /\ DOMAIN EnqueueJob(t, data) = DOMAIN t \cup {FreshId(t)}
<1> DEFINE n == FreshId(t)
           r == [status |-> "Queued", stalled |-> FALSE, due |-> 0, data |-> data]
           u == EnqueueJob(t, data)
<1>1. n \in JobId \ DOMAIN t
  BY DEF FreshId, HasFreshId
<1>2. u = [id \in DOMAIN t \cup {n} |-> IF id \in DOMAIN t THEN t[id] ELSE r]
  BY DEF EnqueueJob
<1>3. r \in JobRow(Data)
  BY DEF JobRow
<1> HIDE DEF n, r, u
<1>4. /\ DOMAIN u = DOMAIN t \cup {n}
      /\ \A id \in DOMAIN t : u[id] = t[id]
      /\ u[n] = r
  BY <1>1, <1>2
<1>5. IsTable(u, Data)
  BY <1>1, <1>2, <1>3, <1>4 DEF IsTable
<1> QED
  BY <1>1, <1>4, <1>5 DEF n, u

\* ... with the given payload ...
LEMMA EnqueueJobPayload ==
    ASSUME NEW t, NEW data, HasFreshId(t)
    PROVE  EnqueueJob(t, data)[FreshId(t)].data = data
<1>1. FreshId(t) \notin DOMAIN t
  BY DEF FreshId, HasFreshId
<1> QED
  BY <1>1 DEF EnqueueJob

\* ... and leaves the others alone.
LEMMA EnqueueJobKeeps ==
    ASSUME NEW t, NEW data, NEW id \in DOMAIN t
    PROVE  EnqueueJob(t, data)[id] = t[id]
BY DEF EnqueueJob

\* A batch consists of rows of the table.
LEMMA BatchOfRows ==
    ASSUME NEW t, NEW size
    PROVE  BatchOf(t, size) \subseteq DOMAIN t
BY DEF BatchOf, Eligible

\* The UPDATE of a batch keeps ids and payloads.
LEMMA GetJobBatchKeeps ==
    ASSUME NEW Data, NEW t, IsTable(t, Data), NEW ids
    PROVE  IsTable(GetJobBatch(t, ids), Data) /\ SameData(t, GetJobBatch(t, ids))
<1> DEFINE u == GetJobBatch(t, ids)
<1>1. DOMAIN u = DOMAIN t
  BY DEF GetJobBatch
<1>2. ASSUME NEW id \in DOMAIN t
      PROVE  u[id] \in JobRow(Data) /\ u[id].data = t[id].data
  <2>1. t[id] \in JobRow(Data)
    BY DEF IsTable
  <2> QED
    BY <2>1 DEF GetJobBatch, JobRow
<1> QED
  BY <1>1, <1>2 DEF IsTable, SameData, GetJobBatch

\* DELETE keeps the payloads of the other rows ...
LEMMA DeleteJobKeeps ==
    ASSUME NEW Data, NEW t, IsTable(t, Data), NEW id \in DOMAIN t,
           NEW x \in DOMAIN t \ {id}
    PROVE  /\ DeleteJobFromQueue(t, id)[x] \in JobRow(Data)
           /\ DeleteJobFromQueue(t, id)[x].data = t[x].data
<1> DEFINE r == DeleteJobFromQueue(t, id)[x]
<1>1. t[x] \in JobRow(Data) /\ t[id] \in JobRow(Data)
  BY DEF IsTable
<1>2. t[x].due \in Nat /\ t[id].due \in Nat
  BY <1>1 DEF JobRow
<1>3. CASE IsDue(t, id) /\ t[id].due < t[x].due
  <2>1. r = [t[x] EXCEPT !.due = @ - 1]
    BY <1>3 DEF DeleteJobFromQueue
  <2>2. t[x].due - 1 \in Nat
    BY <1>2, <1>3 DEF IsDue
  <2> QED
    BY <1>1, <2>1, <2>2 DEF JobRow
<1>4. CASE ~(IsDue(t, id) /\ t[id].due < t[x].due)
  BY <1>1, <1>4 DEF DeleteJobFromQueue
<1> QED
  BY <1>3, <1>4

\* ... and takes the row away.
LEMMA DeleteJobRemoves ==
    ASSUME NEW Data, NEW t, IsTable(t, Data), NEW id \in DOMAIN t
    PROVE  /\ IsTable(DeleteJobFromQueue(t, id), Data)
           /\ DOMAIN DeleteJobFromQueue(t, id) = DOMAIN t \ {id}
<1> DEFINE u == DeleteJobFromQueue(t, id)
<1>1. DOMAIN u = DOMAIN t \ {id} /\ u = [x \in DOMAIN u |-> u[x]]
  BY DEF DeleteJobFromQueue
<1>2. \A x \in DOMAIN t \ {id} : u[x] \in JobRow(Data)
  BY DeleteJobKeeps
<1> HIDE DEF u
<1>3. IsTable(u, Data)
  BY <1>1, <1>2 DEF IsTable
<1> QED
  BY <1>1, <1>3 DEF u

\* A row that becomes due keeps its payload.
LEMMA BecomeDueKeeps ==
    ASSUME NEW Data, NEW t, IsTable(t, Data), NEW id \in DOMAIN t
    PROVE  IsTable(BecomeDue(t, id), Data) /\ SameData(t, BecomeDue(t, id))
<1> DEFINE D == {x \in DOMAIN t : IsDue(t, x)}
           u == BecomeDue(t, id)
<1>1. Cardinality(D) \in Nat
  <2>1. D \subseteq JobId
    BY DEF IsTable
  <2> QED
    BY <2>1, JobIdAssumption, FS_Subset, FS_CardinalityType
<1>2. u = [t EXCEPT ![id].due = Cardinality(D) + 1]
  BY DEF BecomeDue
<1> HIDE DEF D, u
<1>3. DOMAIN u = DOMAIN t /\ u = [x \in DOMAIN u |-> u[x]]
  BY <1>2 DEF IsTable
<1>4. ASSUME NEW x \in DOMAIN t
      PROVE  u[x] \in JobRow(Data) /\ u[x].data = t[x].data
  <2>1. t[x] \in JobRow(Data)
    BY DEF IsTable
  <2>2. CASE x = id
    BY <1>1, <1>2, <2>1, <2>2 DEF JobRow
  <2>3. CASE x # id
    BY <1>2, <2>1, <2>3
  <2> QED
    BY <2>2, <2>3
<1>5. IsTable(u, Data)
  BY <1>3, <1>4 DEF IsTable
<1> QED
  BY <1>3, <1>4, <1>5 DEF SameData, u

\* So do the rows that stall.
LEMMA AgeRunningKeeps ==
    ASSUME NEW Data, NEW t, IsTable(t, Data)
    PROVE  IsTable(AgeRunning(t), Data) /\ SameData(t, AgeRunning(t))
<1> DEFINE u == AgeRunning(t)
<1>1. DOMAIN u = DOMAIN t
  BY DEF AgeRunning
<1>2. ASSUME NEW id \in DOMAIN t
      PROVE  u[id] \in JobRow(Data) /\ u[id].data = t[id].data
  <2>1. t[id] \in JobRow(Data)
    BY DEF IsTable
  <2>2. u[id] = [t[id] EXCEPT !.stalled = (@ \/ t[id].status = "Running")]
    BY DEF AgeRunning
  <2>3. (t[id].stalled \/ t[id].status = "Running") \in BOOLEAN
    OBVIOUS
  <2> QED
    BY <2>1, <2>2, <2>3 DEF JobRow
<1> QED
  BY <1>1, <1>2 DEF IsTable, SameData, AgeRunning

-----------------------------------------------------------------------------
(* The deliverer *)

\* The local variables of the executor in each part of the delivery.
AttemptTyped ==
    /\ executor.pc = "requeue" => job.failures < RetriesMax /\ executor.todo = {}
    /\ executor.pc = "send" => executor.todo \cap executor.delivered = {}
    /\ executor.pc \in {"send", "requeue"} => job.delivered \subseteq executor.delivered
    /\ executor.pc \in {"send", "report"} => executor.todo \subseteq Recipients[activity]

\* An activity is enqueued once, also the last one of a user.
FarewellOnce ==
    /\ cli \cap enqueued = {}
    /\ \A a \in Farewell \cap (cli \cup enqueued) : Sender[a] \notin users

TInv == TypeOK /\ AttemptTyped /\ FarewellOnce

Exec(p, id, delivered, todo) ==
    [pc |-> p, job |-> id, delivered |-> delivered, todo |-> todo]

LEMMA RecipientsAreActors == \A a \in Activity : Recipients[a] \subseteq Actor
BY DEF Actor

\* The executor in the middle of a job.
LEMMA BusyExecutor ==
    ASSUME TypeOK, executor # Idle
    PROVE  /\ executor.pc \in {"load", "send", "requeue", "report", "delete"}
           /\ executor.job \in DOMAIN table
           /\ executor.job \in JobId
           /\ executor.delivered \subseteq Actor
           /\ executor.todo \subseteq Actor
           /\ executor = Exec(executor.pc, executor.job, executor.delivered, executor.todo)
           /\ job \in JobData
           /\ activity \in Activity
           /\ job.delivered \subseteq Actor
           /\ job.failures \in 0..RetriesMax
           /\ Recipients[activity] \subseteq Actor
<1>1. executor \in Busy
  BY DEF TypeOK
<1>2. executor.job \in DOMAIN table
  BY DEF TypeOK
<1>3. table[executor.job].data \in JobData
  BY <1>2 DEF TypeOK, IsTable, JobRow
<1>4. activity \in Activity
  BY <1>3 DEF job, activity, JobData
<1> QED
  BY <1>1, <1>2, <1>3, <1>4, RecipientsAreActors DEF job, JobData, Busy, Exec

LEMMA IdleExecutor == ASSUME TypeOK PROVE executor.pc = "idle" <=> executor = Idle
BY DEF TypeOK, Busy, Idle

LEMMA NewJobType == \A a \in Activity : NewJob(a) \in JobData
BY OutgoingAssumption DEF NewJob, JobData

\* What a retry is enqueued with.
LEMMA RetryDataType ==
    ASSUME TypeOK, executor # Idle
    PROVE  /\ RetryData = [activity |-> activity, delivered |-> executor.delivered,
                           failures |-> job.failures + 1]
           /\ job.failures < RetriesMax => RetryData \in JobData
<1>1. /\ job \in JobData /\ activity \in Activity /\ job.activity = activity
      /\ executor.delivered \subseteq Actor /\ job.failures \in 0..RetriesMax
  BY BusyExecutor DEF activity
<1>2. RetryData = [job EXCEPT !.failures = job.failures + 1, !.delivered = executor.delivered]
  BY DEF RetryData
<1>3. RetryData = [activity |-> job.activity, delivered |-> executor.delivered,
                   failures |-> job.failures + 1]
  BY <1>1, <1>2 DEF JobData
<1>4. job.failures < RetriesMax => job.failures + 1 \in 0..RetriesMax
  BY <1>1, OutgoingAssumption
<1> QED
  BY <1>1, <1>3, <1>4 DEF JobData

\* A row is added; the others stay as they are.
LEMMA RowAdded ==
    ASSUME TypeOK, NEW d \in JobData, HasFreshId(table), table' = EnqueueJob(table, d)
    PROVE  /\ IsTable(table', JobData)
           /\ FreshId(table) \in JobId \ DOMAIN table
           /\ DOMAIN table' = DOMAIN table \cup {FreshId(table)}
           /\ table'[FreshId(table)].data = d
           /\ \A id \in DOMAIN table : table'[id] = table[id]
BY EnqueueJobAdds, EnqueueJobPayload, EnqueueJobKeeps DEF TypeOK

\* The row of the current job is deleted; the others keep their data.
LEMMA RowDeleted ==
    ASSUME TypeOK, executor # Idle, table' = DeleteJobFromQueue(table, executor.job)
    PROVE  /\ IsTable(table', JobData)
           /\ DOMAIN table' = DOMAIN table \ {executor.job}
           /\ \A id \in DOMAIN table' : table'[id].data = table[id].data
<1>1. executor.job \in DOMAIN table /\ IsTable(table, JobData)
  BY BusyExecutor DEF TypeOK
<1>2. IsTable(table', JobData) /\ DOMAIN table' = DOMAIN table \ {executor.job}
  BY <1>1, DeleteJobRemoves
<1>3. \A id \in DOMAIN table \ {executor.job} : table'[id].data = table[id].data
  BY <1>1, DeleteJobKeeps
<1> QED
  BY <1>2, <1>3

-----------------------------------------------------------------------------
(* Kinds of steps *)

records == <<unreachable, enqueued, tries, acks, refused, aborts>>

\* Rows keep their data, and the executor is elsewhere.
Calm ==
    /\ IsTable(table', JobData) /\ SameData(table, table')
    /\ UNCHANGED <<executor, records>>

Adds(a) ==
    /\ a \notin enqueued
    /\ HasFreshId(table)
    /\ table' = EnqueueJob(table, NewJob(a))
    /\ enqueued' = enqueued \cup {a}
    /\ UNCHANGED <<executor, unreachable, tries, acks, refused, aborts>>

\* The executor goes on, without any effect elsewhere.
Goes(p, id, delivered, todo) ==
    /\ IsTable(table', JobData) /\ SameData(table, table')
    /\ executor' = Exec(p, id, delivered, todo)
    /\ UNCHANGED records

\* The executor leaves a job that is not done.
Leaves ==
    /\ executor # Idle
    /\ executor' = Idle
    /\ UNCHANGED <<table, unreachable, enqueued, tries, acks, refused>>
    /\ \/ executor.pc = "load" /\ aborts' = aborts
       \/ aborts < MaxAborts /\ aborts' = aborts + 1

Starts == executor = Idle /\ \E id \in DOMAIN table : Goes("load", id, {}, {})

Loads ==
    /\ executor.pc = "load"
    /\ Goes("send", executor.job, job.delivered, Recipients[activity] \ job.delivered)

Sends(r, ok) ==
    /\ executor.pc = "send" /\ r \in executor.todo
    /\ table' = table
    /\ executor' = Exec("send", executor.job,
                        executor.delivered \cup IF ok THEN {r} ELSE {}, executor.todo \ {r})
    /\ tries' = [tries EXCEPT ![activity][r] = @ + 1]
    /\ acks'  = [acks  EXCEPT ![activity][r] = @ + IF ok THEN 1 ELSE 0]
    /\ UNCHANGED <<unreachable, enqueued, refused, aborts>>

Decides ==
    /\ executor.pc = "send" /\ executor.todo = {}
    /\ \/ RetriesLeft /\ Goes("requeue", executor.job, executor.delivered, {})
       \/ /\ executor.delivered = Recipients[activity] \/ ~RetriesLeft
          /\ Goes("report", executor.job, executor.delivered, Recipients[activity])

Requeues ==
    /\ executor.pc = "requeue"
    /\ HasFreshId(table)
    /\ table' = EnqueueJob(table, RetryData)
    /\ executor' = Exec("delete", executor.job, executor.delivered, executor.todo)
    /\ UNCHANGED records

Reports(r) ==
    /\ executor.pc = "report" /\ r \in executor.todo
    /\ table' = table
    /\ unreachable' = SetReachability(r)
    /\ \E p \in {"report", "delete"} :
        /\ executor' = Exec(p, executor.job, executor.delivered, executor.todo \ {r})
        /\ p = "delete" => executor.todo = {r}
    /\ UNCHANGED <<enqueued, tries, acks, refused, aborts>>

Deletes ==
    /\ executor # Idle
    /\ table' = DeleteJobFromQueue(table, executor.job)
    /\ executor' = Idle
    /\ \/ executor.pc = "delete" /\ refused' = refused
       \/ executor.pc = "load" /\ refused' = refused \cup {activity}
    /\ UNCHANGED <<unreachable, enqueued, tries, acks, aborts>>

LEMMA KindsOfSteps ==
    ASSUME TypeOK, FarewellOnce, [Next]_vars
    PROVE  \/ Calm \/ Leaves \/ Starts \/ Loads \/ Decides \/ Requeues \/ Deletes
           \/ \E a \in Activity : Adds(a)
           \/ \E r \in Actor, ok \in BOOLEAN : Sends(r, ok)
           \/ \E r \in Actor : Reports(r)
<1> USE DEF history, db, records
<1>0. IsTable(table, JobData) /\ SameData(table, table)
  BY DEF TypeOK, SameData
<1>1. ASSUME NEW a \in Activity, Enqueue(a) PROVE Adds(a)
  BY <1>1 DEF Enqueue, Adds
<1>2. ASSUME NEW a \in Activity, CliDeleteProfile(a) PROVE Calm
  BY <1>2, <1>0 DEF CliDeleteProfile, Calm
<1>3. ASSUME NEW a \in Activity, CliEnqueue(a) PROVE Calm \/ Adds(a)
  BY <1>3, <1>0 DEF CliEnqueue, Calm, Adds, FarewellOnce
<1>4. ASSUME StartBatch PROVE Starts
  <2>1. PICK id \in BatchOf(table, 1) :
          /\ table' = GetJobBatch(table, {id})
          /\ executor' = [pc |-> "load", job |-> id, delivered |-> {}, todo |-> {}]
    BY <1>4 DEF StartBatch
  <2>2. id \in DOMAIN table /\ IsTable(table', JobData) /\ SameData(table, table')
    BY <1>0, <2>1, BatchOfRows, GetJobBatchKeeps
  <2> QED
    BY <1>4, <2>1, <2>2 DEF StartBatch, Starts, Goes, Exec
<1>5. CASE EmptyBatch \/ UNCHANGED vars
  BY <1>5, <1>0 DEF EmptyBatch, vars, Calm
<1>6. ASSUME LoadSender PROVE Loads
  <2>1. executor # Idle
    BY <1>6 DEF LoadSender, Idle
  <2>2. executor' = Exec("send", executor.job, job.delivered, Recipients[activity] \ job.delivered)
    BY <1>6, <2>1, BusyExecutor DEF LoadSender, Exec
  <2> QED
    BY <1>6, <1>0, <2>2 DEF LoadSender, Loads, Goes
<1>7. ASSUME SenderMissing \/ Abort PROVE Leaves
  BY <1>7 DEF SenderMissing, Abort, Leaves, Idle
<1>8. ASSUME DeliveryRefused \/ DeleteJob PROVE Deletes
  BY <1>8 DEF DeliveryRefused, DeleteJob, Deletes, Idle
<1>9. ASSUME NEW r \in Actor, NEW ok \in BOOLEAN, Send(r, ok) PROVE Sends(r, ok)
  <2>1. executor # Idle
    BY <1>9 DEF Send, Idle
  <2>2. executor' = Exec("send", executor.job,
                        executor.delivered \cup IF ok THEN {r} ELSE {}, executor.todo \ {r})
    BY <1>9, <2>1, BusyExecutor DEF Send, Exec
  <2> QED
    BY <1>9, <2>2 DEF Send, Sends
<1>10. ASSUME Decide PROVE Decides
  <2>1. /\ executor # Idle
        /\ executor.pc = "send" /\ executor.todo = {}
        /\ UNCHANGED <<db, records>>
    BY <1>10 DEF Decide, Idle
  <2>2. CASE executor.delivered # Recipients[activity] /\ RetriesLeft
    <3>1. executor' = Exec("requeue", executor.job, executor.delivered, {})
      BY <1>10, <2>1, <2>2, BusyExecutor DEF Decide, Exec
    <3> QED
      BY <1>0, <2>1, <2>2, <3>1 DEF Decides, Goes
  <2>3. CASE ~(executor.delivered # Recipients[activity] /\ RetriesLeft)
    <3>1. executor' = Exec("report", executor.job, executor.delivered, Recipients[activity])
      BY <1>10, <2>1, <2>3, BusyExecutor DEF Decide, Exec
    <3> QED
      BY <1>0, <2>1, <2>3, <3>1 DEF Decides, Goes
  <2> QED
    BY <2>2, <2>3
<1>11. ASSUME Requeue PROVE Requeues
  <2>1. executor # Idle
    BY <1>11 DEF Requeue, Idle
  <2>2. executor' = Exec("delete", executor.job, executor.delivered, executor.todo)
    BY <1>11, <2>1, BusyExecutor DEF Requeue, Exec
  <2> QED
    BY <1>11, <2>2 DEF Requeue, Requeues
<1>12. ASSUME NEW r \in Actor, Report(r) PROVE Reports(r)
  <2>1. executor # Idle
    BY <1>12 DEF Report, Idle
  <2> DEFINE p == IF executor.todo = {r} THEN "delete" ELSE "report"
  <2>2. executor' = Exec(p, executor.job, executor.delivered, executor.todo \ {r})
    BY <1>12, <2>1, BusyExecutor DEF Report, Exec
  <2>3. p \in {"report", "delete"} /\ (p = "delete" => executor.todo = {r})
    OBVIOUS
  <2> HIDE DEF p
  <2> QED
    BY <1>12, <2>2, <2>3 DEF Report, Reports
<1>13. ASSUME (\E id \in JobId : RowBecomesDue(id)) \/ JobTimeout PROVE Calm
  <2>1. IsTable(table', JobData) /\ SameData(table, table')
    BY <1>13, <1>0, BecomeDueKeeps, AgeRunningKeeps DEF RowBecomesDue, JobTimeout
  <2> QED
    BY <1>13, <2>1 DEF RowBecomesDue, JobTimeout, Calm
<1> QED
  BY <1>1, <1>2, <1>3, <1>4, <1>5, <1>6, <1>7, <1>8, <1>9, <1>10, <1>11, <1>12, <1>13
  DEF Next, Execute

-----------------------------------------------------------------------------
(* Types *)

LEMMA UsersStep ==
    ASSUME TypeOK, FarewellOnce, [Next]_vars
    PROVE  users' \subseteq User /\ cli' \subseteq Farewell /\ FarewellOnce'
<1> USE DEF history, db
<1>1. ASSUME NEW a \in Activity, Enqueue(a)
      PROVE  users' \subseteq User /\ cli' \subseteq Farewell /\ FarewellOnce'
  <2>1. /\ users' = users /\ cli' = cli /\ enqueued' = enqueued \cup {a}
        /\ a \notin Farewell
    BY <1>1 DEF Enqueue
  <2> QED
    BY <2>1 DEF TypeOK, FarewellOnce
<1>2. ASSUME NEW a \in Activity, CliDeleteProfile(a)
      PROVE  users' \subseteq User /\ cli' \subseteq Farewell /\ FarewellOnce'
  BY <1>2 DEF CliDeleteProfile, TypeOK, FarewellOnce
<1>3. ASSUME NEW a \in Activity, CliEnqueue(a)
      PROVE  users' \subseteq User /\ cli' \subseteq Farewell /\ FarewellOnce'
  <2>1. /\ users' = users /\ cli' = cli \ {a} /\ a \in cli
        /\ enqueued' \in {enqueued, enqueued \cup {a}}
    BY <1>3 DEF CliEnqueue
  <2> QED
    BY <2>1 DEF TypeOK, FarewellOnce
<1>4. ASSUME \/ Execute \/ Abort \/ JobTimeout \/ UNCHANGED vars
             \/ \E id \in JobId : RowBecomesDue(id)
      PROVE  users' \subseteq User /\ cli' \subseteq Farewell /\ FarewellOnce'
  <2>1. UNCHANGED <<users, cli, enqueued>>
    BY <1>4 DEF Execute, StartBatch, EmptyBatch, LoadSender, SenderMissing, DeliveryRefused, Send,
                Decide, Requeue, Report, DeleteJob, Abort, JobTimeout, RowBecomesDue, vars
  <2> QED
    BY <2>1 DEF TypeOK, FarewellOnce
<1> QED
  BY <1>1, <1>2, <1>3, <1>4 DEF Next

LEMMA InitTInv == Init => TInv
BY OutgoingAssumption
   DEF Init, TInv, TypeOK, AttemptTyped, FarewellOnce, IsTable, EmptyTable, Idle

\* A step of the executor of which only the local variables matter.
LEMMA GoesTInv ==
    ASSUME TInv, [Next]_vars,
           NEW p \in {"load", "send", "requeue", "report"}, NEW id \in DOMAIN table,
           NEW delivered \in SUBSET Actor, NEW todo \in SUBSET Actor,
           Goes(p, id, delivered, todo),
           p = "requeue" => table[id].data.failures < RetriesMax /\ todo = {},
           p = "send" => todo \cap delivered = {},
           p \in {"send", "requeue"} => table[id].data.delivered \subseteq delivered,
           p \in {"send", "report"} => todo \subseteq Recipients[table[id].data.activity]
    PROVE  TInv'
<1>1. /\ IsTable(table', JobData) /\ DOMAIN table' = DOMAIN table
      /\ table'[id].data = table[id].data
      /\ UNCHANGED records
      /\ executor' = Exec(p, id, delivered, todo)
  BY DEF Goes, SameData
<1>2. /\ executor'.pc = p /\ executor'.job = id /\ executor'.delivered = delivered
      /\ executor'.todo = todo /\ executor' \in Busy
  <2>1. id \in JobId
    BY DEF TInv, TypeOK, IsTable
  <2> QED
    BY <1>1, <2>1 DEF Exec, Busy
<1>3. TypeOK'
  BY <1>1, <1>2, UsersStep DEF TInv, TypeOK, records
<1>4. AttemptTyped'
  BY <1>1, <1>2 DEF AttemptTyped, job, activity
<1> QED
  BY <1>3, <1>4, UsersStep DEF TInv

LEMMA NextTInv == TInv /\ [Next]_vars => TInv'
<1> SUFFICES ASSUME TInv, [Next]_vars PROVE TInv'
  OBVIOUS
<1> USE OutgoingAssumption
<1>1. /\ TypeOK /\ AttemptTyped /\ FarewellOnce
      /\ users' \subseteq User /\ cli' \subseteq Farewell /\ FarewellOnce'
  BY UsersStep DEF TInv
<1>2. ASSUME Calm PROVE TInv'
  <2>1. executor' = executor /\ DOMAIN table' = DOMAIN table /\ IsTable(table', JobData)
    BY <1>2 DEF Calm, SameData
  <2>2. TypeOK'
    BY <1>1, <1>2, <2>1 DEF Calm, TypeOK, records
  <2>3. AttemptTyped'
    <3>1. CASE executor = Idle
      BY <2>1, <3>1 DEF AttemptTyped, Idle
    <3>2. CASE executor # Idle
      <4>1. table'[executor.job].data = table[executor.job].data
        BY <1>1, <1>2, <3>2, BusyExecutor DEF Calm, SameData
      <4> QED
        BY <1>1, <2>1, <4>1 DEF AttemptTyped, job, activity
    <3> QED
      BY <3>1, <3>2
  <2> QED
    BY <1>1, <2>2, <2>3 DEF TInv
<1>3. ASSUME NEW a \in Activity, Adds(a) PROVE TInv'
  <2>1. /\ IsTable(table', JobData) /\ DOMAIN table \subseteq DOMAIN table'
        /\ \A id \in DOMAIN table : table'[id] = table[id]
    BY <1>1, <1>3, NewJobType, RowAdded DEF Adds
  <2>2. executor' = executor
    BY <1>3 DEF Adds
  <2>3. TypeOK'
    BY <1>1, <1>3, <2>1, <2>2 DEF Adds, TypeOK
  <2>4. AttemptTyped'
    <3>1. CASE executor = Idle
      BY <2>2, <3>1 DEF AttemptTyped, Idle
    <3>2. CASE executor # Idle
      <4>1. table'[executor.job] = table[executor.job]
        BY <1>1, <2>1, <3>2, BusyExecutor
      <4> QED
        BY <1>1, <2>2, <4>1 DEF AttemptTyped, job, activity
    <3> QED
      BY <3>1, <3>2
  <2> QED
    BY <1>1, <2>3, <2>4 DEF TInv
<1>4. ASSUME Leaves PROVE TInv'
  <2>1. aborts' \in 0..MaxAborts
    BY <1>1, <1>4 DEF Leaves, TypeOK
  <2>2. TypeOK'
    BY <1>1, <1>4, <2>1 DEF Leaves, TypeOK
  <2>3. AttemptTyped'
    BY <1>4 DEF Leaves, AttemptTyped, Idle
  <2> QED
    BY <1>1, <2>2, <2>3 DEF TInv
<1>5. ASSUME Starts PROVE TInv'
  <2>1. PICK id \in DOMAIN table : Goes("load", id, {}, {})
    BY <1>5 DEF Starts
  <2> QED
    BY <2>1, GoesTInv
<1>6. ASSUME Loads PROVE TInv'
  <2>1. executor # Idle
    BY <1>6 DEF Loads, Idle
  <2>2. /\ executor.job \in DOMAIN table
        /\ job.delivered \subseteq Actor /\ Recipients[activity] \subseteq Actor
    BY <1>1, <2>1, BusyExecutor
  <2>3. Goes("send", executor.job, job.delivered, Recipients[activity] \ job.delivered)
    BY <1>6 DEF Loads
  <2> QED
    BY <2>2, <2>3, GoesTInv DEF job, activity
<1>7. ASSUME Decides PROVE TInv'
  <2>1. executor # Idle /\ executor.pc = "send"
    BY <1>7 DEF Decides, Idle
  <2>2. /\ executor.job \in DOMAIN table
        /\ executor.delivered \subseteq Actor /\ Recipients[activity] \subseteq Actor
        /\ job.delivered \subseteq executor.delivered
    BY <1>1, <2>1, BusyExecutor DEF AttemptTyped
  <2>3. CASE RetriesLeft /\ Goes("requeue", executor.job, executor.delivered, {})
    BY <2>2, <2>3, GoesTInv DEF job, activity, RetriesLeft
  <2>4. CASE Goes("report", executor.job, executor.delivered, Recipients[activity])
    BY <2>2, <2>4, GoesTInv DEF job, activity
  <2> QED
    BY <1>7, <2>3, <2>4 DEF Decides
<1>8. ASSUME NEW r \in Actor, NEW ok \in BOOLEAN, Sends(r, ok) PROVE TInv'
  <2>1. executor # Idle /\ executor.pc = "send" /\ r \in executor.todo /\ table' = table
    BY <1>8 DEF Sends, Idle
  <2> DEFINE d == executor.delivered \cup IF ok THEN {r} ELSE {}
             t == executor.todo \ {r}
  <2>2. /\ executor.job \in DOMAIN table /\ executor.job \in JobId /\ activity \in Activity
        /\ d \subseteq Actor /\ t \subseteq Actor
        /\ job.delivered \subseteq d /\ t \cap d = {}
        /\ t \subseteq Recipients[activity]
    BY <1>1, <2>1, BusyExecutor DEF AttemptTyped
  <2>3. executor' = Exec("send", executor.job, d, t)
    BY <1>8 DEF Sends
  <2> HIDE DEF d, t
  <2>4. /\ executor'.pc = "send" /\ executor'.job = executor.job
        /\ executor'.delivered = d /\ executor'.todo = t /\ executor' \in Busy
    BY <2>2, <2>3 DEF Exec, Busy
  <2>5. tries' \in [Activity -> [Actor -> Nat]] /\ acks' \in [Activity -> [Actor -> Nat]]
    <3>1. /\ tries \in [Activity -> [Actor -> Nat]] /\ acks \in [Activity -> [Actor -> Nat]]
          /\ tries' = [tries EXCEPT ![activity][r] = @ + 1]
          /\ acks'  = [acks  EXCEPT ![activity][r] = @ + IF ok THEN 1 ELSE 0]
      BY <1>1, <1>8 DEF Sends, TypeOK
    <3> QED
      BY <2>2, <3>1
  <2>6. UNCHANGED <<unreachable, enqueued, refused, aborts>>
    BY <1>8 DEF Sends
  <2>7. TypeOK'
    BY <1>1, <2>1, <2>2, <2>4, <2>5, <2>6 DEF TypeOK
  <2>8. AttemptTyped'
    BY <2>1, <2>2, <2>4 DEF AttemptTyped, job, activity
  <2> QED
    BY <1>1, <2>7, <2>8 DEF TInv
<1>9. ASSUME Requeues PROVE TInv'
  <2>1. executor # Idle /\ executor.pc = "requeue"
    BY <1>9 DEF Requeues, Idle
  <2>2. /\ executor.job \in DOMAIN table /\ executor.job \in JobId
        /\ executor.delivered \subseteq Actor /\ executor.todo \subseteq Actor
    BY <1>1, <2>1, BusyExecutor
  <2>3. RetryData \in JobData
    BY <1>1, <2>1, RetryDataType DEF AttemptTyped
  <2>4. /\ IsTable(table', JobData) /\ DOMAIN table \subseteq DOMAIN table'
    BY <1>1, <1>9, <2>3, RowAdded DEF Requeues
  <2>5. /\ executor'.pc = "delete" /\ executor'.job = executor.job /\ executor' \in Busy
    BY <1>9, <2>2 DEF Requeues, Exec, Busy
  <2>6. TypeOK'
    BY <1>1, <1>9, <2>2, <2>4, <2>5 DEF TypeOK, Requeues, records
  <2>7. AttemptTyped'
    BY <2>5 DEF AttemptTyped
  <2> QED
    BY <1>1, <2>6, <2>7 DEF TInv
<1>10. ASSUME NEW r \in Actor, Reports(r) PROVE TInv'
  <2>1. executor # Idle /\ executor.pc = "report" /\ r \in executor.todo /\ table' = table
    BY <1>10 DEF Reports, Idle
  <2>2. PICK p \in {"report", "delete"} :
          executor' = Exec(p, executor.job, executor.delivered, executor.todo \ {r})
    BY <1>10 DEF Reports
  <2>3. /\ executor.job \in DOMAIN table /\ executor.job \in JobId
        /\ executor.delivered \subseteq Actor /\ executor.todo \subseteq Actor
        /\ executor.todo \subseteq Recipients[activity]
    BY <1>1, <2>1, BusyExecutor DEF AttemptTyped
  <2>4. /\ executor'.pc = p /\ executor'.job = executor.job
        /\ executor'.todo = executor.todo \ {r} /\ executor' \in Busy
    BY <2>2, <2>3 DEF Exec, Busy
  <2>5. unreachable' \subseteq Actor
    BY <1>1, <1>10 DEF Reports, SetReachability, TypeOK
  <2>6. TypeOK'
    BY <1>1, <1>10, <2>1, <2>3, <2>4, <2>5 DEF TypeOK, Reports
  <2>7. AttemptTyped'
    BY <2>1, <2>3, <2>4 DEF AttemptTyped, job, activity
  <2> QED
    BY <1>1, <2>6, <2>7 DEF TInv
<1>11. ASSUME Deletes PROVE TInv'
  <2>1. IsTable(table', JobData)
    BY <1>1, <1>11, RowDeleted DEF Deletes
  <2>2. refused' \subseteq Activity
    BY <1>1, <1>11, BusyExecutor DEF Deletes, TypeOK
  <2>3. TypeOK'
    BY <1>1, <1>11, <2>1, <2>2 DEF Deletes, TypeOK
  <2>4. AttemptTyped'
    BY <1>11 DEF Deletes, AttemptTyped, Idle
  <2> QED
    BY <1>1, <2>3, <2>4 DEF TInv
<1> QED
  BY <1>1, <1>2, <1>3, <1>4, <1>5, <1>6, <1>7, <1>8, <1>9, <1>10, <1>11, KindsOfSteps

\* The type invariant of the queue.
THEOREM OutgoingTypeCorrect == Spec => []TypeOK
<1>1. TInv => TypeOK
  BY DEF TInv
<1> QED
  BY <1>1, InitTInv, NextTInv, PTL DEF Spec

-----------------------------------------------------------------------------
(* What the rows and the executor owe to the recipients *)

\* The flags and the counter stored with a job are what has happened.
Good(d) ==
    /\ d.activity \in enqueued
    /\ \A r \in Recipients[d.activity] :
        IF r \in d.delivered THEN acks[d.activity][r] > 0
                             ELSE tries[d.activity][r] >= d.failures

Jobs == {table[id].data : id \in DOMAIN table}

RowsTrue == \A d \in Jobs : Good(d)

\* So are the flags of the present attempt; after the last one, the retries of
\* all others are used up.
AttemptTrue ==
    /\ executor.pc \in {"send", "requeue"} =>
        \A r \in Recipients[activity] \ executor.todo :
            IF r \in executor.delivered THEN acks[activity][r] > 0
                                        ELSE tries[activity][r] > job.failures
    /\ executor.pc = "report" =>
        \A r \in Recipients[activity] :
            IF r \in executor.delivered THEN acks[activity][r] > 0
                                        ELSE tries[activity][r] > RetriesMax

\* The row of a job is deleted when there is nothing left to do, or a retry.
DeleteSafe ==
    executor.pc = "delete" =>
        \A r \in Recipients[activity] :
            \/ acks[activity][r] > 0
            \/ tries[activity][r] > RetriesMax
            \/ Pending(activity, r) \ {executor.job} # {}

QInv == RowsTrue /\ AttemptTrue /\ DeleteSafe /\ NoRecipientForgotten /\ UnreachableEarned

LEMMA PendingRows ==
    \A a, r : Pending(a, r) =
        {id \in DOMAIN table : table[id].data.activity = a /\ r \notin table[id].data.delivered}
BY DEF Pending, RowsWith

LEMMA InitQInv == Init => QInv
BY DEF Init, QInv, RowsTrue, Jobs, AttemptTrue, DeleteSafe, NoRecipientForgotten, UnreachableEarned,
       EmptyTable, Idle

Grows ==
    /\ \A a \in Activity, r \in Actor : acks'[a][r] >= acks[a][r] /\ tries'[a][r] >= tries[a][r]
    /\ enqueued \subseteq enqueued'

\* A row that was true stays so.
LEMMA GoodStays ==
    ASSUME TInv, TInv', Grows, NEW d \in JobData, Good(d)
    PROVE  Good(d)'
<1>1. /\ d.activity \in Activity /\ d.failures \in Nat
      /\ Recipients[d.activity] \subseteq Actor
  BY RecipientsAreActors, OutgoingAssumption DEF JobData
<1>2. \A r \in Actor : /\ acks[d.activity][r] \in Nat /\ acks'[d.activity][r] \in Nat
                       /\ tries[d.activity][r] \in Nat /\ tries'[d.activity][r] \in Nat
  BY <1>1 DEF TInv, TypeOK
<1>3. \A r \in Actor : /\ acks'[d.activity][r] >= acks[d.activity][r]
                       /\ tries'[d.activity][r] >= tries[d.activity][r]
  BY <1>1 DEF Grows
<1>4. d.activity \in enqueued'
  BY DEF Good, Grows
<1>5. ASSUME NEW r \in Recipients[d.activity]
      PROVE  IF r \in d.delivered THEN acks'[d.activity][r] > 0
                                  ELSE tries'[d.activity][r] >= d.failures
  BY <1>1, <1>2, <1>3 DEF Good
<1> QED
  BY <1>4, <1>5 DEF Good

LEMMA RowsStay ==
    ASSUME TInv, TInv', Grows, RowsTrue, \A d \in Jobs' : d \in Jobs \/ Good(d)'
    PROVE  RowsTrue'
<1> SUFFICES ASSUME NEW d \in Jobs, Good(d) PROVE Good(d)'
  BY DEF RowsTrue
<1>1. d \in JobData
  BY DEF Jobs, TInv, TypeOK, IsTable, JobRow
<1> QED
  BY <1>1, GoodStays

LEMMA ForgottenStays ==
    ASSUME TInv, TInv', Grows, NoRecipientForgotten, enqueued' = enqueued, refused \subseteq refused',
           \A a \in enqueued \ refused' : \A r \in Recipients[a] :
              Pending(a, r) # {} =>
                Pending(a, r)' # {} \/ acks'[a][r] > 0 \/ tries'[a][r] > RetriesMax
    PROVE  NoRecipientForgotten'
<1> SUFFICES ASSUME NEW a \in enqueued \ refused', NEW r \in Recipients[a]
             PROVE  acks'[a][r] > 0 \/ Pending(a, r)' # {} \/ tries'[a][r] > RetriesMax
  BY DEF NoRecipientForgotten
<1>1. a \in Activity /\ r \in Actor
  BY RecipientsAreActors DEF TInv, TypeOK
<1>2. /\ acks[a][r] \in Nat /\ acks'[a][r] \in Nat /\ acks'[a][r] >= acks[a][r]
      /\ tries[a][r] \in Nat /\ tries'[a][r] \in Nat /\ tries'[a][r] >= tries[a][r]
  BY <1>1 DEF TInv, TypeOK, Grows
<1> QED
  BY <1>2, OutgoingAssumption DEF NoRecipientForgotten

\* A step that changes no data of rows and sends nothing.
Quiet ==
    /\ SameData(table, table')
    /\ UNCHANGED <<unreachable, enqueued, tries, acks, refused>>

LEMMA QuietQInv ==
    ASSUME TInv, TInv', QInv, Quiet
    PROVE  /\ RowsTrue' /\ NoRecipientForgotten' /\ UnreachableEarned'
           /\ \A a, r : Pending(a, r)' = Pending(a, r)
<1>1. /\ DOMAIN table' = DOMAIN table
      /\ \A id \in DOMAIN table : table'[id].data = table[id].data
      /\ unreachable' = unreachable /\ enqueued' = enqueued /\ refused' = refused
      /\ tries' = tries /\ acks' = acks
  BY DEF Quiet, SameData
<1>2. \A a, r : Pending(a, r)' = Pending(a, r)
  BY <1>1 DEF Pending, RowsWith
<1>3. Grows
  BY <1>1 DEF Grows, TInv, TypeOK
<1>4. RowsTrue'
  <2>1. Jobs' = Jobs
    BY <1>1 DEF Jobs
  <2> QED
    BY <1>3, <2>1, RowsStay DEF QInv
<1>5. NoRecipientForgotten'
  BY <1>1, <1>2 DEF QInv, NoRecipientForgotten
<1>6. UnreachableEarned'
  BY <1>1 DEF QInv, UnreachableEarned
<1> QED
  BY <1>2, <1>4, <1>5, <1>6

\* The executor goes on: what it knows of this attempt is to be shown.
LEMMA GoesQInv ==
    ASSUME TInv, TInv', QInv, NEW p, NEW id \in DOMAIN table, NEW delivered, NEW todo,
           p # "delete",
           Goes(p, id, delivered, todo),
           p \in {"send", "requeue"} =>
             \A r \in Recipients[table[id].data.activity] \ todo :
               IF r \in delivered THEN acks[table[id].data.activity][r] > 0
                                  ELSE tries[table[id].data.activity][r] > table[id].data.failures,
           p = "report" =>
             \A r \in Recipients[table[id].data.activity] :
               IF r \in delivered THEN acks[table[id].data.activity][r] > 0
                                  ELSE tries[table[id].data.activity][r] > RetriesMax
    PROVE  QInv'
<1>1. /\ table'[id].data = table[id].data
      /\ tries' = tries /\ acks' = acks
      /\ executor' = Exec(p, id, delivered, todo)
  BY DEF Goes, SameData, records
<1>2. /\ executor'.pc = p /\ executor'.job = id /\ executor'.delivered = delivered
      /\ executor'.todo = todo
  BY <1>1 DEF Exec
<1>3. Quiet
  BY DEF Goes, Quiet, records
<1>4. AttemptTrue'
  BY <1>1, <1>2 DEF AttemptTrue, job, activity
<1>5. DeleteSafe'
  BY <1>2 DEF DeleteSafe
<1> QED
  BY <1>3, <1>4, <1>5, QuietQInv DEF QInv

LEMMA CalmQInv == ASSUME TInv, TInv', QInv, Calm PROVE QInv'
<1>1. Quiet /\ executor' = executor /\ tries' = tries /\ acks' = acks
  BY DEF Calm, Quiet, records
<1>2. CASE executor = Idle
  <2>1. AttemptTrue' /\ DeleteSafe'
    BY <1>1, <1>2 DEF AttemptTrue, DeleteSafe, Idle
  <2> QED
    BY <1>1, <2>1, QuietQInv DEF QInv
<1>3. CASE executor # Idle
  <2>1. table'[executor.job].data = table[executor.job].data
    BY <1>1, <1>3, BusyExecutor DEF Quiet, SameData, TInv
  <2>2. AttemptTrue'
    BY <1>1, <2>1 DEF QInv, AttemptTrue, job, activity
  <2>3. DeleteSafe'
    <3>1. \A r : Pending(activity, r)' = Pending(activity, r)
      <4>1. activity' = activity
        BY <1>1, <2>1 DEF job, activity
      <4> QED
        BY <1>1, <4>1, QuietQInv DEF Pending, RowsWith
    <3> QED
      BY <1>1, <2>1, <3>1 DEF QInv, DeleteSafe, job, activity
  <2> QED
    BY <1>1, <2>2, <2>3, QuietQInv DEF QInv
<1> QED
  BY <1>2, <1>3

LEMMA LeavesQInv == ASSUME TInv, TInv', QInv, Leaves PROVE QInv'
<1>1. Quiet /\ executor' = Idle
  BY DEF Leaves, Quiet, SameData
<1>2. AttemptTrue' /\ DeleteSafe'
  BY <1>1 DEF AttemptTrue, DeleteSafe, Idle
<1> QED
  BY <1>1, <1>2, QuietQInv DEF QInv

LEMMA LoadsQInv == ASSUME TInv, TInv', QInv, Loads PROVE QInv'
<1>1. executor # Idle
  BY DEF Loads, Idle
<1>2. executor.job \in DOMAIN table
  BY <1>1, BusyExecutor DEF TInv
<1>3. Good(job)
  BY <1>2 DEF QInv, RowsTrue, Jobs, job
<1>4. \A r \in Recipients[activity] \ (Recipients[activity] \ job.delivered) :
         r \in job.delivered /\ acks[activity][r] > 0
  BY <1>3 DEF Good, activity
<1>5. Goes("send", executor.job, job.delivered, Recipients[activity] \ job.delivered)
  BY DEF Loads
<1> QED
  BY <1>2, <1>4, <1>5, GoesQInv DEF job, activity

LEMMA DecidesQInv == ASSUME TInv, TInv', QInv, Decides PROVE QInv'
<1>1. executor # Idle /\ executor.pc = "send" /\ executor.todo = {}
  BY DEF Decides, Idle
<1>2. /\ executor.job \in DOMAIN table /\ activity \in Activity
      /\ job.failures \in 0..RetriesMax /\ Recipients[activity] \subseteq Actor
  BY <1>1, BusyExecutor DEF TInv
<1>3. \A r \in Recipients[activity] :
         IF r \in executor.delivered THEN acks[activity][r] > 0
                                     ELSE tries[activity][r] > job.failures
  BY <1>1 DEF QInv, AttemptTrue
<1>4. CASE Goes("requeue", executor.job, executor.delivered, {})
  BY <1>2, <1>3, <1>4, GoesQInv DEF job, activity
<1>5. CASE /\ executor.delivered = Recipients[activity] \/ ~RetriesLeft
           /\ Goes("report", executor.job, executor.delivered, Recipients[activity])
  <2>1. \A r \in Recipients[activity] :
           IF r \in executor.delivered THEN acks[activity][r] > 0
                                       ELSE tries[activity][r] > RetriesMax
    <3>1. CASE executor.delivered = Recipients[activity]
      BY <1>3, <3>1
    <3>2. CASE ~RetriesLeft
      <4>1. job.failures = RetriesMax
        BY <1>2, <3>2, OutgoingAssumption DEF RetriesLeft
      <4> QED
        BY <1>3, <4>1
    <3> QED
      BY <1>5, <3>1, <3>2
  <2> QED
    BY <1>2, <1>5, <2>1, GoesQInv DEF job, activity
<1> QED
  BY <1>4, <1>5 DEF Decides

LEMMA ReportsQInv == ASSUME TInv, TInv', QInv, NEW r \in Actor, Reports(r) PROVE QInv'
<1>1. /\ executor # Idle /\ executor.pc = "report" /\ r \in executor.todo
      /\ table' = table /\ UNCHANGED <<enqueued, tries, acks, refused>>
      /\ unreachable' = SetReachability(r)
  BY DEF Reports, Idle
<1>2. PICK p \in {"report", "delete"} :
        executor' = Exec(p, executor.job, executor.delivered, executor.todo \ {r})
  BY DEF Reports
<1>3. /\ executor'.pc = p /\ executor'.job = executor.job
      /\ executor'.delivered = executor.delivered
  BY <1>2 DEF Exec
<1>4. r \in Recipients[activity]
  BY <1>1 DEF TInv, AttemptTyped
<1>5. \A x \in Recipients[activity] :
         IF x \in executor.delivered THEN acks[activity][x] > 0
                                     ELSE tries[activity][x] > RetriesMax
  BY <1>1 DEF QInv, AttemptTrue
<1>6. activity' = activity /\ job' = job
  BY <1>1, <1>3 DEF activity, job
<1>7. AttemptTrue' /\ DeleteSafe'
  BY <1>1, <1>3, <1>5, <1>6 DEF AttemptTrue, DeleteSafe
<1>8. RowsTrue' /\ NoRecipientForgotten'
  BY <1>1 DEF QInv, RowsTrue, Jobs, Good, NoRecipientForgotten, Pending, RowsWith
<1>9. UnreachableEarned'
  <2>1. activity \in Activity
    BY <1>1, BusyExecutor DEF TInv
  <2>2. unreachable' \subseteq unreachable \cup {x \in {r} : x \notin executor.delivered}
    BY <1>1 DEF SetReachability
  <2> QED
    BY <1>1, <1>4, <1>5, <2>1, <2>2 DEF QInv, UnreachableEarned
<1> QED
  BY <1>7, <1>8, <1>9 DEF QInv

\* A row is added: the jobs and what is pending afterwards.
LEMMA AddedJobs ==
    ASSUME TypeOK, NEW d \in JobData, HasFreshId(table), table' = EnqueueJob(table, d)
    PROVE  /\ Jobs' = Jobs \cup {d}
           /\ \A a, r : Pending(a, r)' = Pending(a, r) \cup
                (IF d.activity = a /\ r \notin d.delivered THEN {FreshId(table)} ELSE {})
<1> DEFINE n == FreshId(table)
<1>1. /\ n \notin DOMAIN table
      /\ DOMAIN table' = DOMAIN table \cup {n}
      /\ table'[n].data = d
      /\ \A id \in DOMAIN table : table'[id] = table[id]
  BY RowAdded
<1> HIDE DEF n
<1>2. Jobs' = Jobs \cup {d}
  BY <1>1 DEF Jobs
<1>3. \A a, r : Pending(a, r)' = Pending(a, r) \cup
                (IF d.activity = a /\ r \notin d.delivered THEN {n} ELSE {})
  BY <1>1 DEF Pending, RowsWith
<1> QED
  BY <1>2, <1>3 DEF n

LEMMA AddsQInv == ASSUME TInv, TInv', QInv, NEW a \in Activity, Adds(a) PROVE QInv'
<1> DEFINE d == NewJob(a)
<1>1. /\ a \notin enqueued /\ HasFreshId(table) /\ table' = EnqueueJob(table, d)
      /\ enqueued' = enqueued \cup {a}
      /\ executor' = executor /\ unreachable' = unreachable /\ refused' = refused
      /\ tries' = tries /\ acks' = acks
  BY DEF Adds
<1>2. d \in JobData /\ d.activity = a /\ d.delivered = {} /\ d.failures = 0
  <2>1. d \in JobData
    BY NewJobType
  <2> QED
    BY <2>1 DEF NewJob
<1> HIDE DEF d
<1>3. Jobs' = Jobs \cup {d} /\ \A id \in DOMAIN table : table'[id] = table[id]
  BY <1>1, <1>2, AddedJobs, RowAdded DEF TInv
<1>4. \A x, r : Pending(x, r) \subseteq Pending(x, r)' /\ Pending(a, r)' # {}
  <2>1. \A x, r : Pending(x, r)' = Pending(x, r) \cup
          (IF d.activity = x /\ r \notin d.delivered THEN {FreshId(table)} ELSE {})
    BY <1>1, <1>2, AddedJobs DEF TInv
  <2> QED
    BY <1>2, <2>1
<1>5. Grows
  BY <1>1 DEF Grows, TInv, TypeOK
<1>6. RowsTrue'
  <2>1. Good(d)'
    <3>1. \A r \in Recipients[a] : tries'[a][r] \in Nat
      BY RecipientsAreActors DEF TInv, TypeOK
    <3> QED
      BY <1>1, <1>2, <3>1 DEF Good
  <2> QED
    BY <1>3, <1>5, <2>1, RowsStay DEF QInv
<1>7. NoRecipientForgotten'
  <2> SUFFICES ASSUME NEW x \in enqueued' \ refused', NEW r \in Recipients[x]
               PROVE  acks'[x][r] > 0 \/ Pending(x, r)' # {} \/ tries'[x][r] > RetriesMax
    BY DEF NoRecipientForgotten
  <2>1. CASE x = a
    BY <1>4, <2>1
  <2>2. CASE x # a
    BY <1>1, <1>4, <2>2 DEF QInv, NoRecipientForgotten
  <2> QED
    BY <2>1, <2>2
<1>8. UnreachableEarned'
  BY <1>1 DEF QInv, UnreachableEarned
<1>9. AttemptTrue' /\ DeleteSafe'
  <2>1. CASE executor = Idle
    BY <1>1, <2>1 DEF AttemptTrue, DeleteSafe, Idle
  <2>2. CASE executor # Idle
    <3>1. activity' = activity /\ job' = job
      BY <1>1, <1>3, <2>2, BusyExecutor DEF TInv, activity, job
    <3>2. \A r : Pending(activity, r) \subseteq (Pending(activity, r))'
      BY <1>4, <3>1
    <3> QED
      BY <1>1, <3>1, <3>2 DEF QInv, AttemptTrue, DeleteSafe
  <2> QED
    BY <2>1, <2>2
<1> QED
  BY <1>6, <1>7, <1>8, <1>9 DEF QInv

LEMMA SendsQInv ==
    ASSUME TInv, TInv', QInv, NEW r \in Actor, NEW ok \in BOOLEAN, Sends(r, ok)
    PROVE  QInv'
<1>1. /\ executor # Idle /\ executor.pc = "send" /\ r \in executor.todo
      /\ table' = table /\ UNCHANGED <<unreachable, enqueued, refused>>
      /\ tries' = [tries EXCEPT ![activity][r] = @ + 1]
      /\ acks'  = [acks  EXCEPT ![activity][r] = @ + IF ok THEN 1 ELSE 0]
  BY DEF Sends, Idle
<1>2. executor' = Exec("send", executor.job, executor.delivered \cup IF ok THEN {r} ELSE {},
                       executor.todo \ {r})
  BY DEF Sends
<1>3. /\ executor'.pc = "send" /\ executor'.job = executor.job
      /\ executor'.delivered = executor.delivered \cup IF ok THEN {r} ELSE {}
      /\ executor'.todo = executor.todo \ {r}
  BY <1>2 DEF Exec
<1>4. /\ activity \in Activity /\ job.failures \in 0..RetriesMax
      /\ Recipients[activity] \subseteq Actor
      /\ executor.todo \cap executor.delivered = {}
      /\ executor.job \in DOMAIN table
  BY <1>1, BusyExecutor DEF TInv, AttemptTyped
<1>5. activity' = activity /\ job' = job
  BY <1>1, <1>3 DEF activity, job
<1>6. /\ tries \in [Activity -> [Actor -> Nat]] /\ acks \in [Activity -> [Actor -> Nat]]
      /\ tries' \in [Activity -> [Actor -> Nat]] /\ acks' \in [Activity -> [Actor -> Nat]]
  BY DEF TInv, TypeOK
<1>7. /\ \A x \in Actor \ {r} : /\ tries'[activity][x] = tries[activity][x]
                                /\ acks'[activity][x] = acks[activity][x]
      /\ tries'[activity][r] = tries[activity][r] + 1
      /\ acks'[activity][r] = acks[activity][r] + IF ok THEN 1 ELSE 0
      /\ \A a \in Activity \ {activity} : tries'[a] = tries[a] /\ acks'[a] = acks[a]
  BY <1>1, <1>4, <1>6
<1>8. Grows
  <2> SUFFICES ASSUME NEW a \in Activity, NEW x \in Actor
               PROVE  acks'[a][x] >= acks[a][x] /\ tries'[a][x] >= tries[a][x]
    BY <1>1 DEF Grows
  <2>1. acks[a][x] \in Nat /\ tries[a][x] \in Nat
    BY <1>6
  <2>2. CASE a = activity /\ x = r
    BY <1>7, <2>1, <2>2
  <2>3. CASE ~(a = activity /\ x = r)
    BY <1>7, <2>1, <2>3
  <2> QED
    BY <2>2, <2>3
<1>9. RowsTrue'
  BY <1>1, <1>8, RowsStay DEF QInv, Jobs
<1>10. NoRecipientForgotten'
  <2>1. \A a, x : Pending(a, x)' = Pending(a, x)
    BY <1>1 DEF Pending, RowsWith
  <2> QED
    BY <1>1, <1>8, <2>1, ForgottenStays DEF QInv
<1>11. UnreachableEarned'
  <2> SUFFICES ASSUME NEW x \in unreachable
               PROVE  \E a \in Activity : tries'[a][x] > RetriesMax
    BY <1>1 DEF UnreachableEarned
  <2>1. x \in Actor
    BY DEF TInv, TypeOK
  <2>2. PICK a \in Activity : tries[a][x] > RetriesMax
    BY DEF QInv, UnreachableEarned
  <2>3. tries'[a][x] >= tries[a][x] /\ tries[a][x] \in Nat /\ tries'[a][x] \in Nat
    BY <1>6, <1>8, <2>1 DEF Grows
  <2> QED
    BY <2>2, <2>3, OutgoingAssumption
<1>12. AttemptTrue'
  <2> SUFFICES ASSUME NEW x \in Recipients[activity] \ executor'.todo
               PROVE  IF x \in executor'.delivered THEN acks'[activity][x] > 0
                                                   ELSE tries'[activity][x] > job.failures
    BY <1>3, <1>5 DEF AttemptTrue
  <2>1. x \in Actor /\ acks[activity][x] \in Nat /\ tries[activity][x] \in Nat
    BY <1>4, <1>6
  <2>2. CASE x # r
    BY <1>1, <1>3, <1>7, <2>1, <2>2 DEF QInv, AttemptTrue
  <2>3. CASE x = r
    <3>1. tries[activity][r] >= job.failures
      <4>1. Good(job)
        BY <1>4 DEF QInv, RowsTrue, Jobs, job
      <4>2. job.activity = activity /\ r \in Recipients[activity] /\ r \notin job.delivered
        BY <1>1, <2>3 DEF activity, TInv, AttemptTyped
      <4> QED
        BY <4>1, <4>2 DEF Good
    <3> QED
      BY <1>1, <1>3, <1>4, <1>7, <2>1, <2>3, <3>1, OutgoingAssumption
  <2> QED
    BY <2>2, <2>3
<1>13. DeleteSafe'
  BY <1>3 DEF DeleteSafe
<1> QED
  BY <1>9, <1>10, <1>11, <1>12, <1>13 DEF QInv

LEMMA RequeuesQInv == ASSUME TInv, TInv', QInv, Requeues PROVE QInv'
<1> PICK d : d = RetryData
  OBVIOUS
<1> DEFINE n == FreshId(table)
<1>1. /\ executor # Idle /\ executor.pc = "requeue"
      /\ HasFreshId(table) /\ table' = EnqueueJob(table, d)
      /\ UNCHANGED <<unreachable, enqueued, tries, acks, refused>>
  BY DEF Requeues, Idle, records
<1>2. executor'.pc = "delete" /\ executor'.job = executor.job
  BY DEF Requeues, Exec
<1>3. /\ d \in JobData /\ d.activity = activity /\ d.delivered = executor.delivered
      /\ d.failures = job.failures + 1
  BY <1>1, RetryDataType DEF TInv, AttemptTyped
<1>4. /\ activity \in Activity /\ job.failures \in 0..RetriesMax
      /\ Recipients[activity] \subseteq Actor /\ executor.job \in DOMAIN table
      /\ executor.todo = {}
  BY <1>1, BusyExecutor DEF TInv, AttemptTyped
<1>5. \A r \in Recipients[activity] :
         IF r \in executor.delivered THEN acks[activity][r] > 0
                                     ELSE tries[activity][r] > job.failures
  BY <1>1, <1>4 DEF QInv, AttemptTrue
<1>6. /\ Jobs' = Jobs \cup {d}
      /\ \A a, r : Pending(a, r)' = Pending(a, r) \cup
            (IF d.activity = a /\ r \notin d.delivered THEN {n} ELSE {})
      /\ n \notin DOMAIN table
      /\ \A id \in DOMAIN table : table'[id] = table[id]
  BY <1>1, <1>3, AddedJobs, RowAdded DEF TInv
<1> HIDE DEF n
<1>7. Grows
  BY <1>1 DEF Grows, TInv, TypeOK
<1>8. RowsTrue'
  <2>1. activity \in enqueued
    BY <1>4 DEF QInv, RowsTrue, Jobs, Good, activity, job
  <2>2. \A r \in Recipients[activity] : tries[activity][r] \in Nat
    BY <1>4 DEF TInv, TypeOK
  <2>3. Good(d)'
    BY <1>1, <1>3, <1>4, <1>5, <2>1, <2>2 DEF Good
  <2> QED
    BY <1>6, <1>7, <2>3, RowsStay DEF QInv
<1>9. NoRecipientForgotten'
  BY <1>1, <1>6, <1>7, ForgottenStays DEF QInv
<1>10. UnreachableEarned'
  BY <1>1 DEF QInv, UnreachableEarned
<1>11. AttemptTrue'
  BY <1>2 DEF AttemptTrue
<1>12. DeleteSafe'
  <2>1. activity' = activity
    BY <1>2, <1>4, <1>6 DEF activity, job
  <2>2. ASSUME NEW r \in Recipients[activity], r \notin executor.delivered
        PROVE  (Pending(activity, r))' \ {executor.job} # {}
    <3>1. n \in Pending(activity, r)' /\ n # executor.job
      BY <1>3, <1>4, <1>6, <2>1, <2>2
    <3> QED
      BY <3>1
  <2> QED
    BY <1>1, <1>2, <1>5, <2>1, <2>2 DEF DeleteSafe
<1> QED
  BY <1>8, <1>9, <1>10, <1>11, <1>12 DEF QInv

LEMMA DeletesQInv == ASSUME TInv, TInv', QInv, Deletes PROVE QInv'
<1>1. /\ executor # Idle /\ table' = DeleteJobFromQueue(table, executor.job)
      /\ executor' = Idle /\ refused \subseteq refused'
      /\ UNCHANGED <<unreachable, enqueued, tries, acks>>
      /\ executor.pc = "delete" \/ activity \in refused'
  BY DEF Deletes
<1>2. /\ DOMAIN table' = DOMAIN table \ {executor.job}
      /\ \A id \in DOMAIN table' : table'[id].data = table[id].data
  BY <1>1, RowDeleted DEF TInv
<1>3. \A a, r : Pending(a, r)' = Pending(a, r) \ {executor.job}
  BY <1>2 DEF Pending, RowsWith
<1>4. Grows
  BY <1>1 DEF Grows, TInv, TypeOK
<1>5. RowsTrue'
  <2>1. Jobs' \subseteq Jobs
    BY <1>2 DEF Jobs
  <2> QED
    BY <1>4, <2>1, RowsStay DEF QInv
<1>6. NoRecipientForgotten'
  <2> SUFFICES ASSUME NEW a \in enqueued \ refused', NEW r \in Recipients[a], Pending(a, r) # {},
                      Pending(a, r) \ {executor.job} = {}
               PROVE  acks[a][r] > 0 \/ tries[a][r] > RetriesMax
    BY <1>1, <1>3, <1>4, ForgottenStays DEF QInv
  <2>1. executor.job \in Pending(a, r)
    OBVIOUS
  <2>2. a = activity
    BY <2>1, PendingRows DEF activity, job
  <2> QED
    BY <1>1, <2>2 DEF QInv, DeleteSafe
<1>7. UnreachableEarned'
  BY <1>1 DEF QInv, UnreachableEarned
<1>8. AttemptTrue' /\ DeleteSafe'
  BY <1>1 DEF AttemptTrue, DeleteSafe, Idle
<1> QED
  BY <1>5, <1>6, <1>7, <1>8 DEF QInv

LEMMA NextQInv == TInv /\ QInv /\ [Next]_vars => QInv'
<1> SUFFICES ASSUME TInv, QInv, [Next]_vars PROVE QInv'
  OBVIOUS
<1>1. TInv' /\ TypeOK /\ FarewellOnce
  BY NextTInv DEF TInv
<1>2. ASSUME Starts PROVE QInv'
  <2>1. PICK id \in DOMAIN table : Goes("load", id, {}, {})
    BY <1>2 DEF Starts
  <2> QED
    BY <1>1, <2>1, GoesQInv
<1> QED
  BY <1>1, <1>2, KindsOfSteps, CalmQInv, LeavesQInv, LoadsQInv, DecidesQInv, ReportsQInv,
     AddsQInv, SendsQInv, RequeuesQInv, DeletesQInv

\* No recipient of an enqueued activity is forgotten, whatever fails and
\* however often the executor is aborted: the retry is in the table before
\* the row of the job is deleted (process_queued_outgoing_activities).
THEOREM OutgoingNobodyForgotten == Spec => []NoRecipientForgotten
<1>1. QInv => NoRecipientForgotten
  BY DEF QInv
<1> QED
  BY <1>1, InitTInv, NextTInv, InitQInv, NextQInv, PTL DEF Spec

\* set_reachability_status is told of a failure only after the last retry.
THEOREM OutgoingUnreachableEarned == Spec => []UnreachableEarned
<1>1. QInv => UnreachableEarned
  BY DEF QInv
<1> QED
  BY <1>1, InitTInv, NextTInv, InitQInv, NextQInv, PTL DEF Spec

-----------------------------------------------------------------------------
(* How often an acknowledged delivery can be repeated *)

\* What the executor will not send any more because of this row.
Settled(id, r) ==
    /\ executor # Idle
    /\ executor.job = id
    /\ \/ executor.pc \in {"report", "delete"}
       \/ executor.pc \in {"send", "requeue"} /\ r \in executor.delivered

\* Rows that may lead to one more acknowledgement.
Owed(a, r) == {id \in Pending(a, r) : ~Settled(id, r)}

\* Each of them was paid for by the activity itself or by an abort.
AckBudget ==
    \A a \in Activity, r \in Actor : acks[a][r] + Cardinality(Owed(a, r)) <= 1 + aborts

AcksEnqueued == \A a \in Activity \ enqueued : \A r \in Actor : acks[a][r] = 0

RInv == AckBudget /\ AcksEnqueued

LEMMA OwedFinite ==
    ASSUME TypeOK, NEW a, NEW r
    PROVE  IsFiniteSet(Owed(a, r)) /\ Cardinality(Owed(a, r)) \in Nat
<1>1. Owed(a, r) \subseteq JobId
  BY PendingRows DEF Owed, TypeOK, IsTable
<1> QED
  BY <1>1, JobIdAssumption, FS_Subset, FS_CardinalityType

LEMMA InitRInv == Init => RInv
<1> SUFFICES ASSUME Init PROVE RInv
  OBVIOUS
<1>1. \A a, r : Owed(a, r) = {}
  BY PendingRows DEF Init, Owed, EmptyTable
<1>2. Cardinality({}) = 0
  BY FS_EmptySet
<1> QED
  BY <1>1, <1>2 DEF Init, RInv, AckBudget, AcksEnqueued

\* A step that owes nothing new and that acknowledges nothing.
LEMMA NothingOwed ==
    ASSUME TypeOK, TypeOK', RInv, acks' = acks, enqueued \subseteq enqueued', aborts' = aborts,
           \A a \in Activity, r \in Actor : Owed(a, r)' \subseteq Owed(a, r)
    PROVE  RInv'
<1>1. ASSUME NEW a \in Activity, NEW r \in Actor
      PROVE  acks'[a][r] + Cardinality(Owed(a, r)') <= 1 + aborts'
  <2>1. /\ IsFiniteSet(Owed(a, r)) /\ Cardinality(Owed(a, r)) \in Nat
        /\ Owed(a, r)' \subseteq Owed(a, r)
    BY OwedFinite
  <2>2. Cardinality(Owed(a, r)') \in Nat /\ Cardinality(Owed(a, r)') <= Cardinality(Owed(a, r))
    BY <2>1, FS_Subset, FS_CardinalityType
  <2>3. acks[a][r] \in Nat /\ aborts \in Nat /\ acks[a][r] + Cardinality(Owed(a, r)) <= 1 + aborts
    BY OutgoingAssumption DEF RInv, AckBudget, TypeOK
  <2> QED
    BY <2>1, <2>2, <2>3
<1> QED
  BY <1>1 DEF RInv, AckBudget, AcksEnqueued

\* Another row is owed: there must be room for it.
LEMMA OneMore ==
    ASSUME TypeOK, NEW a, NEW r, NEW id, NEW S, S \subseteq Owed(a, r) \cup {id}
    PROVE  Cardinality(S) \in Nat /\ Cardinality(S) <= Cardinality(Owed(a, r)) + 1
<1>1. IsFiniteSet(Owed(a, r)) /\ Cardinality(Owed(a, r)) \in Nat
  BY OwedFinite
<1>2. /\ IsFiniteSet(Owed(a, r) \cup {id})
      /\ Cardinality(Owed(a, r) \cup {id}) <= Cardinality(Owed(a, r)) + 1
      /\ Cardinality(Owed(a, r) \cup {id}) \in Nat
  BY <1>1, FS_AddElement, FS_CardinalityType
<1>3. IsFiniteSet(S) /\ Cardinality(S) <= Cardinality(Owed(a, r) \cup {id})
  BY <1>2, FS_Subset
<1> QED
  BY <1>1, <1>2, <1>3, FS_CardinalityType

\* One row is owed less.
LEMMA OneLess ==
    ASSUME TypeOK, NEW a, NEW r, NEW id \in Owed(a, r), NEW S, S \subseteq Owed(a, r) \ {id}
    PROVE  Cardinality(S) \in Nat /\ Cardinality(S) + 1 <= Cardinality(Owed(a, r))
<1>1. IsFiniteSet(Owed(a, r)) /\ Cardinality(Owed(a, r)) \in Nat
  BY OwedFinite
<1>2. /\ IsFiniteSet(Owed(a, r) \ {id})
      /\ Cardinality(Owed(a, r) \ {id}) = Cardinality(Owed(a, r)) - 1
  BY <1>1, FS_RemoveElement
<1>3. IsFiniteSet(S) /\ Cardinality(S) <= Cardinality(Owed(a, r) \ {id})
  BY <1>2, FS_Subset
<1> QED
  BY <1>1, <1>2, <1>3, FS_CardinalityType

LEMMA QuietPending ==
    ASSUME SameData(table, table')
    PROVE  \A a, r : Pending(a, r)' = Pending(a, r)
BY DEF SameData, Pending, RowsWith

LEMMA LeavesRInv == ASSUME TInv, TInv', RInv, Leaves PROVE RInv'
<1>1. /\ executor # Idle /\ executor' = Idle /\ acks' = acks /\ enqueued' = enqueued
      /\ SameData(table, table')
  BY DEF Leaves, SameData
<1>2. \A a, r : Owed(a, r)' = Pending(a, r)
  BY <1>1, QuietPending DEF Owed, Settled
<1>3. CASE executor.pc = "load" /\ aborts' = aborts
  <2>1. \A a, r : Owed(a, r) = Pending(a, r)
    BY <1>3 DEF Owed, Settled
  <2> QED
    BY <1>1, <1>2, <1>3, <2>1, NothingOwed DEF TInv
<1>4. CASE aborts' = aborts + 1
  <2>1. ASSUME NEW a \in Activity, NEW r \in Actor
        PROVE  acks'[a][r] + Cardinality(Owed(a, r)') <= 1 + aborts'
    <3>1. Owed(a, r)' \subseteq Owed(a, r) \cup {executor.job}
      BY <1>2 DEF Owed, Settled
    <3>2. /\ Cardinality(Owed(a, r)') \in Nat /\ Cardinality(Owed(a, r)) \in Nat
          /\ Cardinality(Owed(a, r)') <= Cardinality(Owed(a, r)) + 1
      BY <3>1, OneMore, OwedFinite DEF TInv
    <3>3. acks[a][r] \in Nat /\ aborts \in Nat /\ acks[a][r] + Cardinality(Owed(a, r)) <= 1 + aborts
      BY OutgoingAssumption DEF RInv, AckBudget, TInv, TypeOK
    <3> QED
      BY <1>1, <1>4, <3>2, <3>3
  <2> QED
    BY <1>1, <2>1 DEF RInv, AckBudget, AcksEnqueued
<1> QED
  BY <1>3, <1>4 DEF Leaves

LEMMA AddsRInv == ASSUME TInv, TInv', QInv, RInv, NEW a \in Activity, Adds(a) PROVE RInv'
<1> DEFINE d == NewJob(a)
           n == FreshId(table)
<1>1. /\ a \notin enqueued /\ HasFreshId(table) /\ table' = EnqueueJob(table, d)
      /\ enqueued' = enqueued \cup {a}
      /\ executor' = executor /\ acks' = acks /\ aborts' = aborts
  BY DEF Adds
<1>2. d \in JobData /\ d.activity = a
  <2>1. d \in JobData
    BY NewJobType
  <2> QED
    BY <2>1 DEF NewJob
<1> HIDE DEF d
<1>3. \A x, r : Pending(x, r)' = Pending(x, r) \cup
            (IF d.activity = x /\ r \notin d.delivered THEN {n} ELSE {})
  BY <1>1, <1>2, AddedJobs DEF TInv
<1> HIDE DEF n
<1>4. \A id, r : Settled(id, r)' = Settled(id, r)
  BY <1>1 DEF Settled
<1>5. ASSUME NEW x \in Activity, NEW r \in Actor
      PROVE  acks'[x][r] + Cardinality(Owed(x, r)') <= 1 + aborts'
  <2>1. acks[x][r] \in Nat /\ aborts \in Nat /\ acks[x][r] + Cardinality(Owed(x, r)) <= 1 + aborts
    BY OutgoingAssumption DEF RInv, AckBudget, TInv, TypeOK
  <2>2. CASE x # a
    <3>1. Owed(x, r)' = Owed(x, r)
      BY <1>2, <1>3, <1>4, <2>2 DEF Owed
    <3> QED
      BY <1>1, <2>1, <3>1
  <2>3. CASE x = a
    <3>1. acks[a][r] = 0
      BY <1>1 DEF RInv, AcksEnqueued
    <3>2. Owed(a, r) = {}
      BY <1>1, PendingRows DEF QInv, RowsTrue, Jobs, Good, Owed
    <3>3. Owed(a, r)' \subseteq {n}
      BY <1>3, <1>4, <3>2 DEF Owed
    <3>4. Cardinality(Owed(a, r)') \in Nat /\ Cardinality(Owed(a, r)') <= 1
      <4>1. Cardinality(Owed(a, r)) = 0
        BY <3>2, FS_EmptySet
      <4>2. TypeOK /\ Owed(a, r)' \subseteq Owed(a, r) \cup {n}
        BY <3>3 DEF TInv
      <4>3. /\ Cardinality(Owed(a, r)') \in Nat
            /\ Cardinality(Owed(a, r)') <= Cardinality(Owed(a, r)) + 1
        BY <4>2, OneMore
      <4> QED
        BY <4>1, <4>3
    <3> QED
      BY <1>1, <2>1, <2>3, <3>1, <3>4
  <2> QED
    BY <2>2, <2>3
<1>6. AcksEnqueued'
  BY <1>1 DEF RInv, AcksEnqueued
<1> QED
  BY <1>5, <1>6 DEF RInv, AckBudget

LEMMA SendsRInv ==
    ASSUME TInv, TInv', QInv, RInv, NEW r \in Actor, NEW ok \in BOOLEAN, Sends(r, ok)
    PROVE  RInv'
<1>1. /\ executor # Idle /\ executor.pc = "send" /\ r \in executor.todo
      /\ table' = table /\ enqueued' = enqueued /\ aborts' = aborts
      /\ acks' = [acks EXCEPT ![activity][r] = @ + IF ok THEN 1 ELSE 0]
  BY DEF Sends, Idle
<1>2. /\ executor'.pc = "send" /\ executor'.job = executor.job /\ executor' # Idle
      /\ executor'.delivered = executor.delivered \cup IF ok THEN {r} ELSE {}
  BY DEF Sends, Exec, Idle
<1>3. /\ activity \in Activity /\ executor.job \in DOMAIN table
      /\ executor.todo \cap executor.delivered = {}
      /\ job.delivered \subseteq executor.delivered
  BY <1>1, BusyExecutor DEF TInv, AttemptTyped
<1>4. acks \in [Activity -> [Actor -> Nat]] /\ aborts \in Nat
  BY OutgoingAssumption DEF TInv, TypeOK
<1>5. \A a, x : Pending(a, x)' = Pending(a, x)
  BY <1>1 DEF Pending, RowsWith
<1>6. \A a, x : Owed(a, x)' \subseteq Owed(a, x)
  BY <1>1, <1>2, <1>5 DEF Owed, Settled
<1>7. CASE ~ok
  <2>1. acks' = acks
    BY <1>1, <1>3, <1>4, <1>7
  <2> QED
    BY <1>1, <1>6, <2>1, NothingOwed DEF TInv
<1>8. CASE ok
  <2>1. ASSUME NEW a \in Activity, NEW x \in Actor
        PROVE  acks'[a][x] + Cardinality(Owed(a, x)') <= 1 + aborts'
    <3>1. /\ acks[a][x] \in Nat /\ acks[a][x] + Cardinality(Owed(a, x)) <= 1 + aborts
          /\ IsFiniteSet(Owed(a, x)) /\ Cardinality(Owed(a, x)) \in Nat
      BY <1>4, OwedFinite DEF RInv, AckBudget, TInv
    <3>2. CASE a = activity /\ x = r
      <4>1. acks'[a][x] = acks[a][x] + 1
        BY <1>1, <1>3, <1>4, <1>8, <3>2
      <4>2. executor.job \in Owed(a, x)
        BY <1>1, <1>3, <3>2, PendingRows DEF Owed, Settled, activity, job
      <4>3. Owed(a, x)' \subseteq Owed(a, x) \ {executor.job}
        BY <1>2, <1>6, <1>8, <3>2 DEF Owed, Settled
      <4>4. Cardinality(Owed(a, x)') \in Nat /\ Cardinality(Owed(a, x)') + 1 <= Cardinality(Owed(a, x))
        BY <4>2, <4>3, OneLess DEF TInv
      <4> QED
        BY <1>1, <1>4, <3>1, <4>1, <4>4
    <3>3. CASE ~(a = activity /\ x = r)
      <4>1. acks'[a][x] = acks[a][x]
        BY <1>1, <1>3, <1>4, <3>3
      <4>2. Cardinality(Owed(a, x)') \in Nat /\ Cardinality(Owed(a, x)') <= Cardinality(Owed(a, x))
        BY <1>6, <3>1, FS_Subset, FS_CardinalityType
      <4> QED
        BY <1>1, <1>4, <3>1, <4>1, <4>2
    <3> QED
      BY <3>2, <3>3
  <2>2. AcksEnqueued'
    <3>1. activity \in enqueued
      BY <1>3 DEF QInv, RowsTrue, Jobs, Good, activity, job
    <3> QED
      BY <1>1, <1>3, <1>4, <3>1 DEF RInv, AcksEnqueued
  <2> QED
    BY <2>1, <2>2 DEF RInv, AckBudget
<1> QED
  BY <1>7, <1>8

LEMMA RequeuesRInv == ASSUME TInv, TInv', RInv, Requeues PROVE RInv'
<1> DEFINE n == FreshId(table)
<1>1. /\ executor # Idle /\ executor.pc = "requeue"
      /\ HasFreshId(table) /\ table' = EnqueueJob(table, RetryData)
      /\ enqueued' = enqueued /\ acks' = acks /\ aborts' = aborts
  BY DEF Requeues, Idle, records
<1>2. executor'.pc = "delete" /\ executor'.job = executor.job /\ executor' # Idle
  BY DEF Requeues, Exec, Idle
<1>3. /\ RetryData \in JobData /\ RetryData.activity = activity
      /\ RetryData.delivered = executor.delivered
  BY <1>1, RetryDataType DEF TInv, AttemptTyped
<1>4. executor.job \in DOMAIN table /\ job.delivered \subseteq executor.delivered
  BY <1>1, BusyExecutor DEF TInv, AttemptTyped
<1>5. /\ n \notin DOMAIN table
      /\ \A a, r : Pending(a, r)' = Pending(a, r) \cup
            (IF activity = a /\ r \notin executor.delivered THEN {n} ELSE {})
  BY <1>1, <1>3, AddedJobs, RowAdded DEF TInv
<1> HIDE DEF n
<1>6. ASSUME NEW a \in Activity, NEW r \in Actor
      PROVE  acks'[a][r] + Cardinality(Owed(a, r)') <= 1 + aborts'
  <2>1. /\ acks[a][r] \in Nat /\ aborts \in Nat /\ acks[a][r] + Cardinality(Owed(a, r)) <= 1 + aborts
        /\ IsFiniteSet(Owed(a, r)) /\ Cardinality(Owed(a, r)) \in Nat
    BY OutgoingAssumption, OwedFinite DEF RInv, AckBudget, TInv, TypeOK
  <2>2. CASE activity = a /\ r \notin executor.delivered
    <3>1. executor.job \in Owed(a, r)
      BY <1>1, <1>4, <2>2, PendingRows DEF Owed, Settled, activity, job
    <3>2. Owed(a, r)' \subseteq (Owed(a, r) \ {executor.job}) \cup {n}
      BY <1>1, <1>2, <1>5 DEF Owed, Settled
    <3>3. n \notin Owed(a, r)
      BY <1>5, PendingRows DEF Owed
    <3> DEFINE S == Owed(a, r) \ {executor.job}
    <3>4. IsFiniteSet(S) /\ Cardinality(S) = Cardinality(Owed(a, r)) - 1 /\ n \notin S
      BY <2>1, <3>1, <3>3, FS_RemoveElement
    <3> HIDE DEF S
    <3>5. IsFiniteSet(S \cup {n}) /\ Cardinality(S \cup {n}) = Cardinality(Owed(a, r))
      <4>1. /\ IsFiniteSet(S \cup {n})
            /\ Cardinality(S \cup {n}) = IF n \in S THEN Cardinality(S) ELSE Cardinality(S) + 1
        BY <3>4, FS_AddElement
      <4> QED
        BY <2>1, <3>4, <4>1
    <3>6. Cardinality(Owed(a, r)') \in Nat /\ Cardinality(Owed(a, r)') <= Cardinality(S \cup {n})
      <4>1. Owed(a, r)' \subseteq S \cup {n}
        BY <3>2 DEF S
      <4> QED
        BY <3>5, <4>1, FS_Subset, FS_CardinalityType
    <3> QED
      BY <1>1, <2>1, <3>5, <3>6
  <2>3. CASE ~(activity = a /\ r \notin executor.delivered)
    <3>1. Owed(a, r)' \subseteq Owed(a, r)
      BY <1>1, <1>2, <1>5, <2>3 DEF Owed, Settled
    <3>2. Cardinality(Owed(a, r)') \in Nat /\ Cardinality(Owed(a, r)') <= Cardinality(Owed(a, r))
      BY <2>1, <3>1, FS_Subset, FS_CardinalityType
    <3> QED
      BY <1>1, <2>1, <3>2
  <2> QED
    BY <2>2, <2>3
<1>7. AcksEnqueued'
  BY <1>1 DEF RInv, AcksEnqueued
<1> QED
  BY <1>6, <1>7 DEF RInv, AckBudget

\* All other steps owe nothing new.
LEMMA OthersRInv ==
    ASSUME TInv, TInv', RInv,
           Calm \/ Starts \/ Loads \/ Decides \/ Deletes \/ \E r \in Actor : Reports(r)
    PROVE  RInv'
<1>1. CASE Calm
  <2>1. SameData(table, table') /\ executor' = executor
    BY <1>1 DEF Calm
  <2>2. \A a, r : Owed(a, r)' = Owed(a, r)
    BY <2>1, QuietPending DEF Owed, Settled
  <2> QED
    BY <1>1, <2>2, NothingOwed DEF TInv, Calm, records
<1>2. CASE Starts
  <2>1. SameData(table, table') /\ executor = Idle
    BY <1>2 DEF Starts, Goes
  <2>2. \A a, r : Owed(a, r)' \subseteq Owed(a, r)
    BY <2>1, QuietPending DEF Owed, Settled
  <2> QED
    BY <1>2, <2>2, NothingOwed DEF TInv, Starts, Goes, records
<1>3. CASE Loads
  <2>1. SameData(table, table') /\ executor.pc = "load"
    BY <1>3 DEF Loads, Goes
  <2>2. \A a, r : Owed(a, r)' \subseteq Owed(a, r)
    BY <2>1, QuietPending DEF Owed, Settled
  <2> QED
    BY <1>3, <2>2, NothingOwed DEF TInv, Loads, Goes, records
<1>4. CASE Decides
  <2>1. PICK p \in {"requeue", "report"} : \E t : Goes(p, executor.job, executor.delivered, t)
    BY <1>4 DEF Decides
  <2>2. /\ executor'.pc = p /\ executor'.job = executor.job /\ executor' # Idle
        /\ executor'.delivered = executor.delivered
        /\ SameData(table, table')
    BY <2>1 DEF Goes, Exec, Idle
  <2>3. executor.pc = "send"
    BY <1>4 DEF Decides
  <2>4. \A a, r : Owed(a, r)' \subseteq Owed(a, r)
    BY <2>2, <2>3, QuietPending DEF Owed, Settled
  <2> QED
    BY <2>1, <2>4, NothingOwed DEF TInv, Goes, records
<1>5. CASE Deletes
  <2>1. /\ executor # Idle /\ executor' = Idle
        /\ table' = DeleteJobFromQueue(table, executor.job)
    BY <1>5 DEF Deletes
  <2>2. /\ DOMAIN table' = DOMAIN table \ {executor.job}
        /\ \A id \in DOMAIN table' : table'[id].data = table[id].data
    BY <2>1, RowDeleted DEF TInv
  <2>3. \A a, r : Pending(a, r)' = Pending(a, r) \ {executor.job}
    BY <2>2 DEF Pending, RowsWith
  <2>4. \A a, r : Owed(a, r)' \subseteq Owed(a, r)
    BY <2>1, <2>3 DEF Owed, Settled
  <2> QED
    BY <1>5, <2>4, NothingOwed DEF TInv, Deletes
<1>6. ASSUME NEW r \in Actor, Reports(r) PROVE RInv'
  <2>1. PICK p \in {"report", "delete"} :
          executor' = Exec(p, executor.job, executor.delivered, executor.todo \ {r})
    BY <1>6 DEF Reports
  <2>2. executor'.pc = p /\ executor'.job = executor.job /\ executor' # Idle
    BY <2>1 DEF Exec, Idle
  <2>3. executor.pc = "report" /\ SameData(table, table')
    BY <1>6 DEF Reports, SameData
  <2>4. \A a, x : Owed(a, x)' \subseteq Owed(a, x)
    BY <2>2, <2>3, QuietPending DEF Owed, Settled
  <2> QED
    BY <1>6, <2>4, NothingOwed DEF TInv, Reports
<1> QED
  BY <1>1, <1>2, <1>3, <1>4, <1>5, <1>6

LEMMA NextRInv == TInv /\ QInv /\ RInv /\ [Next]_vars => RInv'
<1> SUFFICES ASSUME TInv, QInv, RInv, [Next]_vars PROVE RInv'
  OBVIOUS
<1>1. TInv' /\ TypeOK /\ FarewellOnce
  BY NextTInv DEF TInv
<1> QED
  BY <1>1, KindsOfSteps, LeavesRInv, AddsRInv, SendsRInv, RequeuesRInv, OthersRInv

\* A recipient that has acknowledged an activity gets it again only because
\* of an abort, at most once for each: into_job stores the flags of the attempt.
THEOREM OutgoingNoNeedlessRedelivery == Spec => []NoNeedlessRedelivery
<1>1. TInv /\ RInv => NoNeedlessRedelivery
  <2> SUFFICES ASSUME TInv, RInv, NEW a \in Activity, NEW r \in Actor
               PROVE  acks[a][r] <= 1 + aborts
    BY DEF NoNeedlessRedelivery
  <2>1. Cardinality(Owed(a, r)) \in Nat
    BY OwedFinite DEF TInv
  <2>2. acks[a][r] \in Nat /\ aborts \in Nat /\ acks[a][r] + Cardinality(Owed(a, r)) <= 1 + aborts
    BY OutgoingAssumption DEF RInv, AckBudget, TInv, TypeOK
  <2> QED
    BY <2>1, <2>2
<1> QED
  BY <1>1, InitTInv, NextTInv, InitQInv, NextQInv, InitRInv, NextRInv, PTL DEF Spec
=============================================================================
