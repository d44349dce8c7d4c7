------------------------------ MODULE JobQueue ------------------------------
(***************************************************************************)
(* The background job queue of the will organ (src/src/will/job_queue.py). *)
(*                                                                         *)
(* One asyncio process keeps a dictionary of Job objects, an unbounded     *)
(* FIFO of job ids, a pool of worker tasks, one delayed retry task per     *)
(* job in backoff and one circuit breaker per job name; every change of a  *)
(* job is written through to one SQLite row.  A worker suspends only on    *)
(* queue.get() and on the handler, so the code between two of those awaits *)
(* is one action here, and so is every request (submit, cancel, ...).      *)
(*                                                                         *)
(* A job that is not in the dictionary (or has no row) is a job whose      *)
(* status is "absent".  Time is abstracted: next_retry_at is only zero or  *)
(* set (field "retryAt"), and a delay ends when its action is taken.       *)
(***************************************************************************)
EXTENDS Naturals, Sequences, FiniteSets

CONSTANTS
    Jobs,          \* job ids; uuid4 never repeats one, so neither does the model
    Workers,       \* the worker tasks (max_workers of them)
    Names,         \* job names
    Handled,       \* the names with a registered handler
    Keys,          \* idempotency keys
    NoKey,         \* idempotency_key = ""
    Budgets,       \* the values of max_retries callers pass
    Errors,        \* signatures (first 200 characters) of failures
    TimedOut,      \* the one that "Job timed out after ..s" has
    StormWindow,   \* storm_window
    Idle,          \* a worker that waits in queue.get()
    MaxQueue,      \* bound: requests enqueue only below this length
    MaxCrashes,    \* bound: process crashes
    MaxStops,      \* bound: calls of stop()
    MaxPurges,     \* bound: calls of purge()
    MaxFaults      \* bound: SQLite errors that are logged and swallowed

ASSUME ConstantAssumption ==
    /\ Names # {} /\ Handled \subseteq Names
    /\ NoKey \notin Keys
    /\ Idle \notin Jobs
    /\ Budgets \subseteq Nat
    /\ StormWindow \in Nat \ {0}
    /\ MaxQueue \in Nat /\ MaxCrashes \in Nat /\ MaxStops \in Nat
    /\ MaxPurges \in Nat /\ MaxFaults \in Nat

VARIABLES
    proc,      \* "down", "recovering", "up" or "stopped"
    mem,       \* self._jobs
    db,        \* the jobs table
    queue,     \* self._queue
    held,      \* the job whose handler each worker awaits
    timer,     \* the delayed tasks of _schedule_retry, and self._retry_tasks
    breaker,   \* self._breakers
    todo,      \* rows _recover_from_db has read and not yet handled
    grant,     \* history: the last submit or requeue of each job
    asked,     \* history: the idempotency key each job was submitted with
    crashes, stops, purges, faults   \* how often the environment interfered

vars == <<proc, mem, db, queue, held, timer, breaker, todo, grant, asked,
          crashes, stops, purges, faults>>

\* Mutant: a completed job may be requeued too.
FailuresAll == {"failed", "timeout", "cancelled", "completed"}

Live     == {"pending", "running"}
Failures == {"failed", "timeout", "cancelled"}      \* what requeue accepts
Terminal == Failures \cup {"completed"}
JobStatus == Live \cup Terminal \cup {"absent"}

\* The fields of a Job that decide what happens to it.
Job == [name : Names, status : JobStatus, retries : Nat, max : Nat, retryAt : {"unset", "set"}]
Row == [job : Job, key : Keys \cup {NoKey}]

\* The tasks of one job that sleep, those that are cancelled and have not yet
\* run their "finally", and the number of entries of the job in _retry_tasks.
Timer   == [sleeping : Nat, cancelled : Nat, tracked : 0..1]
NoTimer == [sleeping |-> 0, cancelled |-> 0, tracked |-> 0]

\* A breaker entry; count = 0 stands for "no entry for this name".
Breaker   == [sig : Errors \cup {TimedOut}, count : Nat, state : {"closed", "open", "cooled"}]
NoBreaker == [sig |-> TimedOut, count |-> 0, state |-> "closed"]

\* An "overlap" is a requeue of a job of which something was still around.
Grant == [kind : {"none", "submit", "requeue", "overlap"}, runs : Nat]

NoJob == [name |-> CHOOSE n \in Names : TRUE, status |-> "absent",
          retries |-> 0, max |-> 0, retryAt |-> "unset"]
NoRow == [job |-> NoJob, key |-> NoKey]

Occurs(q, j) == \E i \in 1..Len(q) : q[i] = j
Queued(j)    == Occurs(queue, j)
HeldBy(j)    == {w \in Workers : held[w] = j}
InMemory(j)  == mem[j].status # "absent"
HasRow(j)    == db[j].job.status # "absent"

-----------------------------------------------------------------------------
(* Building blocks shared by the handlers.                                 *)

\* Mutant: INSERT OR REPLACE without the COALESCE sub-select.
PersistLosesKey(j, job, key) ==
    \/ /\ db' = [db EXCEPT ![j] = [job |-> job, key |-> key]]
       /\ UNCHANGED faults
    \/ /\ faults < MaxFaults
       /\ faults' = faults + 1
       /\ UNCHANGED db

\* _persist: INSERT OR REPLACE of the whole row; the key is kept from the old
\* row unless the caller passes one.  An exception is logged and swallowed.
Persist(j, job, key) ==
    \/ /\ db' = [db EXCEPT ![j] =
                   [job |-> job, key |-> IF key # NoKey THEN key ELSE @.key]]
       /\ UNCHANGED faults
    \/ /\ faults < MaxFaults
       /\ faults' = faults + 1
       /\ UNCHANGED db

\* Mutant: the old task is cancelled but stays in _retry_tasks.
CancelledTimerNoPop(t) ==
    [sleeping  |-> t.sleeping - t.tracked,
     cancelled |-> t.cancelled + t.tracked,
     tracked   |-> t.tracked]

\* Mutant: the old task is popped from _retry_tasks but not cancelled.
CancelledTimerLeak(t) == [t EXCEPT !.tracked = 0]

\* old = _retry_tasks.pop(id); old.cancel().  The entry always is a task that
\* still sleeps: a task that ends pops the entry itself.
CancelledTimer(t) ==
    [sleeping  |-> t.sleeping - t.tracked,
     cancelled |-> t.cancelled + t.tracked,
     tracked   |-> 0]

\* _schedule_retry: cancel the old task, create and remember a new one.
ScheduledTimer(t) ==
    [sleeping  |-> CancelledTimer(t).sleeping + 1,
     cancelled |-> CancelledTimer(t).cancelled,
     tracked   |-> 1]

\* The end of _delayed: its "finally" pops whatever _retry_tasks holds.
Woken(t) ==
    [sleeping |-> t.sleeping - 1, cancelled |-> t.cancelled, tracked |-> 0]
Cleaned(t) ==
    [sleeping |-> t.sleeping, cancelled |-> t.cancelled - 1, tracked |-> 0]

\* A job with a new status, and one whose next_retry_at is set to 0 as well.
Become(job, status) == [job EXCEPT !.status = status]
Settle(job, status) ==
    [name |-> job.name, status |-> status, retries |-> job.retries,
     max |-> job.max, retryAt |-> "unset"]

\* Mutant: the storm is recognised one failure late.
BreakerAfterFailureLate(b, sig) ==
    IF b.state = "open" THEN b
    ELSE LET n == IF b.state = "closed" /\ b.count > 0 /\ b.sig = sig THEN b.count + 1 ELSE 1
         IN  [sig |-> sig, count |-> n,
              state |-> IF n > StormWindow THEN "open" ELSE "closed"]

\* _breaker_record_failure: an open breaker stays as it is until its cooldown
\* is over, then the failure counts as the first of a new storm.
BreakerAfterFailure(b, sig) ==
    IF b.state = "open" THEN b
    ELSE LET n == IF b.state = "closed" /\ b.count > 0 /\ b.sig = sig THEN b.count + 1 ELSE 1
         IN  [sig |-> sig, count |-> n,
              state |-> IF n >= StormWindow THEN "open" ELSE "closed"]

Requests == proc \in {"up", "stopped"}     \* HTTP handlers can run

-----------------------------------------------------------------------------
(* Requests.                                                               *)

\* Mutant: running jobs do not count.
find_pending_only(key) ==
    {j \in Jobs : db[j].key = key /\ db[j].job.status = "pending"}

\* Live rows with this key: the SELECT of submit and find_by_idempotency_key.
find_by_idempotency_key(key) ==
    {j \in Jobs : db[j].key = key /\ db[j].job.status \in Live}

\* submit of a new job: an equal key on a live row returns that job instead,
\* which changes nothing.
submit(j, name, max, key) ==
    /\ Requests /\ Len(queue) < MaxQueue
    /\ grant[j].kind = "none"
    /\ key = NoKey \/ find_by_idempotency_key(key) = {}
    /\ LET job == [name |-> name, status |-> "pending", retries |-> 0,
                   max |-> max, retryAt |-> "unset"]
       IN  /\ mem' = [mem EXCEPT ![j] = job]
           /\ Persist(j, job, key)
    /\ queue' = Append(queue, j)
    /\ grant' = [grant EXCEPT ![j] = [kind |-> "submit", runs |-> 0]]
    /\ asked' = [asked EXCEPT ![j] = key]
    /\ UNCHANGED <<proc, held, timer, breaker, todo, crashes, stops, purges>>

\* get: a row that is not in memory is loaded into the dictionary.
get(j) ==
    /\ Requests
    /\ ~InMemory(j) /\ HasRow(j)
    /\ mem' = [mem EXCEPT ![j] = db[j].job]
    /\ UNCHANGED <<proc, db, queue, held, timer, breaker, todo, grant, asked,
                   crashes, stops, purges, faults>>

\* cancel: the id stays in the asyncio queue, where a worker will skip it.
cancel(j) ==
    /\ Requests
    /\ mem[j].status = "pending"
    /\ LET job == Settle(mem[j], "cancelled")
       IN  /\ mem' = [mem EXCEPT ![j] = job]
           /\ Persist(j, job, NoKey)
    /\ timer' = [timer EXCEPT ![j] = CancelledTimer(@)]
    /\ UNCHANGED <<proc, queue, held, breaker, todo, grant, asked,
                   crashes, stops, purges>>

\* The job requeue puts back: its budget is spent, so it runs once.
Requeued(job) ==
    [name |-> job.name, status |-> "pending", retries |-> job.retries,
     max |-> job.retries, retryAt |-> "unset"]

\* requeue: a failed, timed out or cancelled job is queued again, loaded from
\* its row first if the dictionary does not have it.
requeue(j) ==
    /\ Requests /\ Len(queue) < MaxQueue
    /\ InMemory(j) \/ HasRow(j)
    /\ LET old == IF InMemory(j) THEN mem[j] ELSE db[j].job
       IN  \/ /\ old.status \in Failures
              /\ mem' = [mem EXCEPT ![j] = Requeued(old)]
              /\ Persist(j, Requeued(old), NoKey)
              /\ timer' = [timer EXCEPT ![j] = CancelledTimer(@)]
              /\ queue' = Append(queue, j)
              /\ grant' = [grant EXCEPT ![j] =
                    [kind |-> IF Queued(j) \/ HeldBy(j) # {} \/ timer[j].sleeping > 0
                              THEN "overlap" ELSE "requeue",
                     runs |-> 0]]
           \/ /\ old.status \notin Failures       \* not_terminal, but now loaded
              /\ ~InMemory(j)
              /\ mem' = [mem EXCEPT ![j] = old]
              /\ UNCHANGED <<db, faults, timer, queue, grant>>
    /\ UNCHANGED <<proc, held, breaker, todo, asked, crashes, stops, purges>>

\* purge: the filters on status, name and age select some rows; the dictionary
\* and the queue are not touched.
purge(statuses, selected) ==
    /\ Requests /\ purges < MaxPurges
    /\ LET rows == {j \in selected : HasRow(j) /\ db[j].job.status \in statuses}
       IN  /\ rows # {}
           /\ db' = [j \in Jobs |-> IF j \in rows THEN NoRow ELSE db[j]]
    /\ purges' = purges + 1
    /\ UNCHANGED <<proc, mem, queue, held, timer, breaker, todo, grant, asked,
                   crashes, stops, faults>>

-----------------------------------------------------------------------------
(* The worker loop.                                                        *)

\* What a worker does with the id it got: the job was cancelled meanwhile.
TakeSkipped(w) ==
    /\ proc = "up" /\ held[w] = Idle /\ queue # <<>>
    /\ mem[Head(queue)].status \in {"absent", "cancelled"}
    /\ queue' = Tail(queue)
    /\ UNCHANGED <<proc, mem, db, held, timer, breaker, todo, grant, asked,
                   crashes, stops, purges, faults>>

\* No handler is registered for the job's name: it fails at once.
TakeUnhandled(w) ==
    /\ proc = "up" /\ held[w] = Idle /\ queue # <<>>
    /\ LET j   == Head(queue)
           job == Become(mem[j], "failed")
       IN  /\ mem[j].status \notin {"absent", "cancelled"}
           /\ mem[j].name \notin Handled
           /\ mem' = [mem EXCEPT ![j] = job]
           /\ Persist(j, job, NoKey)
    /\ queue' = Tail(queue)
    /\ UNCHANGED <<proc, held, timer, breaker, todo, grant, asked,
                   crashes, stops, purges>>

\* Mutant: the status is not set before the handler is awaited.
TakeRunStaysPending(w) ==
    /\ proc = "up" /\ held[w] = Idle /\ queue # <<>>
    /\ LET j == Head(queue)
       IN  /\ mem[j].status \notin {"absent", "cancelled"}
           /\ mem[j].name \in Handled
           /\ Persist(j, mem[j], NoKey)
           /\ held' = [held EXCEPT ![w] = j]
           /\ grant' = [grant EXCEPT ![j].runs = @ + 1]
    /\ queue' = Tail(queue)
    /\ UNCHANGED <<proc, mem, timer, breaker, todo, asked, crashes, stops, purges>>

\* The job starts: running and saved before the handler is awaited.
TakeRun(w) ==
    /\ proc = "up" /\ held[w] = Idle /\ queue # <<>>
    /\ LET j   == Head(queue)
           job == Settle(mem[j], "running")
       IN  /\ mem[j].status \notin {"absent", "cancelled"}
           /\ mem[j].name \in Handled
           /\ mem' = [mem EXCEPT ![j] = job]
           /\ Persist(j, job, NoKey)
           /\ held' = [held EXCEPT ![w] = j]
           /\ grant' = [grant EXCEPT ![j].runs = @ + 1]
    /\ queue' = Tail(queue)
    /\ UNCHANGED <<proc, timer, breaker, todo, asked, crashes, stops, purges>>

\* The handler returns: completed, and the breaker of its name is reset.
Succeed(w) ==
    /\ proc = "up" /\ held[w] # Idle
    /\ LET j   == held[w]
           job == Become(mem[j], "completed")
       IN  /\ mem' = [mem EXCEPT ![j] = job]
           /\ Persist(j, job, NoKey)
           /\ breaker' = [breaker EXCEPT ![job.name] = NoBreaker]
    /\ held' = [held EXCEPT ![w] = Idle]
    /\ UNCHANGED <<proc, queue, timer, todo, grant, asked, crashes, stops, purges>>

\* A failed job that goes into backoff.
Retrying(job) ==
    [name |-> job.name, status |-> "pending", retries |-> job.retries + 1,
     max |-> job.max, retryAt |-> "set"]

\* _handle_failure after the handler raised an error or timed out: a retry
\* after a backoff while the breaker allows it and the budget lasts, else the
\* terminal status, and the caller saves it.
FailRetry(w, sig) ==
    /\ proc = "up" /\ held[w] # Idle
    /\ LET j   == held[w]
           b   == BreakerAfterFailure(breaker[mem[j].name], sig)
           job == Retrying(mem[j])
       IN  /\ b.state # "open" /\ mem[j].retries < mem[j].max
           /\ breaker' = [breaker EXCEPT ![mem[j].name] = b]
           /\ mem' = [mem EXCEPT ![j] = job]
           /\ Persist(j, job, NoKey)
           /\ timer' = [timer EXCEPT ![j] = ScheduledTimer(@)]
    /\ held' = [held EXCEPT ![w] = Idle]
    /\ UNCHANGED <<proc, queue, todo, grant, asked, crashes, stops, purges>>

FailTerminal(w, sig) ==
    /\ proc = "up" /\ held[w] # Idle
    /\ LET j   == held[w]
           b   == BreakerAfterFailure(breaker[mem[j].name], sig)
           job == Become(mem[j], IF sig = TimedOut THEN "timeout" ELSE "failed")
       IN  /\ b.state = "open" \/ mem[j].retries >= mem[j].max
           /\ breaker' = [breaker EXCEPT ![mem[j].name] = b]
           /\ mem' = [mem EXCEPT ![j] = job]
           /\ Persist(j, job, NoKey)
    /\ held' = [held EXCEPT ![w] = Idle]
    /\ UNCHANGED <<proc, queue, timer, todo, grant, asked, crashes, stops, purges>>

-----------------------------------------------------------------------------
(* Delayed tasks and the clock.                                            *)

\* _delayed wakes up: back to the queue if the job still is pending.
RetryDue(j) ==
    /\ proc \in {"up", "stopped"} /\ timer[j].sleeping > 0
    /\ timer' = [timer EXCEPT ![j] = Woken(@)]
    /\ queue' = IF proc = "up" /\ mem[j].status = "pending"
                THEN Append(queue, j) ELSE queue
    /\ UNCHANGED <<proc, mem, db, held, breaker, todo, grant, asked,
                   crashes, stops, purges, faults>>

\* A cancelled _delayed gets its CancelledError and runs its "finally".
RetryCleanup(j) ==
    /\ proc \in {"up", "stopped"} /\ timer[j].cancelled > 0
    /\ timer' = [timer EXCEPT ![j] = Cleaned(@)]
    /\ UNCHANGED <<proc, mem, db, queue, held, breaker, todo, grant, asked,
                   crashes, stops, purges, faults>>

\* storm_cooldown_s has passed since the breaker opened.
CooldownElapses(n) ==
    /\ proc = "up"
    /\ breaker[n].state = "open"
    /\ breaker' = [breaker EXCEPT ![n].state = "cooled"]
    /\ UNCHANGED <<proc, mem, db, queue, held, timer, todo, grant, asked,
                   crashes, stops, purges, faults>>

-----------------------------------------------------------------------------
(* Start, recovery, stop and crash.                                        *)

\* start: the rows are read once; a read error is logged and none is handled.
start ==
    /\ proc \in {"down", "stopped"}
    /\ proc' = "recovering"
    /\ \/ /\ todo' = {j \in Jobs : HasRow(j) /\ ~InMemory(j)}
          /\ UNCHANGED faults
       \/ /\ faults < MaxFaults
          /\ todo' = {}
          /\ faults' = faults + 1
    /\ UNCHANGED <<mem, db, queue, held, timer, breaker, grant, asked,
                   crashes, stops, purges>>

\* Mutant: a crashed job keeps the status of its dead process.
RecoveredUntouched(job) == job

\* Mutant: a crashed job is always run again.
RecoveredIgnoresBudget(job) ==
    IF job.status = "running" THEN Become(job, "pending") ELSE job

\* _recover_from_db on one job: a crashed run goes back to pending while its
\* budget lasts, and fails visibly otherwise.
Recovered(job) ==
    IF job.status # "running" THEN job
    ELSE Become(job, IF job.retries >= job.max THEN "failed" ELSE "pending")

\* One row of _recover_from_db.  A pending job whose next_retry_at is set goes
\* to sleep if that time is still ahead, and to the queue if it has passed.
RecoverRow(j) ==
    /\ proc = "recovering" /\ j \in todo
    /\ todo' = todo \ {j}
    /\ LET row == db[j].job
           job == Recovered(row)
       IN  /\ mem' = [mem EXCEPT ![j] = job]
           /\ IF job # row THEN Persist(j, job, NoKey) ELSE UNCHANGED <<db, faults>>
           /\ \/ /\ job.status = "pending" /\ job.retryAt = "set"
                 /\ timer' = [timer EXCEPT ![j] = ScheduledTimer(@)]
                 /\ UNCHANGED queue
              \/ /\ job.status = "pending"
                 /\ queue' = Append(queue, j)
                 /\ UNCHANGED timer
              \/ /\ job.status # "pending"
                 /\ UNCHANGED <<queue, timer>>
    /\ UNCHANGED <<proc, held, breaker, grant, asked, crashes, stops, purges>>

\* The worker tasks are created.
Started ==
    /\ proc = "recovering" /\ todo = {}
    /\ proc' = "up"
    /\ UNCHANGED <<mem, db, queue, held, timer, breaker, todo, grant, asked,
                   crashes, stops, purges, faults>>

\* stop: the workers are cancelled in whatever they await (CancelledError is
\* no Exception, so a running job keeps its status), and so are the retry tasks.
stop ==
    /\ proc = "up" /\ stops < MaxStops
    /\ proc' = "stopped"
    /\ held' = [w \in Workers |-> Idle]
    /\ timer' = [j \in Jobs |-> CancelledTimer(timer[j])]
    /\ stops' = stops + 1
    /\ UNCHANGED <<mem, db, queue, breaker, todo, grant, asked, crashes, purges, faults>>

\* The process dies: only the table survives.
Crash ==
    /\ proc # "down" /\ crashes < MaxCrashes
    /\ proc' = "down"
    /\ mem' = [j \in Jobs |-> NoJob]
    /\ queue' = <<>>
    /\ held' = [w \in Workers |-> Idle]
    /\ timer' = [j \in Jobs |-> NoTimer]
    /\ breaker' = [n \in Names |-> NoBreaker]
    /\ todo' = {}
    /\ crashes' = crashes + 1
    /\ UNCHANGED <<db, grant, asked, stops, purges, faults>>

-----------------------------------------------------------------------------
Init ==
    /\ proc = "down"
    /\ mem = [j \in Jobs |-> NoJob]
    /\ db = [j \in Jobs |-> NoRow]
    /\ queue = <<>>
    /\ held = [w \in Workers |-> Idle]
    /\ timer = [j \in Jobs |-> NoTimer]
    /\ breaker = [n \in Names |-> NoBreaker]
    /\ todo = {}
    /\ grant = [j \in Jobs |-> [kind |-> "none", runs |-> 0]]
    /\ asked = [j \in Jobs |-> NoKey]
    /\ crashes = 0 /\ stops = 0 /\ purges = 0 /\ faults = 0

Request(j) ==
    \/ \E n \in Names, m \in Budgets, k \in Keys \cup {NoKey} : submit(j, n, m, k)
    \/ get(j)
    \/ cancel(j)
    \/ requeue(j)

Purging == \E S \in SUBSET Jobs, sts \in {{s} : s \in Live \cup Terminal} \cup {JobStatus} :
              purge(sts, S)

Take(w) == TakeSkipped(w) \/ TakeUnhandled(w) \/ TakeRun(w)

Finish(w) ==
    \/ Succeed(w)
    \/ \E sig \in Errors \cup {TimedOut} : FailRetry(w, sig) \/ FailTerminal(w, sig)

Delayed(j) == RetryDue(j) \/ RetryCleanup(j)

Boot == start \/ (\E j \in Jobs : RecoverRow(j)) \/ Started

Next ==
    \/ \E j \in Jobs : Request(j) \/ Delayed(j)
    \/ Purging
    \/ \E w \in Workers : Take(w) \/ Finish(w)
    \/ \E n \in Names : CooldownElapses(n)
    \/ Boot \/ stop \/ Crash

Spec == Init /\ [][Next]_vars

\* The event loop runs every ready task, a handler ends because wait_for
\* limits it, and a process that is down is started again.
Fairness ==
    /\ \A w \in Workers : WF_vars(Take(w)) /\ WF_vars(Finish(w))
    /\ \A j \in Jobs : WF_vars(RetryDue(j))
    /\ WF_vars(Boot)

FairSpec == Spec /\ Fairness

-----------------------------------------------------------------------------
(* Properties.                                                             *)

\* The types of the variables: jobs and rows as the Job class, the asyncio queue
\* of ids, at most one entry per job in _retry_tasks.
TypeOK ==
    /\ proc \in {"down", "recovering", "up", "stopped"}
    /\ mem \in [Jobs -> Job]
    /\ db \in [Jobs -> Row]
    /\ queue \in Seq(Jobs)
    /\ held \in [Workers -> Jobs \cup {Idle}]
    /\ timer \in [Jobs -> Timer]
    /\ breaker \in [Names -> Breaker]
    /\ todo \in SUBSET Jobs
    /\ grant \in [Jobs -> Grant]
    /\ asked \in [Jobs -> Keys \cup {NoKey}]
    /\ crashes \in Nat /\ stops \in Nat /\ purges \in Nat /\ faults \in Nat

\* While the process works and nothing was stopped or failed to be read, every
\* unfinished job is somewhere it will be picked up: a pending one in the queue
\* or in a retry task, a running one with a worker ("stale recovery" of
\* _recover_from_db and the delayed retries of _handle_failure lose none).
NoJobForgotten ==
    proc = "up" /\ stops = 0 /\ faults = 0 =>
        \A j \in Jobs :
            /\ mem[j].status = "pending" => Queued(j) \/ timer[j].sleeping > 0
            /\ mem[j].status = "running" => HeldBy(j) # {}

\* Write-through: without SQLite errors the row of a job equals the job, so a
\* crash at any point loses no status, retry count or budget; and unless rows
\* were purged every submitted job has a row that still carries its key.
WriteThrough ==
    faults = 0 =>
        \A j \in Jobs :
            /\ InMemory(j) /\ HasRow(j) => db[j].job = mem[j]
            /\ purges = 0 /\ grant[j].kind # "none" => HasRow(j) /\ db[j].key = asked[j]

\* The comment of _schedule_retry: cancel() and stop() reach the retry task of a
\* job.  Every sleeping task is the one in _retry_tasks, at most one per job,
\* and its job waits for nothing else, so no wake-up queues a job twice.
RetryTaskTracked ==
    \A j \in Jobs :
        /\ timer[j].sleeping = timer[j].tracked
        /\ timer[j].tracked = 1 => mem[j].status = "pending" /\ ~Queued(j) /\ HeldBy(j) = {}

\* A job that was handed out once (submitted, or requeued when nothing of it was
\* left over) is never executed by two workers at once, and a worker that
\* executes it finds it running when the handler returns.
OneWorkerPerJob ==
    \A j \in Jobs : grant[j].kind # "overlap" =>
        \A w \in HeldBy(j) :
            /\ HeldBy(j) = {w}
            /\ mem[j].status = "running" /\ ~Queued(j) /\ timer[j].sleeping = 0

\* The retry budget counts executions.  A submitted job starts at most once more
\* than it was retried or interrupted by a crash; a job requeued with nothing
\* left over starts at most once, whatever crashes (_recover_from_db fails it).
ExecutionBudget ==
    faults = 0 =>
        \A j \in Jobs : grant[j].kind # "overlap" /\ InMemory(j) =>
            /\ mem[j].retries <= mem[j].max
            /\ grant[j].runs <= 1 + (IF grant[j].kind = "requeue" THEN 0
                                    ELSE mem[j].retries + crashes)

\* requeue's docstring: the grant is exactly one execution, for any requeue.
RequeueRunsOnce ==
    \A j \in Jobs : grant[j].kind \in {"requeue", "overlap"} => grant[j].runs <= 1

\* submit's docstring: a key with a pending or running job creates no other job
\* (jobs a user requeued aside, which submit does not see coming), as long as the
\* table submit looks into is complete: no row purged, no write lost.
LiveKeysDistinct ==
    purges = 0 /\ faults = 0 =>
        \A j, k \in Jobs :
            /\ j # k /\ asked[j] = asked[k] /\ asked[j] # NoKey
            /\ grant[j].kind = "submit" /\ grant[k].kind = "submit"
            => mem[j].status \notin Live \/ mem[k].status \notin Live

\* The storm breaker: a retry is scheduled only when the breaker of the name was
\* closed or cooled down, and never by the failure that completes a storm.
StormSuppressesRetries ==
    [][\A j \in Jobs :
          InMemory(j) /\ mem'[j].retries > mem[j].retries =>
             LET n == mem[j].name
             IN  /\ breaker[n].state # "open"
                 /\ breaker'[n].state # "open" /\ breaker'[n].count < StormWindow]_vars

\* Every job in the table ends, through retries, cancellations and crashes with
\* recovery, unless the queue is stopped (nobody takes up what it leaves) or a
\* write was lost (the row is then older than the job).
EveryJobEnds ==
    \A j \in Jobs :
        db[j].job.status \in Live
            ~> db[j].job.status \notin Live \/ stops > 0 \/ faults > 0

\* What the table shows of a job, and the jobs that the lifecycle does not bind.
LedgerEntry(job) == [status |-> job.status, retries |-> job.retries, max |-> job.max]
Loose == {j \in Jobs : grant[j].kind = "overlap" \/ faults > 0 \/ purges > 0}

Lifecycle == INSTANCE JobLifecycle WITH ledger <- [j \in Jobs |-> LedgerEntry(db[j].job)],
                                        loose <- Loose

\* The queue implements its lifecycle: workers, retry tasks, cancellations, requeues,
\* crashes and recovery make of the rows only steps that JobLifecycle allows.
ImplementsLifecycle == Lifecycle!Spec
=============================================================================
