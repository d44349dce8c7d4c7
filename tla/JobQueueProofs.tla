--------------------------- MODULE JobQueueProofs ---------------------------
(***************************************************************************)
(* Proofs about JobQueue, for every number of jobs, workers and names and  *)
(* every bound.                                                            *)
(***************************************************************************)
EXTENDS JobQueue, TLAPS

\* The entry of j in the queue, if any, is the only one.
Once(q, j) == \A i, k \in 1..Len(q) : q[i] = j /\ q[k] = j => i = k

\* The budget of the job is used up: a failure of it schedules no retry.
Spent(j) == mem[j].retries >= mem[j].max

\* At most one of the places a job can wait or run in holds it.
Single(j) ==
    /\ Once(queue, j)
    /\ Queued(j) => HeldBy(j) = {} /\ mem[j].status \in {"pending", "cancelled"}
    /\ \A w \in HeldBy(j) : HeldBy(j) = {w} /\ mem[j].status = "running"

\* The inductive invariant, for one job.
TimerInv(j) ==
    /\ timer[j].sleeping = timer[j].tracked
    /\ timer[j].tracked = 1 => mem[j].status = "pending" /\ ~Queued(j) /\ HeldBy(j) = {}
    /\ timer[j].cancelled > 0 =>
          /\ timer[j].tracked = 0
          /\ \/ Spent(j)
             \/ /\ ~Queued(j) /\ HeldBy(j) = {}
                /\ mem[j].status \in {"pending", "cancelled"}

AbsentInv(j) ==
    /\ mem[j].status = "absent" =>
          timer[j] = NoTimer /\ ~Queued(j) /\ HeldBy(j) = {}
    /\ j \in todo => mem[j].status = "absent" /\ proc = "recovering"
    /\ grant[j].kind = "none" => mem[j].status = "absent" /\ db[j].job.status = "absent"

SingleInv(j) == grant[j].kind # "overlap" \/ ~Spent(j) => Single(j)

JobInv(j) == TimerInv(j) /\ AbsentInv(j) /\ SingleInv(j)

IInv == TypeOK /\ \A j \in Jobs : JobInv(j)

-----------------------------------------------------------------------------
(* Sequences: what Append and Tail do to the entries of a job.             *)

\* Appending k adds an entry of k and leaves the entries of other jobs alone.
LEMMA AppendOccurs ==
    ASSUME NEW S, NEW q \in Seq(S), NEW k \in S, NEW j
    PROVE  /\ Occurs(Append(q, k), j) <=> Occurs(q, j) \/ j = k
           /\ j # k => (Once(Append(q, k), j) <=> Once(q, j))
           /\ ~Occurs(q, k) => Once(Append(q, k), k)
  BY DEF Occurs, Once

\* Taking the head removes one entry of it and leaves other jobs alone.
LEMMA TailOccurs ==
    ASSUME NEW S, NEW q \in Seq(S), q # <<>>, NEW j
    PROVE  /\ Head(q) \in S /\ Tail(q) \in Seq(S) /\ Occurs(q, Head(q))
           /\ Occurs(Tail(q), j) => Occurs(q, j)
           /\ j # Head(q) => (Occurs(q, j) => Occurs(Tail(q), j))
           /\ Once(q, j) => Once(Tail(q), j)
           /\ Once(q, Head(q)) => ~Occurs(Tail(q), Head(q))
  <1>1. Len(q) \in Nat /\ Len(q) > 0 /\ Head(q) = q[1] /\ Tail(q) \in Seq(S) /\ q[1] \in S
    OBVIOUS
  <1>2. Len(Tail(q)) = Len(q) - 1 /\ \A i \in 1..Len(Tail(q)) : Tail(q)[i] = q[i + 1]
    OBVIOUS
  <1>3. Occurs(q, Head(q))
    BY <1>1 DEF Occurs
  <1>4. Occurs(Tail(q), j) => Occurs(q, j)
    BY <1>1, <1>2 DEF Occurs
  <1>5. ASSUME j # Head(q), Occurs(q, j) PROVE Occurs(Tail(q), j)
    <2>1. PICK i \in 1..Len(q) : q[i] = j
      BY <1>5 DEF Occurs
    <2>2. i # 1 /\ i - 1 \in 1..Len(Tail(q)) /\ Tail(q)[i - 1] = j
      BY <2>1, <1>5, <1>1, <1>2
    <2> QED BY <2>2 DEF Occurs
  <1>6. Once(q, j) => Once(Tail(q), j)
    BY <1>1, <1>2 DEF Once
  <1>7. Once(q, Head(q)) => ~Occurs(Tail(q), Head(q))
    <2> SUFFICES ASSUME Once(q, Head(q)), NEW i \in 1..Len(Tail(q)), Tail(q)[i] = Head(q)
                 PROVE  FALSE
      BY DEF Occurs
    <2>1. i + 1 \in 1..Len(q) /\ 1 \in 1..Len(q) /\ q[i + 1] = Head(q) /\ q[1] = Head(q)
      BY <1>1, <1>2
    <2> QED BY <2>1 DEF Once
  <1> QED BY <1>1, <1>3, <1>4, <1>5, <1>6, <1>7

-----------------------------------------------------------------------------
(* Type correctness of the building blocks.                                *)

\* The empty dictionary entry, row, task and breaker are of their types.
LEMMA EmptyTypes ==
    NoJob \in Job /\ NoRow \in Row /\ NoTimer \in Timer /\ NoBreaker \in Breaker
  <1>1. (CHOOSE n \in Names : TRUE) \in Names
    BY ConstantAssumption
  <1>2. NoJob \in Job
    BY <1>1 DEF NoJob, Job, JobStatus
  <1> QED BY <1>2 DEF NoRow, Row, NoTimer, Timer, NoBreaker, Breaker

\* _persist writes one row at most, and what it writes is the job.
LEMMA PersistRow ==
    ASSUME TypeOK, NEW j \in Jobs, NEW job \in Job, NEW key \in Keys \cup {NoKey},
           Persist(j, job, key)
    PROVE  /\ db' \in [Jobs -> Row] /\ faults' \in Nat
           /\ \A k \in Jobs : k # j => db'[k] = db[k]
           /\ \/ faults' = faults /\ db'[j].job = job
                /\ db'[j].key = (IF key # NoKey THEN key ELSE db[j].key)
              \/ faults' = faults + 1 /\ db' = db
  <1>1. db[j].key \in Keys \cup {NoKey}
    BY DEF TypeOK, Row
  <1>2. CASE /\ db' = [db EXCEPT ![j] = [job |-> job, key |-> IF key # NoKey THEN key ELSE @.key]]
             /\ faults' = faults
    <2>1. [job |-> job, key |-> IF key # NoKey THEN key ELSE db[j].key] \in Row
      BY <1>1 DEF Row
    <2> QED BY <1>2, <2>1 DEF TypeOK
  <1>3. CASE faults' = faults + 1 /\ db' = db
    BY <1>3 DEF TypeOK
  <1> QED BY <1>2, <1>3 DEF Persist

\* What the operations of _retry_tasks make of the tasks of one job.
LEMMA TimerOps ==
    ASSUME NEW t \in Timer, t.sleeping = t.tracked
    PROVE  /\ CancelledTimer(t) \in Timer
           /\ CancelledTimer(t).sleeping = 0 /\ CancelledTimer(t).tracked = 0
           /\ CancelledTimer(t).cancelled > 0 => t.cancelled > 0 \/ t.tracked = 1
           /\ ScheduledTimer(t) \in Timer
           /\ ScheduledTimer(t).sleeping = 1 /\ ScheduledTimer(t).tracked = 1
           /\ ScheduledTimer(t).cancelled = CancelledTimer(t).cancelled
           /\ t.sleeping > 0 => /\ t.tracked = 1 /\ Woken(t) \in Timer
                                /\ Woken(t).sleeping = 0 /\ Woken(t).tracked = 0
                                /\ Woken(t).cancelled = t.cancelled
           /\ t.cancelled > 0 /\ t.tracked = 0 =>
                 /\ Cleaned(t) \in Timer
                 /\ Cleaned(t).sleeping = 0 /\ Cleaned(t).tracked = 0
  <1>1. t.sleeping \in Nat /\ t.cancelled \in Nat /\ t.tracked \in 0..1
    BY DEF Timer
  <1>2. /\ CancelledTimer(t) \in Timer
        /\ CancelledTimer(t).sleeping = 0 /\ CancelledTimer(t).tracked = 0
        /\ CancelledTimer(t).cancelled = t.cancelled + t.tracked
    BY <1>1 DEF Timer, CancelledTimer
  <1>3. /\ ScheduledTimer(t) \in Timer
        /\ ScheduledTimer(t).sleeping = 1 /\ ScheduledTimer(t).tracked = 1
        /\ ScheduledTimer(t).cancelled = CancelledTimer(t).cancelled
    BY <1>1, <1>2 DEF Timer, ScheduledTimer
  <1>4. t.sleeping > 0 => /\ Woken(t) \in Timer
                          /\ Woken(t).sleeping = 0 /\ Woken(t).tracked = 0
                          /\ Woken(t).cancelled = t.cancelled
    BY <1>1 DEF Timer, Woken
  <1>5. t.cancelled > 0 /\ t.tracked = 0 =>
           Cleaned(t) \in Timer /\ Cleaned(t).sleeping = 0 /\ Cleaned(t).tracked = 0
    BY <1>1 DEF Timer, Cleaned
  <1> QED BY <1>1, <1>2, <1>3, <1>4, <1>5

\* _breaker_record_failure returns an entry.
LEMMA BreakerType ==
    ASSUME NEW b \in Breaker, NEW sig \in Errors \cup {TimedOut}
    PROVE  BreakerAfterFailure(b, sig) \in Breaker
  BY ConstantAssumption DEF Breaker, BreakerAfterFailure

\* The jobs the handlers write are jobs.
LEMMA JobOps ==
    ASSUME NEW job \in Job, NEW status \in JobStatus
    PROVE  /\ Become(job, status) \in Job /\ Become(job, status).status = status
           /\ Become(job, status).retries = job.retries /\ Become(job, status).max = job.max
           /\ Become(job, status).name = job.name
           /\ Settle(job, status) \in Job /\ Settle(job, status).status = status
           /\ Settle(job, status).retries = job.retries /\ Settle(job, status).max = job.max
           /\ Requeued(job) \in Job /\ Requeued(job).status = "pending"
           /\ Requeued(job).retries = Requeued(job).max
           /\ Retrying(job) \in Job /\ Retrying(job).status = "pending"
           /\ Recovered(job) \in Job /\ Recovered(job).status # "running"
           /\ job.retries \in Nat /\ job.max \in Nat
  <1>1. job.name \in Names /\ job.retries \in Nat /\ job.max \in Nat
    BY DEF Job
  <1>2. \A st \in JobStatus :
           /\ Become(job, st) \in Job /\ Become(job, st).status = st
           /\ Become(job, st).retries = job.retries /\ Become(job, st).max = job.max
           /\ Become(job, st).name = job.name
    BY DEF Job, Become
  <1>3. /\ Settle(job, status) \in Job /\ Settle(job, status).status = status
        /\ Settle(job, status).retries = job.retries /\ Settle(job, status).max = job.max
    BY <1>1 DEF Job, Settle
  <1>4. /\ Requeued(job) \in Job /\ Requeued(job).status = "pending"
        /\ Requeued(job).retries = Requeued(job).max
    BY <1>1 DEF Job, Requeued, JobStatus, Live
  <1>5. Retrying(job) \in Job /\ Retrying(job).status = "pending"
    BY <1>1 DEF Job, Retrying, JobStatus, Live
  <1>6. "failed" \in JobStatus /\ "pending" \in JobStatus
    BY DEF JobStatus, Live, Terminal, Failures
  <1>7. Recovered(job) \in Job /\ Recovered(job).status # "running"
    BY <1>2, <1>6 DEF Recovered
  <1> QED BY <1>1, <1>2, <1>3, <1>4, <1>5, <1>7

-----------------------------------------------------------------------------
(* The step.  An action changes one job; the others are framed.            *)

\* Nothing of k changes, but an entry in the queue or a worker may let go of it.
Same(k) ==
    /\ mem'[k] = mem[k] /\ timer'[k] = timer[k] /\ grant'[k].kind = grant[k].kind
    /\ db[k].job.status = "absent" => db'[k].job.status = "absent"
    /\ Occurs(queue', k) => Occurs(queue, k)
    /\ Once(queue, k) => Once(queue', k)
    /\ \A w \in Workers : held'[w] = k => held[w] = k
    /\ k \in todo' => k \in todo /\ proc' = proc

\* A job that an action does not touch keeps its invariant.
LEMMA Frame ==
    ASSUME NEW k \in Jobs, JobInv(k), Same(k)
    PROVE  JobInv(k)'
  <1>1. HeldBy(k)' \subseteq HeldBy(k)
    BY DEF Same, HeldBy
  <1>2. Queued(k)' => Queued(k)
    BY DEF Same, Queued
  <1>3. Spent(k)' <=> Spent(k)
    BY DEF Same, Spent
  <1>4. TimerInv(k)'
    BY <1>1, <1>2, <1>3 DEF JobInv, TimerInv, Same
  <1>5. AbsentInv(k)'
    BY <1>1, <1>2 DEF JobInv, AbsentInv, Same
  <1>6. SingleInv(k)'
    BY <1>1, <1>2, <1>3 DEF JobInv, SingleInv, Single, Same
  <1> QED BY <1>4, <1>5, <1>6 DEF JobInv

\* submit
LEMMA SubmitStep ==
    ASSUME IInv, NEW j \in Jobs, NEW n \in Names, NEW m \in Budgets,
           NEW key \in Keys \cup {NoKey}, submit(j, n, m, key)
    PROVE  IInv'
  <1> DEFINE job == [name |-> n, status |-> "pending", retries |-> 0, max |-> m, retryAt |-> "unset"]
  <1>1. TypeOK /\ \A k \in Jobs : JobInv(k)
    BY DEF IInv
  <1>2. job \in Job
    BY ConstantAssumption DEF Job, JobStatus, Live
  <1>3. mem' = [mem EXCEPT ![j] = job] /\ Persist(j, job, key)
    BY DEF submit
  <1>4. /\ db' \in [Jobs -> Row] /\ faults' \in Nat
        /\ \A k \in Jobs : k # j => db'[k] = db[k]
    BY <1>1, <1>2, <1>3, PersistRow
  <1>5. TypeOK'
    <2>1. mem' \in [Jobs -> Job]
      BY <1>1, <1>2, <1>3 DEF TypeOK
    <2>2. grant' \in [Jobs -> Grant]
      BY <1>1 DEF TypeOK, submit, Grant
    <2>3. queue' \in Seq(Jobs) /\ asked' \in [Jobs -> Keys \cup {NoKey}]
      BY <1>1 DEF TypeOK, submit
    <2> QED BY <1>1, <1>4, <2>1, <2>2, <2>3 DEF TypeOK, submit
  <1>6. ASSUME NEW k \in Jobs, k # j PROVE JobInv(k)'
    <2>1. Same(k)
      BY <1>1, <1>3, <1>4, <1>6, AppendOccurs DEF TypeOK, submit, Same
    <2> QED BY <2>1, <1>1, Frame
  <1>7. JobInv(j)'
    <2>1. /\ mem[j].status = "absent" /\ timer[j] = NoTimer /\ ~Queued(j) /\ HeldBy(j) = {}
          /\ j \notin todo
      BY <1>1 DEF JobInv, AbsentInv, submit, Requests
    <2>2. /\ mem'[j] = job /\ timer'[j] = NoTimer /\ grant'[j].kind = "submit"
          /\ Queued(j)' /\ Once(queue', j) /\ HeldBy(j)' = {} /\ j \notin todo'
      BY <1>1, <1>3, <2>1, AppendOccurs DEF TypeOK, submit, Queued, HeldBy, Grant
    <2> QED BY <2>2 DEF JobInv, TimerInv, AbsentInv, SingleInv, Single, Spent, NoTimer
  <1> QED BY <1>5, <1>6, <1>7 DEF IInv

\* get
LEMMA GetStep ==
    ASSUME IInv, NEW j \in Jobs, get(j)
    PROVE  IInv'
  <1>1. TypeOK /\ \A k \in Jobs : JobInv(k)
    BY DEF IInv
  <1>2. db[j].job \in Job
    BY <1>1 DEF TypeOK, Row
  <1>3. TypeOK'
    BY <1>1, <1>2 DEF TypeOK, get
  <1>4. ASSUME NEW k \in Jobs, k # j PROVE JobInv(k)'
    <2>1. Same(k)
      BY <1>1, <1>4 DEF TypeOK, get, Same
    <2> QED BY <2>1, <1>1, Frame
  <1>5. JobInv(j)'
    <2>1. /\ timer[j] = NoTimer /\ ~Queued(j) /\ HeldBy(j) = {}
          /\ j \notin todo /\ grant[j].kind # "none"
      BY <1>1 DEF JobInv, AbsentInv, get, InMemory, HasRow, Requests
    <2>2. /\ mem'[j].status # "absent" /\ timer'[j] = NoTimer /\ grant' = grant
          /\ ~Queued(j)' /\ queue' = queue /\ HeldBy(j)' = {} /\ j \notin todo'
      BY <1>1, <2>1 DEF TypeOK, get, Queued, HeldBy, HasRow
    <2>3. Once(queue', j)
      BY <2>1, <2>2 DEF Once, Queued, Occurs
    <2> QED BY <2>1, <2>2, <2>3 DEF JobInv, TimerInv, AbsentInv, SingleInv, Single, NoTimer
  <1> QED BY <1>3, <1>4, <1>5 DEF IInv

\* cancel
LEMMA CancelStep ==
    ASSUME IInv, NEW j \in Jobs, cancel(j)
    PROVE  IInv'
  <1> DEFINE job == Settle(mem[j], "cancelled")
  <1>1. TypeOK /\ \A k \in Jobs : JobInv(k)
    BY DEF IInv
  <1>2. /\ job \in Job /\ job.status = "cancelled"
        /\ job.retries = mem[j].retries /\ job.max = mem[j].max
    <2>1. mem[j] \in Job /\ "cancelled" \in JobStatus
      BY <1>1 DEF TypeOK, JobStatus, Terminal, Failures
    <2> QED BY <2>1, JobOps
  <1>3. mem' = [mem EXCEPT ![j] = job] /\ Persist(j, job, NoKey)
    BY DEF cancel
  <1> HIDE DEF job
  <1>4. /\ db' \in [Jobs -> Row] /\ faults' \in Nat
        /\ \A k \in Jobs : k # j => db'[k] = db[k]
    BY <1>1, <1>2, <1>3, PersistRow
  <1>5. /\ timer[j] \in Timer /\ timer[j].sleeping = timer[j].tracked
    BY <1>1 DEF TypeOK, JobInv, TimerInv
  <1>6. TypeOK'
    <2>1. mem' \in [Jobs -> Job] /\ timer' \in [Jobs -> Timer]
      BY <1>1, <1>2, <1>3, <1>5, TimerOps DEF TypeOK, cancel
    <2> QED BY <1>1, <1>4, <2>1 DEF TypeOK, cancel
  <1>7. ASSUME NEW k \in Jobs, k # j PROVE JobInv(k)'
    <2>1. Same(k)
      BY <1>1, <1>3, <1>4, <1>7 DEF TypeOK, cancel, Same
    <2> QED BY <2>1, <1>1, Frame
  <1>8. JobInv(j)'
    <2>1. /\ mem'[j] = job /\ mem[j].status = "pending"
          /\ timer'[j] = CancelledTimer(timer[j]) /\ grant' = grant
          /\ queue' = queue /\ Queued(j)' = Queued(j) /\ HeldBy(j)' = HeldBy(j)
          /\ todo' = todo /\ proc' = proc
      BY <1>1, <1>3 DEF TypeOK, cancel, Queued, HeldBy
    <2>2. Spent(j)' <=> Spent(j)
      BY <1>2, <2>1 DEF Spent
    <2>3. TimerInv(j)'
      BY <1>1, <1>2, <1>5, <2>1, <2>2, TimerOps DEF TimerInv, JobInv
    <2>4. AbsentInv(j)'
      BY <1>1, <1>2, <2>1 DEF AbsentInv, JobInv
    <2>5. SingleInv(j)'
      BY <1>1, <1>2, <2>1, <2>2 DEF SingleInv, Single, JobInv
    <2> QED BY <2>3, <2>4, <2>5 DEF JobInv
  <1> QED BY <1>6, <1>7, <1>8 DEF IInv

\* requeue of a job in one of the three failure states
LEMMA RequeueStep ==
    ASSUME IInv, NEW j \in Jobs, requeue(j)
    PROVE  IInv'
  <1> DEFINE old == IF InMemory(j) THEN mem[j] ELSE db[j].job
  <1>1. TypeOK /\ \A k \in Jobs : JobInv(k)
    BY DEF IInv
  <1>2. old \in Job /\ mem[j] \in Job
    BY <1>1 DEF TypeOK, Row
  <1>3. /\ timer[j] \in Timer /\ timer[j].sleeping = timer[j].tracked
    BY <1>1 DEF TypeOK, JobInv, TimerInv
  <1>4. j \notin todo /\ todo' = todo /\ proc' = proc /\ held' = held /\ grant[j].kind # "none"
    BY <1>1 DEF JobInv, AbsentInv, requeue, Requests, InMemory, HasRow
  <1>5. CASE /\ old.status \in Failures
             /\ mem' = [mem EXCEPT ![j] = Requeued(old)]
             /\ Persist(j, Requeued(old), NoKey)
             /\ timer' = [timer EXCEPT ![j] = CancelledTimer(@)]
             /\ queue' = Append(queue, j)
             /\ grant' = [grant EXCEPT ![j] =
                   [kind |-> IF Queued(j) \/ HeldBy(j) # {} \/ timer[j].sleeping > 0
                             THEN "overlap" ELSE "requeue",
                    runs |-> 0]]
    <2>1. /\ Requeued(old) \in Job /\ Requeued(old).status = "pending"
          /\ Requeued(old).retries = Requeued(old).max
          /\ Requeued(old).retries \in Nat /\ Requeued(old).max \in Nat
      <3>1. "pending" \in JobStatus
        BY DEF JobStatus, Live
      <3>2. Requeued(old) \in Job
        BY <1>2, <3>1, JobOps
      <3> QED BY <1>2, <3>1, <3>2, JobOps
    <2> HIDE DEF old
    <2>2. /\ db' \in [Jobs -> Row] /\ faults' \in Nat
          /\ \A k \in Jobs : k # j => db'[k] = db[k]
      BY <1>1, <1>5, <2>1, PersistRow
    <2>3. TypeOK'
      <3>1. mem' \in [Jobs -> Job] /\ timer' \in [Jobs -> Timer]
        BY <1>1, <1>3, <1>5, <2>1, TimerOps DEF TypeOK
      <3>2. grant' \in [Jobs -> Grant]
        BY <1>1, <1>5 DEF TypeOK, Grant
      <3>3. queue' \in Seq(Jobs)
        BY <1>1, <1>5 DEF TypeOK
      <3> QED BY <1>1, <2>2, <3>1, <3>2, <3>3 DEF TypeOK, requeue
    <2>4. ASSUME NEW k \in Jobs, k # j PROVE JobInv(k)'
      <3>1. Same(k)
        BY <1>1, <1>4, <1>5, <2>2, <2>4, AppendOccurs DEF TypeOK, Same
      <3> QED BY <3>1, <1>1, Frame
    <2>5. JobInv(j)'
      <3>1. mem'[j] = Requeued(old) /\ timer'[j] = CancelledTimer(timer[j]) /\ Spent(j)'
        BY <1>1, <1>5, <2>1 DEF TypeOK, Spent
      <3>2. TimerInv(j)'
        BY <1>3, <2>1, <3>1, TimerOps DEF TimerInv
      <3>3. grant'[j].kind # "none" /\ (grant'[j].kind # "overlap" => ~Queued(j) /\ HeldBy(j) = {})
        BY <1>1, <1>5 DEF TypeOK, Grant
      <3>4. AbsentInv(j)'
        BY <1>4, <2>1, <3>1, <3>3 DEF AbsentInv
      <3>5. SingleInv(j)'
        <4>1. ~Queued(j) => Once(queue', j)
          BY <1>1, <1>5, AppendOccurs DEF TypeOK, Queued
        <4>2. HeldBy(j)' = HeldBy(j)
          BY <1>4 DEF HeldBy
        <4> QED BY <2>1, <3>1, <3>3, <4>1, <4>2 DEF SingleInv, Single
      <3> QED BY <3>2, <3>4, <3>5 DEF JobInv
    <2> QED BY <2>3, <2>4, <2>5 DEF IInv
  <1>6. CASE /\ ~InMemory(j) /\ old.status \notin Failures
             /\ mem' = [mem EXCEPT ![j] = old]
             /\ UNCHANGED <<db, faults, timer, queue, grant>>
    <2>1. TypeOK'
      BY <1>1, <1>2, <1>6 DEF TypeOK, requeue
    <2>2. ASSUME NEW k \in Jobs, k # j PROVE JobInv(k)'
      <3>1. Same(k)
        BY <1>1, <1>4, <1>6, <2>2 DEF TypeOK, Same
      <3> QED BY <3>1, <1>1, Frame
    <2>3. JobInv(j)'
      <3>1. /\ timer[j] = NoTimer /\ ~Queued(j) /\ HeldBy(j) = {} /\ old.status # "absent"
        BY <1>1, <1>6 DEF JobInv, AbsentInv, requeue, InMemory, HasRow
      <3>2. /\ mem'[j].status # "absent" /\ timer'[j] = NoTimer /\ grant' = grant
            /\ ~Queued(j)' /\ HeldBy(j)' = {} /\ j \notin todo'
        BY <1>1, <1>4, <1>6, <3>1 DEF TypeOK, Queued, HeldBy
      <3>3. Once(queue', j)
        BY <3>2 DEF Once, Queued, Occurs
      <3> QED BY <1>4, <3>2, <3>3 DEF JobInv, TimerInv, AbsentInv, SingleInv, Single, NoTimer
    <2> QED BY <2>1, <2>2, <2>3 DEF IInv
  <1> QED BY <1>5, <1>6 DEF requeue

\* purge
LEMMA PurgeStep ==
    ASSUME IInv, NEW statuses, NEW S \in SUBSET Jobs, purge(statuses, S)
    PROVE  IInv'
  <1>1. TypeOK /\ \A k \in Jobs : JobInv(k)
    BY DEF IInv
  <1>2. PICK rows : db' = [j \in Jobs |-> IF j \in rows THEN NoRow ELSE db[j]]
    BY DEF purge
  <1>3. TypeOK'
    BY <1>1, <1>2, EmptyTypes DEF TypeOK, purge
  <1>4. ASSUME NEW k \in Jobs PROVE JobInv(k)'
    <2>1. Same(k)
      BY <1>1, <1>2 DEF TypeOK, purge, Same, NoRow, NoJob
    <2> QED BY <2>1, <1>1, Frame
  <1> QED BY <1>3, <1>4 DEF IInv

\* A worker finds a cancelled job at the head of the queue.
LEMMA SkipStep ==
    ASSUME IInv, NEW w \in Workers, TakeSkipped(w)
    PROVE  IInv'
  <1>1. TypeOK /\ \A k \in Jobs : JobInv(k)
    BY DEF IInv
  <1>2. queue \in Seq(Jobs) /\ queue # <<>> /\ queue' = Tail(queue)
    BY <1>1 DEF TypeOK, TakeSkipped
  <1>3. TypeOK'
    BY <1>1, <1>2 DEF TypeOK, TakeSkipped
  <1>4. ASSUME NEW k \in Jobs PROVE JobInv(k)'
    <2>1. Same(k)
      BY <1>1, <1>2, TailOccurs DEF TypeOK, TakeSkipped, Same
    <2> QED BY <2>1, <1>1, Frame
  <1> QED BY <1>3, <1>4 DEF IInv

\* The head of the queue: where else its job can be.
LEMMA HeadFacts ==
    ASSUME IInv, queue # <<>>
    PROVE  LET j == Head(queue)
           IN  /\ j \in Jobs /\ Queued(j) /\ timer[j].tracked = 0 /\ timer[j].sleeping = 0
               /\ timer[j].cancelled > 0 => Spent(j)
               /\ mem[j].status # "absent" /\ grant[j].kind # "none"
               /\ grant[j].kind # "overlap" \/ ~Spent(j) =>
                     Once(queue, j) /\ HeldBy(j) = {} /\ ~Occurs(Tail(queue), j)
  <1> DEFINE j == Head(queue)
  <1>1. queue \in Seq(Jobs)
    BY DEF IInv, TypeOK
  <1>2. j \in Jobs /\ Queued(j)
    BY <1>1, TailOccurs DEF Queued
  <1>3. JobInv(j) /\ timer[j] \in Timer
    BY <1>2 DEF IInv, TypeOK
  <1> HIDE DEF j
  <1>4. timer[j].tracked = 0 /\ timer[j].sleeping = 0
    BY <1>2, <1>3 DEF JobInv, TimerInv, Timer
  <1>5. timer[j].cancelled > 0 => Spent(j)
    BY <1>2, <1>3 DEF JobInv, TimerInv
  <1>6. mem[j].status # "absent" /\ grant[j].kind # "none"
    BY <1>2, <1>3 DEF JobInv, AbsentInv
  <1>7. grant[j].kind # "overlap" \/ ~Spent(j) => Once(queue, j) /\ HeldBy(j) = {}
    BY <1>2, <1>3 DEF JobInv, SingleInv, Single
  <1>8. Once(queue, j) => ~Occurs(Tail(queue), j)
    BY <1>1, TailOccurs DEF j
  <1> QED BY <1>2, <1>4, <1>5, <1>6, <1>7, <1>8 DEF j

\* A job without a handler fails.
LEMMA UnhandledStep ==
    ASSUME IInv, NEW w \in Workers, TakeUnhandled(w)
    PROVE  IInv'
  <1>0. PICK j \in Jobs : j = Head(queue)
    BY HeadFacts DEF TakeUnhandled, TakeRun
  <1> DEFINE job == Become(mem[j], "failed")
  <1>1. TypeOK /\ \A k \in Jobs : JobInv(k)
    BY DEF IInv
  <1>2. /\ queue \in Seq(Jobs) /\ queue # <<>> /\ queue' = Tail(queue)
        /\ mem' = [mem EXCEPT ![j] = job] /\ Persist(j, job, NoKey)
    BY <1>0, <1>1 DEF TypeOK, TakeUnhandled
  <1>3. /\ j \in Jobs /\ Queued(j) /\ timer[j].tracked = 0 /\ timer[j].sleeping = 0
        /\ timer[j].cancelled > 0 => Spent(j)
        /\ grant[j].kind # "none"
        /\ grant[j].kind # "overlap" \/ ~Spent(j) =>
              Once(queue, j) /\ HeldBy(j) = {} /\ ~Occurs(Tail(queue), j)
    BY <1>0, <1>2, HeadFacts
  <1>4. /\ job \in Job /\ job.status = "failed"
        /\ job.retries = mem[j].retries /\ job.max = mem[j].max
    <2>1. mem[j] \in Job /\ "failed" \in JobStatus
      BY <1>1, <1>3 DEF TypeOK, JobStatus, Terminal, Failures
    <2> QED BY <2>1, JobOps
  <1> HIDE DEF job
  <1>5. /\ db' \in [Jobs -> Row] /\ faults' \in Nat
        /\ \A k \in Jobs : k # j => db'[k] = db[k]
    BY <1>1, <1>2, <1>3, <1>4, PersistRow
  <1>6. TypeOK'
    <2>1. mem' \in [Jobs -> Job] /\ queue' \in Seq(Jobs)
      BY <1>1, <1>2, <1>3, <1>4 DEF TypeOK
    <2> QED BY <1>1, <1>5, <2>1 DEF TypeOK, TakeUnhandled
  <1>7. ASSUME NEW k \in Jobs, k # j PROVE JobInv(k)'
    <2>1. Same(k)
      BY <1>1, <1>2, <1>3, <1>5, <1>7, <1>0, TailOccurs DEF TypeOK, TakeUnhandled, Same
    <2> QED BY <2>1, <1>1, Frame
  <1>8. JobInv(j)'
    <2>1. /\ mem'[j] = job /\ timer'[j] = timer[j] /\ grant' = grant
          /\ Queued(j)' <=> Occurs(Tail(queue), j)
          /\ HeldBy(j)' = HeldBy(j) /\ todo' = todo /\ proc' = proc /\ proc = "up"
      BY <1>1, <1>2, <1>3 DEF TypeOK, TakeUnhandled, Queued, HeldBy
    <2>2. Spent(j)' <=> Spent(j)
      BY <1>4, <2>1 DEF Spent
    <2>3. TimerInv(j)'
      BY <1>3, <2>1, <2>2 DEF TimerInv
    <2>4. AbsentInv(j)'
      BY <1>1, <1>3, <1>4, <2>1 DEF AbsentInv, JobInv
    <2>5. Once(queue, j) => Once(queue', j)
      BY <1>2, TailOccurs
    <2>6. SingleInv(j)'
      BY <1>3, <2>1, <2>2, <2>5 DEF SingleInv, Single
    <2> QED BY <2>3, <2>4, <2>6 DEF JobInv
  <1> QED BY <1>6, <1>7, <1>8 DEF IInv

\* A job starts.
LEMMA RunStep ==
    ASSUME IInv, NEW w \in Workers, TakeRun(w)
    PROVE  IInv'
  <1>0. PICK j \in Jobs : j = Head(queue)
    BY HeadFacts DEF TakeUnhandled, TakeRun
  <1> DEFINE job == Settle(mem[j], "running")
  <1>1. TypeOK /\ \A k \in Jobs : JobInv(k)
    BY DEF IInv
  <1>2. /\ queue \in Seq(Jobs) /\ queue # <<>> /\ queue' = Tail(queue)
        /\ mem' = [mem EXCEPT ![j] = job] /\ Persist(j, job, NoKey)
        /\ held' = [held EXCEPT ![w] = j] /\ held[w] = Idle
        /\ grant' = [grant EXCEPT ![j].runs = @ + 1]
    BY <1>0, <1>1 DEF TypeOK, TakeRun
  <1>3. /\ j \in Jobs /\ Queued(j) /\ timer[j].tracked = 0 /\ timer[j].sleeping = 0
        /\ timer[j].cancelled > 0 => Spent(j)
        /\ grant[j].kind # "none"
        /\ grant[j].kind # "overlap" \/ ~Spent(j) =>
              Once(queue, j) /\ HeldBy(j) = {} /\ ~Occurs(Tail(queue), j)
    BY <1>0, <1>2, HeadFacts
  <1>4. /\ job \in Job /\ job.status = "running"
        /\ job.retries = mem[j].retries /\ job.max = mem[j].max
    <2>1. mem[j] \in Job /\ "running" \in JobStatus
      BY <1>1, <1>3 DEF TypeOK, JobStatus, Live
    <2> QED BY <2>1, JobOps
  <1> HIDE DEF job
  <1>5. /\ db' \in [Jobs -> Row] /\ faults' \in Nat
        /\ \A k \in Jobs : k # j => db'[k] = db[k]
    BY <1>1, <1>2, <1>3, <1>4, PersistRow
  <1>6. grant' \in [Jobs -> Grant] /\ \A k \in Jobs : grant'[k].kind = grant[k].kind
    BY <1>1, <1>2, <1>3 DEF TypeOK, Grant
  <1>7. TypeOK'
    <2>1. mem' \in [Jobs -> Job] /\ queue' \in Seq(Jobs) /\ held' \in [Workers -> Jobs \cup {Idle}]
      BY <1>1, <1>2, <1>3, <1>4 DEF TypeOK
    <2> QED BY <1>1, <1>5, <1>6, <2>1 DEF TypeOK, TakeRun
  <1>8. ASSUME NEW k \in Jobs, k # j PROVE JobInv(k)'
    <2>1. Same(k)
      BY <1>1, <1>2, <1>3, <1>5, <1>6, <1>8, <1>0, TailOccurs DEF TypeOK, TakeRun, Same
    <2> QED BY <2>1, <1>1, Frame
  <1>9. JobInv(j)'
    <2>1. /\ mem'[j] = job /\ timer'[j] = timer[j] /\ grant'[j].kind = grant[j].kind
          /\ Queued(j)' <=> Occurs(Tail(queue), j)
          /\ todo' = todo /\ proc' = proc /\ proc = "up"
      BY <1>1, <1>2, <1>3, <1>6 DEF TypeOK, TakeRun, Queued
    <2>2. Spent(j)' <=> Spent(j)
      BY <1>4, <2>1 DEF Spent
    <2>3. TimerInv(j)'
      BY <1>3, <2>1, <2>2 DEF TimerInv
    <2>4. AbsentInv(j)'
      BY <1>1, <1>3, <1>4, <2>1 DEF AbsentInv, JobInv
    <2>5. HeldBy(j) = {} => HeldBy(j)' = {w}
      BY <1>1, <1>2, <1>3 DEF HeldBy, TypeOK
    <2>6. Once(queue, j) => Once(queue', j)
      BY <1>2, TailOccurs
    <2>7. SingleInv(j)'
      BY <1>3, <1>4, <2>1, <2>2, <2>5, <2>6 DEF SingleInv, Single
    <2> QED BY <2>3, <2>4, <2>7 DEF JobInv
  <1> QED BY <1>7, <1>8, <1>9 DEF IInv

\* The job a worker executes: where else it can be.
LEMMA HeldFacts ==
    ASSUME IInv, NEW w \in Workers, NEW j \in Jobs, held[w] = j
    PROVE  /\ timer[j].tracked = 0 /\ timer[j].sleeping = 0
           /\ timer[j].cancelled > 0 => Spent(j)
           /\ mem[j].status # "absent" /\ grant[j].kind # "none" /\ j \notin todo
           /\ grant[j].kind # "overlap" \/ ~Spent(j) =>
                 Once(queue, j) /\ HeldBy(j) = {w} /\ ~Queued(j)
  <1>1. JobInv(j) /\ timer[j] \in Timer
    BY DEF IInv, TypeOK
  <1>2. w \in HeldBy(j)
    BY DEF HeldBy
  <1>3. timer[j].tracked = 0 /\ timer[j].sleeping = 0
    BY <1>1, <1>2 DEF JobInv, TimerInv, Timer
  <1>4. timer[j].cancelled > 0 => Spent(j)
    BY <1>1, <1>2 DEF JobInv, TimerInv
  <1>5. mem[j].status # "absent" /\ grant[j].kind # "none" /\ j \notin todo
    BY <1>1, <1>2 DEF JobInv, AbsentInv
  <1>6. grant[j].kind # "overlap" \/ ~Spent(j) =>
           Once(queue, j) /\ HeldBy(j) = {w} /\ ~Queued(j)
    BY <1>1, <1>2 DEF JobInv, SingleInv, Single
  <1> QED BY <1>3, <1>4, <1>5, <1>6

\* A worker lets go of a job that has ended, in whatever state it did.
LEMMA EndStep ==
    ASSUME IInv, NEW w \in Workers, NEW j \in Jobs, held[w] = j,
           NEW status \in Terminal,
           mem' = [mem EXCEPT ![j] = Become(mem[j], status)],
           Persist(j, Become(mem[j], status), NoKey),
           held' = [held EXCEPT ![w] = Idle],
           breaker' \in [Names -> Breaker],
           UNCHANGED <<proc, queue, timer, todo, grant, asked, crashes, stops, purges>>
    PROVE  IInv'
  <1> DEFINE job == Become(mem[j], status)
  <1>1. TypeOK /\ \A k \in Jobs : JobInv(k)
    BY DEF IInv
  <1>2. /\ job \in Job /\ job.status = status
        /\ job.retries = mem[j].retries /\ job.max = mem[j].max
    <2>1. mem[j] \in Job /\ status \in JobStatus
      BY <1>1 DEF TypeOK, JobStatus
    <2> QED BY <2>1, JobOps
  <1>3. mem' = [mem EXCEPT ![j] = job] /\ Persist(j, job, NoKey) /\ status \notin {"absent"}
    BY DEF Terminal, Failures
  <1> HIDE DEF job
  <1>4. /\ db' \in [Jobs -> Row] /\ faults' \in Nat
        /\ \A k \in Jobs : k # j => db'[k] = db[k]
    BY <1>1, <1>2, <1>3, PersistRow
  <1>5. TypeOK'
    <2>1. mem' \in [Jobs -> Job] /\ held' \in [Workers -> Jobs \cup {Idle}]
      BY <1>1, <1>2, <1>3 DEF TypeOK
    <2> QED BY <1>1, <1>4, <2>1 DEF TypeOK
  <1>6. ASSUME NEW k \in Jobs, k # j PROVE JobInv(k)'
    <2>1. Same(k)
      BY <1>1, <1>3, <1>4, <1>6, ConstantAssumption DEF TypeOK, Same
    <2> QED BY <2>1, <1>1, Frame
  <1>7. JobInv(j)'
    <2>1. /\ mem'[j] = job /\ timer'[j] = timer[j] /\ grant' = grant
          /\ Queued(j)' <=> Queued(j)
      BY <1>1, <1>3 DEF TypeOK, Queued
    <2>2. Spent(j)' <=> Spent(j)
      BY <1>2, <2>1 DEF Spent
    <2>3. HeldBy(j) = {w} => HeldBy(j)' = {}
      BY <1>1, ConstantAssumption DEF TypeOK, HeldBy
    <2>4. TimerInv(j)'
      BY HeldFacts, <2>1, <2>2 DEF TimerInv
    <2>5. AbsentInv(j)'
      BY HeldFacts, <1>2, <1>3, <2>1 DEF AbsentInv
    <2>6. SingleInv(j)'
      BY HeldFacts, <2>1, <2>2, <2>3 DEF SingleInv, Single
    <2> QED BY <2>4, <2>5, <2>6 DEF JobInv
  <1> QED BY <1>5, <1>6, <1>7 DEF IInv

\* The handler returned.
LEMMA SucceedStep ==
    ASSUME IInv, NEW w \in Workers, Succeed(w)
    PROVE  IInv'
  <1>1. PICK j \in Jobs : held[w] = j
    BY DEF IInv, TypeOK, Succeed
  <1>2. /\ mem' = [mem EXCEPT ![j] = Become(mem[j], "completed")]
        /\ Persist(j, Become(mem[j], "completed"), NoKey)
        /\ "completed" \in Terminal
    BY <1>1 DEF Succeed, Terminal
  <1>3. breaker' \in [Names -> Breaker]
    BY EmptyTypes DEF Succeed, IInv, TypeOK
  <1> QED BY <1>1, <1>2, <1>3, EndStep DEF Succeed

\* The handler failed for the last time.
LEMMA FailTerminalStep ==
    ASSUME IInv, NEW w \in Workers, NEW sig \in Errors \cup {TimedOut}, FailTerminal(w, sig)
    PROVE  IInv'
  <1>1. PICK j \in Jobs : held[w] = j
    BY DEF IInv, TypeOK, FailTerminal
  <1>2. PICK status \in Terminal : status = IF sig = TimedOut THEN "timeout" ELSE "failed"
    BY DEF Terminal, Failures
  <1>3. /\ mem' = [mem EXCEPT ![j] = Become(mem[j], status)]
        /\ Persist(j, Become(mem[j], status), NoKey)
    BY <1>1, <1>2 DEF FailTerminal
  <1>4. breaker' \in [Names -> Breaker]
    <2>1. mem[j].name \in Names /\ breaker[mem[j].name] \in Breaker
      BY DEF IInv, TypeOK, Job
    <2>2. BreakerAfterFailure(breaker[mem[j].name], sig) \in Breaker
      BY <2>1, BreakerType
    <2> QED BY <1>1, <2>2 DEF FailTerminal, IInv, TypeOK
  <1> QED BY <1>1, <1>3, <1>4, EndStep DEF FailTerminal

\* The handler failed and a retry is scheduled: the budget is not spent, so no
\* second queue entry, worker or task of this job can exist.
LEMMA FailRetryStep ==
    ASSUME IInv, NEW w \in Workers, NEW sig \in Errors \cup {TimedOut}, FailRetry(w, sig)
    PROVE  IInv'
  <1>1. TypeOK /\ \A k \in Jobs : JobInv(k)
    BY DEF IInv
  <1>2. PICK j \in Jobs : held[w] = j
    BY <1>1 DEF TypeOK, FailRetry
  <1> DEFINE job == Retrying(mem[j])
  <1>3. /\ mem' = [mem EXCEPT ![j] = job] /\ Persist(j, job, NoKey)
        /\ timer' = [timer EXCEPT ![j] = ScheduledTimer(@)]
        /\ held' = [held EXCEPT ![w] = Idle] /\ mem[j].retries < mem[j].max
    BY <1>2 DEF FailRetry
  <1>4. job \in Job /\ job.status = "pending" /\ ~Spent(j)
    <2>1. mem[j] \in Job /\ "pending" \in JobStatus
      BY <1>1 DEF TypeOK, JobStatus, Live
    <2>2. mem[j].retries \in Nat /\ mem[j].max \in Nat
      BY <2>1, JobOps
    <2>3. ~Spent(j)
      BY <1>3, <2>2 DEF Spent
    <2>4. job \in Job /\ job.status = "pending"
      BY <2>1, JobOps
    <2> QED BY <2>3, <2>4
  <1> HIDE DEF job
  <1>5. /\ db' \in [Jobs -> Row] /\ faults' \in Nat
        /\ \A k \in Jobs : k # j => db'[k] = db[k]
    BY <1>1, <1>3, <1>4, PersistRow
  <1>6. /\ timer[j] \in Timer /\ timer[j].sleeping = timer[j].tracked
        /\ timer[j].tracked = 0 /\ ~(timer[j].cancelled > 0)
        /\ Once(queue, j) /\ HeldBy(j) = {w} /\ ~Queued(j)
        /\ grant[j].kind # "none" /\ j \notin todo
    BY <1>1, <1>2, <1>4, HeldFacts DEF TypeOK
  <1>7. /\ ScheduledTimer(timer[j]) \in Timer
        /\ ScheduledTimer(timer[j]).sleeping = 1 /\ ScheduledTimer(timer[j]).tracked = 1
        /\ ~(ScheduledTimer(timer[j]).cancelled > 0)
    BY <1>6, TimerOps
  <1>8. TypeOK'
    <2>1. /\ mem' \in [Jobs -> Job] /\ held' \in [Workers -> Jobs \cup {Idle}]
          /\ timer' \in [Jobs -> Timer]
      BY <1>1, <1>3, <1>4, <1>7 DEF TypeOK
    <2>2. breaker' \in [Names -> Breaker]
      <3>1. mem[j].name \in Names /\ breaker[mem[j].name] \in Breaker
        BY <1>1 DEF TypeOK, Job
      <3>2. BreakerAfterFailure(breaker[mem[j].name], sig) \in Breaker
        BY <3>1, BreakerType
      <3> QED BY <1>1, <1>2, <3>2 DEF FailRetry, TypeOK
    <2> QED BY <1>1, <1>5, <2>1, <2>2 DEF TypeOK, FailRetry
  <1>9. ASSUME NEW k \in Jobs, k # j PROVE JobInv(k)'
    <2>1. Same(k)
      BY <1>1, <1>3, <1>5, <1>9, ConstantAssumption DEF TypeOK, FailRetry, Same
    <2> QED BY <2>1, <1>1, Frame
  <1>10. JobInv(j)'
    <2>1. /\ mem'[j] = job /\ timer'[j] = ScheduledTimer(timer[j]) /\ grant' = grant
          /\ (Queued(j)' <=> Queued(j)) /\ queue' = queue /\ todo' = todo
      BY <1>1, <1>3 DEF TypeOK, Queued, FailRetry
    <2>2. HeldBy(j)' = {}
      BY <1>1, <1>3, <1>6, ConstantAssumption DEF TypeOK, HeldBy
    <2>3. TimerInv(j)'
      BY <1>4, <1>6, <1>7, <2>1, <2>2 DEF TimerInv
    <2>4. AbsentInv(j)'
      BY <1>4, <1>6, <2>1 DEF AbsentInv
    <2>5. SingleInv(j)'
      BY <1>6, <2>1, <2>2 DEF SingleInv, Single
    <2> QED BY <2>3, <2>4, <2>5 DEF JobInv
  <1> QED BY <1>8, <1>9, <1>10 DEF IInv

\* A retry task wakes up: its job is pending and nowhere else.
LEMMA RetryDueStep ==
    ASSUME IInv, NEW j \in Jobs, RetryDue(j)
    PROVE  IInv'
  <1>1. TypeOK /\ \A k \in Jobs : JobInv(k)
    BY DEF IInv
  <1>2. /\ timer' = [timer EXCEPT ![j] = Woken(@)]
        /\ queue' = queue \/ queue' = Append(queue, j)
        /\ timer[j].sleeping > 0
    BY DEF RetryDue
  <1>3. /\ timer[j] \in Timer /\ timer[j].sleeping = timer[j].tracked
    BY <1>1 DEF TypeOK, JobInv, TimerInv
  <1>4. /\ timer[j].tracked = 1 /\ Woken(timer[j]) \in Timer
        /\ Woken(timer[j]).sleeping = 0 /\ Woken(timer[j]).tracked = 0
        /\ Woken(timer[j]).cancelled = timer[j].cancelled
    BY <1>2, <1>3, TimerOps
  <1>5. /\ mem[j].status = "pending" /\ ~Queued(j) /\ HeldBy(j) = {}
        /\ ~(timer[j].cancelled > 0) /\ grant[j].kind # "none" /\ j \notin todo
    BY <1>1, <1>4 DEF JobInv, TimerInv, AbsentInv
  <1>6. TypeOK'
    <2>1. timer' \in [Jobs -> Timer] /\ queue' \in Seq(Jobs)
      BY <1>1, <1>2, <1>4 DEF TypeOK
    <2> QED BY <1>1, <2>1 DEF TypeOK, RetryDue
  <1>7. ASSUME NEW k \in Jobs, k # j PROVE JobInv(k)'
    <2>1. (Occurs(queue', k) => Occurs(queue, k)) /\ (Once(queue, k) => Once(queue', k))
      <3>1. CASE queue' = queue
        BY <3>1
      <3>2. CASE queue' = Append(queue, j)
        BY <1>1, <1>7, <3>2, AppendOccurs DEF TypeOK
      <3> QED BY <1>2, <3>1, <3>2
    <2>2. Same(k)
      BY <1>1, <1>2, <1>7, <2>1 DEF TypeOK, RetryDue, Same
    <2> QED BY <2>2, <1>1, Frame
  <1>8. JobInv(j)'
    <2>1. /\ mem' = mem /\ timer'[j] = Woken(timer[j]) /\ grant' = grant /\ todo' = todo
          /\ HeldBy(j)' = HeldBy(j)
      BY <1>1, <1>2 DEF TypeOK, RetryDue, HeldBy
    <2>2. Once(queue', j)
      <3>1. Once(queue, j)
        BY <1>5 DEF Once, Queued, Occurs
      <3>2. CASE queue' = Append(queue, j)
        BY <1>1, <1>5, <3>2, AppendOccurs DEF TypeOK, Queued
      <3> QED BY <1>2, <3>1, <3>2
    <2>3. TimerInv(j)'
      BY <1>4, <1>5, <2>1 DEF TimerInv
    <2>4. AbsentInv(j)'
      BY <1>5, <2>1 DEF AbsentInv
    <2>5. SingleInv(j)'
      BY <1>5, <2>1, <2>2 DEF SingleInv, Single
    <2> QED BY <2>3, <2>4, <2>5 DEF JobInv
  <1> QED BY <1>6, <1>7, <1>8 DEF IInv

\* A cancelled retry task ends: its "finally" finds no entry to pop.
LEMMA RetryCleanupStep ==
    ASSUME IInv, NEW j \in Jobs, RetryCleanup(j)
    PROVE  IInv'
  <1>1. TypeOK /\ \A k \in Jobs : JobInv(k)
    BY DEF IInv
  <1>2. timer' = [timer EXCEPT ![j] = Cleaned(@)] /\ timer[j].cancelled > 0
    BY DEF RetryCleanup
  <1>3. /\ timer[j] \in Timer /\ timer[j].sleeping = timer[j].tracked /\ timer[j].tracked = 0
        /\ \/ Spent(j)
           \/ /\ ~Queued(j) /\ HeldBy(j) = {}
              /\ mem[j].status \in {"pending", "cancelled"}
        /\ mem[j].status # "absent"
    BY <1>1, <1>2 DEF TypeOK, JobInv, TimerInv, AbsentInv, NoTimer
  <1>4. Cleaned(timer[j]) \in Timer /\ Cleaned(timer[j]).sleeping = 0 /\ Cleaned(timer[j]).tracked = 0
    BY <1>2, <1>3, TimerOps
  <1>5. TypeOK'
    BY <1>1, <1>2, <1>4 DEF TypeOK, RetryCleanup
  <1>6. ASSUME NEW k \in Jobs, k # j PROVE JobInv(k)'
    <2>1. Same(k)
      BY <1>1, <1>2, <1>6 DEF TypeOK, RetryCleanup, Same
    <2> QED BY <2>1, <1>1, Frame
  <1>7. JobInv(j)'
    <2>1. /\ mem' = mem /\ timer'[j] = Cleaned(timer[j]) /\ grant' = grant /\ todo' = todo
          /\ proc' = proc /\ db' = db /\ queue' = queue /\ held' = held
      BY <1>1, <1>2 DEF TypeOK, RetryCleanup
    <2>2. HeldBy(j)' = HeldBy(j) /\ (Queued(j)' <=> Queued(j)) /\ (Spent(j)' <=> Spent(j))
      BY <2>1 DEF HeldBy, Queued, Spent
    <2>3. TimerInv(j)'
      BY <1>3, <1>4, <2>1, <2>2 DEF TimerInv
    <2>4. AbsentInv(j)'
      BY <1>1, <1>3, <2>1 DEF AbsentInv, JobInv
    <2>5. SingleInv(j)'
      BY <1>1, <2>1, <2>2 DEF SingleInv, Single, JobInv
    <2> QED BY <2>3, <2>4, <2>5 DEF JobInv
  <1> QED BY <1>5, <1>6, <1>7 DEF IInv

\* A breaker cools down.
LEMMA CooldownStep ==
    ASSUME IInv, NEW n \in Names, CooldownElapses(n)
    PROVE  IInv'
  <1>1. TypeOK /\ \A k \in Jobs : JobInv(k)
    BY DEF IInv
  <1>2. TypeOK'
    BY <1>1 DEF TypeOK, CooldownElapses, Breaker
  <1>3. ASSUME NEW k \in Jobs PROVE JobInv(k)'
    <2>1. Same(k)
      BY DEF CooldownElapses, Same
    <2> QED BY <2>1, <1>1, Frame
  <1> QED BY <1>2, <1>3 DEF IInv

\* start reads the rows of the jobs that are not in memory.
LEMMA StartStep ==
    ASSUME IInv, start
    PROVE  IInv'
  <1>1. TypeOK /\ \A k \in Jobs : JobInv(k)
    BY DEF IInv
  <1>2. TypeOK' /\ \A k \in Jobs : k \in todo' => mem[k].status = "absent"
    BY <1>1 DEF TypeOK, start, InMemory
  <1>3. ASSUME NEW k \in Jobs PROVE JobInv(k)'
    <2>1. mem' = mem /\ timer' = timer /\ grant' = grant /\ db' = db /\ queue' = queue /\ held' = held
          /\ proc' = "recovering"
      BY DEF start
    <2>2. HeldBy(k)' = HeldBy(k) /\ (Queued(k)' <=> Queued(k)) /\ (Spent(k)' <=> Spent(k))
      BY <2>1 DEF HeldBy, Queued, Spent
    <2>3. TimerInv(k)' /\ AbsentInv(k)'
      BY <1>1, <1>2, <2>1, <2>2 DEF TimerInv, AbsentInv, JobInv
    <2>4. SingleInv(k)'
      BY <1>1, <2>1, <2>2 DEF SingleInv, Single, JobInv
    <2> QED BY <2>3, <2>4 DEF JobInv
  <1> QED BY <1>2, <1>3 DEF IInv

\* One row of the recovery: nothing of its job is around yet.
LEMMA RecoverRowStep ==
    ASSUME IInv, NEW j \in Jobs, RecoverRow(j)
    PROVE  IInv'
  <1> DEFINE job == Recovered(db[j].job)
  <1>1. TypeOK /\ \A k \in Jobs : JobInv(k)
    BY DEF IInv
  <1>2. db[j].job \in Job
    BY <1>1 DEF TypeOK, Row
  <1>3. job \in Job
    <2>1. "pending" \in JobStatus
      BY DEF JobStatus, Live
    <2> QED BY <1>2, <2>1, JobOps
  <1>4. /\ mem[j].status = "absent" /\ timer[j] = NoTimer /\ ~Queued(j) /\ HeldBy(j) = {}
        /\ timer[j] \in Timer /\ timer[j].sleeping = timer[j].tracked
        /\ timer[j].tracked = 0 /\ ~(timer[j].cancelled > 0)
    BY <1>1 DEF JobInv, AbsentInv, RecoverRow, NoTimer, TypeOK
  <1>5. grant[j].kind = "none" => db[j].job.status = "absent" /\ job = db[j].job
    BY <1>1 DEF JobInv, AbsentInv, Recovered
  <1>6. /\ mem' = [mem EXCEPT ![j] = job] /\ proc' = proc /\ held' = held /\ grant' = grant
        /\ todo' = todo \ {j} /\ breaker' = breaker /\ asked' = asked
        /\ crashes' = crashes /\ stops' = stops /\ purges' = purges
        /\ IF job # db[j].job THEN Persist(j, job, NoKey) ELSE db' = db /\ faults' = faults
    BY DEF RecoverRow
  <1>7. \/ /\ job.status = "pending"
           /\ timer' = [timer EXCEPT ![j] = ScheduledTimer(@)] /\ queue' = queue
        \/ /\ job.status = "pending" /\ queue' = Append(queue, j) /\ timer' = timer
        \/ /\ job.status # "pending" /\ queue' = queue /\ timer' = timer
    BY DEF RecoverRow
  <1> HIDE DEF job
  <1>8. /\ db' \in [Jobs -> Row] /\ faults' \in Nat
        /\ \A k \in Jobs : k # j => db'[k] = db[k]
        /\ job = db[j].job => db' = db
    <2>1. CASE job # db[j].job
      BY <1>1, <1>3, <1>6, <2>1, PersistRow
    <2>2. CASE job = db[j].job
      BY <1>1, <1>6, <2>2 DEF TypeOK
    <2> QED BY <2>1, <2>2
  <1>9. /\ ScheduledTimer(timer[j]) \in Timer
        /\ ScheduledTimer(timer[j]).sleeping = 1 /\ ScheduledTimer(timer[j]).tracked = 1
        /\ ~(ScheduledTimer(timer[j]).cancelled > 0)
    BY <1>4, TimerOps
  <1>10. TypeOK'
    <2>1. mem' \in [Jobs -> Job]
      BY <1>1, <1>3, <1>6 DEF TypeOK
    <2>2. timer' \in [Jobs -> Timer] /\ queue' \in Seq(Jobs)
      <3>1. CASE timer' = [timer EXCEPT ![j] = ScheduledTimer(@)] /\ queue' = queue
        BY <1>1, <1>9, <3>1 DEF TypeOK
      <3>2. CASE queue' = Append(queue, j) /\ timer' = timer
        BY <1>1, <3>2 DEF TypeOK
      <3>3. CASE queue' = queue /\ timer' = timer
        BY <1>1, <3>3 DEF TypeOK
      <3> QED BY <1>7, <3>1, <3>2, <3>3
    <2> QED BY <1>1, <1>6, <1>8, <2>1, <2>2 DEF TypeOK
  <1>11. ASSUME NEW k \in Jobs, k # j PROVE JobInv(k)'
    <2>1. (Occurs(queue', k) => Occurs(queue, k)) /\ (Once(queue, k) => Once(queue', k))
      <3>1. CASE queue' = queue
        BY <3>1
      <3>2. CASE queue' = Append(queue, j)
        BY <1>1, <1>11, <3>2, AppendOccurs DEF TypeOK
      <3> QED BY <1>7, <3>1, <3>2
    <2>2. timer'[k] = timer[k]
      BY <1>1, <1>7, <1>11 DEF TypeOK
    <2>3. Same(k)
      BY <1>1, <1>6, <1>8, <1>11, <2>1, <2>2 DEF TypeOK, Same
    <2> QED BY <2>3, <1>1, Frame
  <1>12. JobInv(j)'
    <2>1. /\ mem'[j] = job /\ HeldBy(j)' = {} /\ j \notin todo'
      BY <1>1, <1>4, <1>6 DEF TypeOK, HeldBy
    <2>2. Once(queue, j)
      BY <1>4 DEF Once, Queued, Occurs
    <2>3. \/ /\ job.status = "pending" /\ timer'[j] = ScheduledTimer(timer[j])
             /\ ~Queued(j)' /\ Once(queue', j)
          \/ job.status = "pending" /\ timer'[j] = NoTimer /\ Once(queue', j)
          \/ /\ job.status # "pending" /\ timer'[j] = NoTimer
             /\ ~Queued(j)' /\ Once(queue', j)
      <3>1. CASE /\ job.status = "pending"
                 /\ timer' = [timer EXCEPT ![j] = ScheduledTimer(@)] /\ queue' = queue
        BY <1>1, <1>4, <2>2, <3>1 DEF TypeOK, Queued
      <3>2. CASE job.status = "pending" /\ queue' = Append(queue, j) /\ timer' = timer
        BY <1>1, <1>4, <3>2, AppendOccurs DEF TypeOK, Queued
      <3>3. CASE job.status # "pending" /\ queue' = queue /\ timer' = timer
        BY <1>4, <2>2, <3>3 DEF Queued
      <3> QED BY <1>7, <3>1, <3>2, <3>3
    <2>4. TimerInv(j)'
      BY <1>9, <2>1, <2>3 DEF TimerInv, NoTimer
    <2>5. AbsentInv(j)'
      BY <1>5, <1>6, <1>8, <2>1, <2>3 DEF AbsentInv
    <2>6. SingleInv(j)'
      BY <2>1, <2>3 DEF SingleInv, Single
    <2> QED BY <2>4, <2>5, <2>6 DEF JobInv
  <1> QED BY <1>10, <1>11, <1>12 DEF IInv

\* The workers are created.
LEMMA StartedStep ==
    ASSUME IInv, Started
    PROVE  IInv'
  <1>1. TypeOK /\ \A k \in Jobs : JobInv(k)
    BY DEF IInv
  <1>2. TypeOK'
    BY <1>1 DEF TypeOK, Started
  <1>3. ASSUME NEW k \in Jobs PROVE JobInv(k)'
    <2>1. Same(k)
      BY DEF Started, Same
    <2> QED BY <2>1, <1>1, Frame
  <1> QED BY <1>2, <1>3 DEF IInv

\* stop: a job in backoff loses its retry task and stays pending.
LEMMA StopStep ==
    ASSUME IInv, stop
    PROVE  IInv'
  <1>1. TypeOK /\ \A k \in Jobs : JobInv(k)
    BY DEF IInv
  <1>2. ASSUME NEW k \in Jobs
        PROVE  /\ timer[k] \in Timer /\ timer[k].sleeping = timer[k].tracked
               /\ timer'[k] = CancelledTimer(timer[k]) /\ CancelledTimer(timer[k]) \in Timer
               /\ CancelledTimer(timer[k]).sleeping = 0 /\ CancelledTimer(timer[k]).tracked = 0
               /\ CancelledTimer(timer[k]).cancelled > 0 =>
                     timer[k].cancelled > 0 \/ timer[k].tracked = 1
    <2>1. timer[k] \in Timer /\ timer[k].sleeping = timer[k].tracked
      BY <1>1 DEF TypeOK, JobInv, TimerInv
    <2> QED BY <2>1, TimerOps DEF stop
  <1>3. TypeOK'
    <2>1. timer' \in [Jobs -> Timer] /\ held' \in [Workers -> Jobs \cup {Idle}]
      BY <1>2 DEF stop
    <2> QED BY <1>1, <2>1 DEF TypeOK, stop
  <1>4. ASSUME NEW k \in Jobs PROVE JobInv(k)'
    <2>1. mem' = mem /\ grant' = grant /\ db' = db /\ queue' = queue /\ todo' = todo /\ proc = "up"
      BY DEF stop
    <2>2. HeldBy(k)' = {} /\ (Queued(k)' <=> Queued(k)) /\ (Spent(k)' <=> Spent(k))
      BY <2>1, ConstantAssumption DEF HeldBy, Queued, Spent, stop
    <2>3. TimerInv(k)'
      BY <1>1, <1>2, <2>1, <2>2 DEF TimerInv, JobInv
    <2>4. mem[k].status = "absent" => CancelledTimer(timer[k]) = NoTimer
      BY <1>1 DEF JobInv, AbsentInv, CancelledTimer, NoTimer
    <2>5. AbsentInv(k)'
      BY <1>1, <1>2, <2>1, <2>2, <2>4 DEF AbsentInv, JobInv
    <2>6. SingleInv(k)'
      BY <1>1, <2>1, <2>2 DEF SingleInv, Single, JobInv
    <2> QED BY <2>3, <2>5, <2>6 DEF JobInv
  <1> QED BY <1>3, <1>4 DEF IInv

\* A state without jobs in memory satisfies the invariant.
LEMMA CrashStep ==
    ASSUME IInv, Crash
    PROVE  IInv'
  <1>1. TypeOK /\ \A k \in Jobs : JobInv(k)
    BY DEF IInv
  <1>2. TypeOK'
    <2>1. mem' \in [Jobs -> Job] /\ timer' \in [Jobs -> Timer] /\ breaker' \in [Names -> Breaker]
      BY EmptyTypes DEF Crash
    <2> QED BY <1>1, <2>1 DEF TypeOK, Crash
  <1>3. ASSUME NEW k \in Jobs PROVE JobInv(k)'
    <2>1. mem'[k].status = "absent" /\ timer'[k] = NoTimer /\ queue' = <<>> /\ todo' = {}
          /\ grant' = grant /\ db' = db
      BY DEF Crash, NoJob
    <2>2. ~Queued(k)' /\ Once(queue', k)
      BY <2>1 DEF Queued, Occurs, Once
    <2>3. HeldBy(k)' = {}
      BY ConstantAssumption DEF Crash, HeldBy
    <2>4. TimerInv(k)'
      BY <2>1 DEF TimerInv, NoTimer
    <2>5. AbsentInv(k)'
      BY <1>1, <2>1, <2>2, <2>3 DEF AbsentInv, JobInv
    <2>6. SingleInv(k)'
      BY <2>2, <2>3 DEF SingleInv, Single
    <2> QED BY <2>4, <2>5, <2>6 DEF JobInv
  <1> QED BY <1>2, <1>3 DEF IInv

-----------------------------------------------------------------------------
(* The theorems.                                                           *)

\* The invariant holds initially.
LEMMA InitIInv == Init => IInv
  <1> SUFFICES ASSUME Init PROVE IInv
    OBVIOUS
  <1>1. TypeOK
    <2>1. mem \in [Jobs -> Job] /\ timer \in [Jobs -> Timer] /\ breaker \in [Names -> Breaker]
          /\ db \in [Jobs -> Row]
      BY EmptyTypes DEF Init
    <2>2. grant \in [Jobs -> Grant]
      BY DEF Init, Grant
    <2> QED BY <2>1, <2>2 DEF Init, TypeOK
  <1>2. ASSUME NEW k \in Jobs PROVE JobInv(k)
    <2>1. mem[k].status = "absent" /\ timer[k] = NoTimer /\ queue = <<>> /\ todo = {}
          /\ db[k].job.status = "absent"
      BY DEF Init, NoJob, NoRow
    <2>2. ~Queued(k) /\ Once(queue, k)
      BY <2>1 DEF Queued, Occurs, Once
    <2>3. HeldBy(k) = {}
      BY ConstantAssumption DEF Init, HeldBy
    <2> QED BY <2>1, <2>2, <2>3 DEF JobInv, TimerInv, AbsentInv, SingleInv, Single, NoTimer
  <1> QED BY <1>1, <1>2 DEF IInv

\* Every step keeps the invariant: one case per action.
LEMMA NextIInv == IInv /\ [Next]_vars => IInv'
  <1> SUFFICES ASSUME IInv, [Next]_vars PROVE IInv'
    OBVIOUS
  <1>1. ASSUME NEW j \in Jobs, Request(j) PROVE IInv'
    BY <1>1, SubmitStep, GetStep, CancelStep, RequeueStep DEF Request
  <1>2. ASSUME NEW j \in Jobs, Delayed(j) PROVE IInv'
    BY <1>2, RetryDueStep, RetryCleanupStep DEF Delayed
  <1>3. CASE Purging
    BY <1>3, PurgeStep DEF Purging
  <1>4. ASSUME NEW w \in Workers, Take(w) PROVE IInv'
    BY <1>4, SkipStep, UnhandledStep, RunStep DEF Take
  <1>5. ASSUME NEW w \in Workers, Finish(w) PROVE IInv'
    BY <1>5, SucceedStep, FailRetryStep, FailTerminalStep DEF Finish
  <1>6. ASSUME NEW n \in Names, CooldownElapses(n) PROVE IInv'
    BY <1>6, CooldownStep
  <1>7. CASE Boot
    BY <1>7, StartStep, RecoverRowStep, StartedStep DEF Boot
  <1>8. CASE stop \/ Crash
    BY <1>8, StopStep, CrashStep
  <1>9. CASE UNCHANGED vars
    <2>1. TypeOK'
      BY <1>9 DEF IInv, TypeOK, vars
    <2>2. ASSUME NEW k \in Jobs PROVE JobInv(k)'
      <3>1. Same(k) /\ JobInv(k)
        BY <1>9 DEF IInv, Same, vars
      <3> QED BY <3>1, Frame
    <2> QED BY <2>1, <2>2 DEF IInv
  <1> QED BY <1>1, <1>2, <1>3, <1>4, <1>5, <1>6, <1>7, <1>8, <1>9 DEF Next

\* The inductive invariant is an invariant of the job queue.
LEMMA InvIInv == Spec => []IInv
  BY InitIInv, NextIInv, PTL DEF Spec

\* Every variable of the job queue keeps its type, whatever the number of jobs,
\* workers, crashes, stops, purges and swallowed SQLite errors.
THEOREM TypeCorrect == Spec => []TypeOK
  <1>1. IInv => TypeOK
    BY DEF IInv
  <1> QED BY <1>1, InvIInv, PTL

\* At most one retry task of a job sleeps, cancel() and stop() can reach it, and
\* its job waits nowhere else, although requeue may put a job in the queue twice:
\* requeue spends the budget, so such a job never gets a retry task again.
THEOREM RetryTasksAreTracked == Spec => []RetryTaskTracked
  <1>1. IInv => RetryTaskTracked
    BY DEF IInv, JobInv, TimerInv, RetryTaskTracked
  <1> QED BY <1>1, InvIInv, PTL

\* Mutual exclusion: a submitted job, and a requeued one of which nothing was
\* left over, is executed by one worker at a time, through retries, timeouts,
\* cancellations, stops, crashes and recoveries.
THEOREM OneWorkerAtATime == Spec => []OneWorkerPerJob
  <1>1. ASSUME IInv, NEW j \in Jobs, grant[j].kind # "overlap", NEW w \in HeldBy(j)
        PROVE  /\ HeldBy(j) = {w} /\ mem[j].status = "running"
               /\ ~Queued(j) /\ timer[j].sleeping = 0
    <2>1. w \in Workers /\ held[w] = j
      BY <1>1 DEF HeldBy
    <2>2. /\ timer[j].sleeping = 0 /\ ~Queued(j) /\ HeldBy(j) = {w}
      BY <1>1, <2>1, HeldFacts
    <2>3. mem[j].status = "running"
      BY <1>1 DEF IInv, JobInv, SingleInv, Single
    <2> QED BY <2>2, <2>3
  <1>2. IInv => OneWorkerPerJob
    BY <1>1 DEF OneWorkerPerJob
  <1> QED BY <1>2, InvIInv, PTL

=============================================================================
