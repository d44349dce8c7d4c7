-------------------------- MODULE JobSafetyProofs ---------------------------
(***************************************************************************)
(* More safety of JobQueue, for every number of jobs, workers, names and   *)
(* keys and every bound: no job is forgotten, none is executed beyond its  *)
(* budget, no key has two live jobs, and a storm of failures suppresses    *)
(* retries.  The invariant of JobLifecycleProofs is needed throughout: a   *)
(* restart knows only the rows, so the rows have to be current.            *)
(***************************************************************************)
EXTENDS JobLifecycleProofs

\* An unfinished job is where it will be picked up, and every row is in memory
\* unless the process is down or recovery still has it before it.
Kept(j) ==
    stops = 0 /\ faults = 0 =>
        /\ mem[j].status = "pending" => Queued(j) \/ timer[j].sleeping > 0
        /\ mem[j].status = "running" => HeldBy(j) # {}
        /\ HasRow(j) /\ ~InMemory(j) => proc = "down" \/ j \in todo

\* How often a job may have been started before its current or next execution.
Allowance(j, job) ==
    IF grant[j].kind = "requeue" THEN 0 ELSE job.retries + crashes

\* The executions of a job are within its budget; a pending job has one left.
Within(j, job) ==
    /\ job.retries <= job.max
    /\ grant[j].kind = "requeue" => job.retries = job.max
    /\ grant[j].runs <= Allowance(j, job) + (IF job.status = "pending" THEN 0 ELSE 1)

\* For a job that only has a row, the crash that took it out of memory is counted.
Budgeted(j) ==
    faults = 0 /\ grant[j].kind # "overlap" =>
        /\ InMemory(j) => Within(j, mem[j])
        /\ ~InMemory(j) /\ HasRow(j) =>
              /\ Within(j, db[j].job)
              /\ grant[j].kind # "requeue" => grant[j].runs <= Allowance(j, db[j].job)

\* Two submitted jobs with the same key are not both live in the table.
Keyed(j, k) ==
    /\ purges = 0 /\ faults = 0 /\ j # k /\ asked[j] = asked[k] /\ asked[j] # NoKey
    /\ grant[j].kind = "submit" /\ grant[k].kind = "submit"
    => db[j].job.status \notin Live \/ db[k].job.status \notin Live

StopCounted == proc = "stopped" => stops > 0

SInv ==
    /\ LInv
    /\ StopCounted
    /\ \A j \in Jobs : Kept(j) /\ Budgeted(j)
    /\ \A j, k \in Jobs : Keyed(j, k)

\* What the invariant says of one job.
LEMMA Parts ==
    ASSUME SInv, NEW j \in Jobs
    PROVE  /\ LInv /\ IInv /\ TypeOK /\ JobInv(j) /\ Current(j) /\ Kept(j) /\ Budgeted(j)
           /\ mem[j] \in Job /\ db[j] \in Row /\ db[j].job \in Job /\ timer[j] \in Timer
           /\ grant[j].runs \in Nat /\ grant[j].kind \in {"none", "submit", "requeue", "overlap"}
           /\ mem[j].retries \in Nat /\ mem[j].max \in Nat
           /\ db[j].job.retries \in Nat /\ db[j].job.max \in Nat
           /\ crashes \in Nat /\ faults \in Nat /\ stops \in Nat /\ purges \in Nat
  <1>1. LInv /\ IInv /\ TypeOK /\ JobInv(j) /\ Current(j) /\ Kept(j) /\ Budgeted(j)
    BY DEF SInv, LInv, IInv
  <1>2. mem[j] \in Job /\ db[j] \in Row /\ timer[j] \in Timer /\ grant[j] \in Grant
    BY <1>1 DEF TypeOK
  <1>3. crashes \in Nat /\ faults \in Nat /\ stops \in Nat /\ purges \in Nat
    BY <1>1 DEF TypeOK
  <1>4. db[j].job \in Job
    BY <1>2 DEF Row
  <1>5. \A job \in Job : job.retries \in Nat /\ job.max \in Nat
    BY DEF Job
  <1>6. grant[j].runs \in Nat /\ grant[j].kind \in {"none", "submit", "requeue", "overlap"}
    BY <1>2 DEF Grant
  <1> QED BY <1>1, <1>2, <1>3, <1>4, <1>5, <1>6

-----------------------------------------------------------------------------
(* No job is forgotten or run beyond its budget.  An action touches one    *)
(* job; the others stay where they are.                                    *)

\* Nothing of k changes, and what holds it still does.
Still(k) ==
    /\ mem'[k] = mem[k] /\ db'[k] = db[k] /\ grant'[k] = grant[k]
    /\ timer'[k].sleeping = timer[k].sleeping
    /\ Occurs(queue, k) => Occurs(queue', k)
    /\ \A w \in Workers : held[w] = k => held'[w] = k
    /\ k \in todo => k \in todo'

\* The process goes on.
GoesOn ==
    /\ proc' = proc /\ stops' = stops /\ crashes' = crashes
    /\ faults' = 0 => faults = 0

Safe(k) == Kept(k) /\ Budgeted(k)

\* A job that an action does not touch stays safe.
LEMMA StillSafe ==
    ASSUME NEW k \in Jobs, Safe(k), Still(k), GoesOn
    PROVE  Safe(k)'
  <1>1. Queued(k) => Queued(k)'
    BY DEF Still, Queued
  <1>2. HeldBy(k) # {} => HeldBy(k)' # {}
    BY DEF Still, HeldBy
  <1>3. (InMemory(k)' <=> InMemory(k)) /\ (HasRow(k)' <=> HasRow(k))
    BY DEF Still, InMemory, HasRow
  <1>4. Kept(k)'
    BY <1>1, <1>2, <1>3 DEF Safe, Kept, Still, GoesOn
  <1>5. Budgeted(k)'
    BY <1>3 DEF Safe, Budgeted, Within, Allowance, Still, GoesOn
  <1> QED BY <1>4, <1>5 DEF Safe

\* A job that an action puts into memory is safe if it is kept and within its budget.
LEMMA PutSafe ==
    ASSUME NEW j \in Jobs, mem'[j].status # "absent",
           mem'[j].status = "pending" => Occurs(queue', j) \/ timer'[j].sleeping > 0,
           mem'[j].status = "running" => \E w \in Workers : held'[w] = j,
           faults' = 0 /\ grant'[j].kind # "overlap" => Within(j, mem[j])'
    PROVE  Safe(j)'
  BY DEF Safe, Kept, Budgeted, InMemory, HasRow, Queued, HeldBy

\* A save keeps the count of faults, and the other rows.
LEMMA Saved ==
    ASSUME TypeOK, NEW j \in Jobs, NEW job \in Job, NEW key \in Keys \cup {NoKey},
           Persist(j, job, key)
    PROVE  (faults' = 0 => faults = 0) /\ \A k \in Jobs : k # j => db'[k] = db[k]
  <1>1. faults \in Nat
    BY DEF TypeOK
  <1> QED BY <1>1, PersistRow

\* submit
LEMMA SubmitSafe ==
    ASSUME SInv, NEW j \in Jobs, NEW n \in Names, NEW m \in Budgets,
           NEW key \in Keys \cup {NoKey}, submit(j, n, m, key), NEW k \in Jobs
    PROVE  Safe(k)'
  <1> DEFINE job == [name |-> n, status |-> "pending", retries |-> 0, max |-> m, retryAt |-> "unset"]
  <1>1. TypeOK /\ Safe(k) /\ crashes \in Nat /\ m \in Nat
    BY Parts, ConstantAssumption DEF Safe
  <1>2. job \in Job
    BY <1>1 DEF Job, JobStatus, Live
  <1>3. /\ Persist(j, job, key) /\ mem'[j] = job /\ (k # j => mem'[k] = mem[k])
        /\ grant'[j] = [kind |-> "submit", runs |-> 0] /\ (k # j => grant'[k] = grant[k])
        /\ queue \in Seq(Jobs) /\ queue' = Append(queue, j)
        /\ held' = held /\ timer' = timer /\ todo' = todo
        /\ proc' = proc /\ stops' = stops /\ crashes' = crashes
    BY <1>1 DEF submit, TypeOK
  <1>4. GoesOn /\ (k # j => db'[k] = db[k])
    BY <1>1, <1>2, <1>3, Saved DEF GoesOn
  <1>5. Occurs(queue', j) /\ (Occurs(queue, k) => Occurs(queue', k))
    BY <1>3, AppendOccurs
  <1>6. CASE k # j
    BY <1>1, <1>3, <1>4, <1>5, <1>6, StillSafe DEF Still
  <1>7. CASE k = j
    <2>1. Within(j, mem[j])'
      BY <1>1, <1>3 DEF Within, Allowance
    <2> QED BY <1>3, <1>5, <1>7, <2>1, PutSafe
  <1> QED BY <1>6, <1>7

\* cancel
LEMMA CancelSafe ==
    ASSUME SInv, NEW j \in Jobs, cancel(j), NEW k \in Jobs
    PROVE  Safe(k)'
  <1> DEFINE job == Settle(mem[j], "cancelled")
  <1>1. /\ TypeOK /\ Safe(k) /\ mem[j] \in Job /\ crashes \in Nat /\ grant[j].runs \in Nat
        /\ mem[j].status = "pending" /\ Budgeted(j) /\ mem[j].retries \in Nat
    BY Parts DEF cancel, Safe
  <1>2. job \in Job /\ job.status = "cancelled" /\ job.retries = mem[j].retries /\ job.max = mem[j].max
    BY <1>1, JobOps DEF JobStatus, Terminal, Failures
  <1>3. /\ Persist(j, job, NoKey) /\ mem'[j] = job /\ (k # j => mem'[k] = mem[k])
        /\ (k # j => timer'[k] = timer[k])
        /\ queue' = queue /\ held' = held /\ grant' = grant /\ todo' = todo
        /\ proc' = proc /\ stops' = stops /\ crashes' = crashes
    BY <1>1 DEF cancel, TypeOK
  <1> HIDE DEF job
  <1>4. GoesOn /\ (k # j => db'[k] = db[k])
    BY <1>1, <1>2, <1>3, Saved DEF GoesOn
  <1>5. CASE k # j
    BY <1>1, <1>3, <1>4, <1>5, StillSafe DEF Still
  <1>6. CASE k = j
    <2>1. faults' = 0 /\ grant'[j].kind # "overlap" => Within(j, mem[j])'
      BY <1>1, <1>2, <1>3, <1>4 DEF Budgeted, Within, Allowance, InMemory, GoesOn
    <2> QED BY <1>2, <1>3, <1>6, <2>1, PutSafe
  <1> QED BY <1>5, <1>6

\* get: there is nothing to load unless a start could not read the rows.
LEMMA GetSafe ==
    ASSUME SInv, NEW j \in Jobs, get(j), NEW k \in Jobs
    PROVE  Safe(k)'
  <1>1. TypeOK /\ Safe(k) /\ Safe(j) /\ JobInv(j) /\ StopCounted /\ stops \in Nat
    BY Parts DEF Safe, SInv
  <1>2. /\ ~InMemory(j) /\ HasRow(j) /\ mem'[j] = db[j].job /\ (k # j => mem'[k] = mem[k])
        /\ queue' = queue /\ held' = held /\ grant' = grant /\ todo' = todo /\ timer' = timer
        /\ proc' = proc /\ stops' = stops /\ crashes' = crashes /\ faults' = faults /\ db' = db
        /\ proc \in {"up", "stopped"}
    BY <1>1 DEF get, TypeOK, Requests
  <1>3. CASE k # j
    BY <1>1, <1>2, <1>3, StillSafe DEF Still, GoesOn
  <1>4. CASE k = j
    <2>1. ~(stops = 0 /\ faults = 0)
      BY <1>1, <1>2 DEF Safe, Kept, StopCounted, JobInv, AbsentInv
    <2>2. Kept(j)'
      BY <1>2, <2>1 DEF Kept
    <2>3. Budgeted(j)'
      BY <1>1, <1>2 DEF Safe, Budgeted, Within, Allowance, InMemory, HasRow
    <2> QED BY <1>4, <2>2, <2>3 DEF Safe
  <1> QED BY <1>3, <1>4

\* requeue: a job with no leftovers has one execution; otherwise it is only loaded.
LEMMA RequeueSafe ==
    ASSUME SInv, NEW j \in Jobs, requeue(j), NEW k \in Jobs
    PROVE  Safe(k)'
  <1> DEFINE old == IF InMemory(j) THEN mem[j] ELSE db[j].job
  <1>1. /\ TypeOK /\ Safe(k) /\ Safe(j) /\ JobInv(j) /\ StopCounted /\ stops \in Nat
        /\ old \in Job /\ crashes \in Nat
    BY Parts DEF Safe, SInv
  <1>2. /\ held' = held /\ todo' = todo /\ proc' = proc /\ stops' = stops /\ crashes' = crashes
        /\ proc \in {"up", "stopped"} /\ queue \in Seq(Jobs)
    BY <1>1 DEF requeue, Requests, TypeOK
  <1>3. CASE /\ old.status \in Failures
             /\ mem' = [mem EXCEPT ![j] = Requeued(old)]
             /\ Persist(j, Requeued(old), NoKey)
             /\ timer' = [timer EXCEPT ![j] = CancelledTimer(@)]
             /\ queue' = Append(queue, j)
             /\ grant' = [grant EXCEPT ![j] =
                   [kind |-> IF Queued(j) \/ HeldBy(j) # {} \/ timer[j].sleeping > 0
                             THEN "overlap" ELSE "requeue",
                    runs |-> 0]]
    <2>1. /\ Requeued(old) \in Job /\ Requeued(old).status = "pending"
          /\ Requeued(old).retries = Requeued(old).max /\ Requeued(old).retries \in Nat
      <3>1. "pending" \in JobStatus
        BY DEF JobStatus, Live
      <3>2. Requeued(old) \in Job
        BY <1>1, <3>1, JobOps
      <3> QED BY <1>1, <3>1, <3>2, JobOps
    <2> HIDE DEF old
    <2>2. /\ mem'[j] = Requeued(old) /\ (k # j => mem'[k] = mem[k])
          /\ (k # j => timer'[k] = timer[k]) /\ (k # j => grant'[k] = grant[k])
          /\ grant'[j].runs = 0 /\ grant'[j].kind \in {"overlap", "requeue"}
      BY <1>1, <1>3 DEF TypeOK
    <2>3. GoesOn /\ (k # j => db'[k] = db[k])
      BY <1>1, <1>2, <1>3, <2>1, Saved DEF GoesOn
    <2>4. Occurs(queue', j) /\ (Occurs(queue, k) => Occurs(queue', k))
      BY <1>2, <1>3, AppendOccurs
    <2>5. CASE k # j
      BY <1>1, <1>2, <2>2, <2>3, <2>4, <2>5, StillSafe DEF Still
    <2>6. CASE k = j
      <3>1. Within(j, mem[j])'
        <4>1. mem'[j].retries <= mem'[j].max /\ mem'[j].retries = mem'[j].max
          BY <2>1, <2>2
        <4>2. grant'[j].runs <= (IF grant'[j].kind = "requeue" THEN 0 ELSE mem'[j].retries + crashes')
          BY <1>1, <1>2, <2>1, <2>2
        <4>3. mem'[j].status = "pending"
          BY <2>1, <2>2
        <4> QED BY <4>1, <4>2, <4>3, <1>1, <1>2, <2>1, <2>2 DEF Within, Allowance
      <3> QED BY <2>1, <2>2, <2>4, <2>6, <3>1, PutSafe
    <2> QED BY <2>5, <2>6
  <1>4. CASE /\ ~InMemory(j) /\ old.status \notin Failures
             /\ mem' = [mem EXCEPT ![j] = old]
             /\ UNCHANGED <<db, faults, timer, queue, grant>>
    <2>1. HasRow(j) /\ mem'[j] = db[j].job /\ (k # j => mem'[k] = mem[k])
      BY <1>1, <1>4 DEF requeue, TypeOK
    <2>2. CASE k # j
      BY <1>1, <1>2, <1>4, <2>1, <2>2, StillSafe DEF Still, GoesOn
    <2>3. CASE k = j
      <3>1. ~(stops = 0 /\ faults = 0)
        BY <1>1, <1>2, <1>4, <2>1 DEF Safe, Kept, StopCounted, JobInv, AbsentInv
      <3>2. Kept(j)'
        BY <1>2, <1>4, <3>1 DEF Kept
      <3>3. Budgeted(j)'
        BY <1>1, <1>2, <1>4, <2>1 DEF Safe, Budgeted, Within, Allowance, InMemory, HasRow
      <3> QED BY <2>3, <3>2, <3>3 DEF Safe
    <2> QED BY <2>2, <2>3
  <1> QED BY <1>3, <1>4 DEF requeue

\* A worker skips a cancelled job.
LEMMA SkipSafe ==
    ASSUME SInv, NEW w \in Workers, TakeSkipped(w), NEW k \in Jobs
    PROVE  Safe(k)'
  <1>1. TypeOK /\ Safe(k)
    BY Parts DEF Safe
  <1>2. /\ mem' = mem /\ db' = db /\ grant' = grant /\ timer' = timer /\ held' = held /\ todo' = todo
        /\ GoesOn /\ queue \in Seq(Jobs) /\ queue # <<>> /\ queue' = Tail(queue)
        /\ mem[Head(queue)].status \in {"absent", "cancelled"}
    BY <1>1 DEF TakeSkipped, TypeOK, GoesOn
  <1>3. CASE k # Head(queue)
    <2>1. Occurs(queue, k) => Occurs(queue', k)
      BY <1>2, <1>3, TailOccurs
    <2> QED BY <1>1, <1>2, <2>1, StillSafe DEF Still
  <1>4. CASE k = Head(queue)
    <2>1. mem'[k].status \notin {"pending", "running"} /\ HeldBy(k)' = HeldBy(k)
      BY <1>2, <1>4 DEF HeldBy
    <2>2. (InMemory(k)' <=> InMemory(k)) /\ (HasRow(k)' <=> HasRow(k))
      BY <1>2 DEF InMemory, HasRow
    <2>3. Kept(k)'
      BY <1>1, <1>2, <2>1, <2>2 DEF Safe, Kept, GoesOn
    <2>4. Budgeted(k)'
      BY <1>1, <1>2, <2>2 DEF Safe, Budgeted, Within, Allowance, GoesOn
    <2> QED BY <2>3, <2>4 DEF Safe
  <1> QED BY <1>3, <1>4

\* The head of the queue: a bound job that is not cancelled is pending there.
LEMMA HeadPending ==
    ASSUME SInv, queue # <<>>
    PROVE  LET j == Head(queue)
           IN  /\ j \in Jobs
               /\ grant[j].kind # "overlap" => mem[j].status \in {"pending", "cancelled"}
  <1>1. PICK j \in Jobs : j = Head(queue) /\ Queued(j)
    BY HeadFacts DEF SInv, LInv
  <1>2. JobInv(j)
    BY Parts
  <1> QED BY <1>1, <1>2 DEF JobInv, SingleInv, Single

\* A worker takes a job without handler.
LEMMA UnhandledSafe ==
    ASSUME SInv, NEW w \in Workers, TakeUnhandled(w), NEW k \in Jobs
    PROVE  Safe(k)'
  <1>0. PICK j \in Jobs : j = Head(queue)
    BY HeadPending DEF TakeUnhandled
  <1> DEFINE job == Become(mem[j], "failed")
  <1>1. /\ TypeOK /\ Safe(k) /\ mem[j] \in Job /\ crashes \in Nat /\ grant[j].runs \in Nat
        /\ mem[j].status # "absent" /\ Budgeted(j) /\ mem[j].retries \in Nat
    BY <1>0, Parts DEF TakeUnhandled, Safe
  <1>2. job \in Job /\ job.status = "failed" /\ job.retries = mem[j].retries /\ job.max = mem[j].max
    BY <1>1, JobOps DEF JobStatus, Terminal, Failures
  <1>3. /\ Persist(j, job, NoKey) /\ mem'[j] = job /\ (k # j => mem'[k] = mem[k])
        /\ queue \in Seq(Jobs) /\ queue # <<>> /\ queue' = Tail(queue)
        /\ timer' = timer /\ held' = held /\ grant' = grant /\ todo' = todo
        /\ proc' = proc /\ stops' = stops /\ crashes' = crashes
    BY <1>0, <1>1 DEF TakeUnhandled, TypeOK
  <1> HIDE DEF job
  <1>4. GoesOn /\ (k # j => db'[k] = db[k])
    BY <1>1, <1>2, <1>3, Saved DEF GoesOn
  <1>5. CASE k # j
    <2>1. Occurs(queue, k) => Occurs(queue', k)
      BY <1>0, <1>3, <1>5, TailOccurs
    <2> QED BY <1>1, <1>3, <1>4, <1>5, <2>1, StillSafe DEF Still
  <1>6. CASE k = j
    <2>1. faults' = 0 /\ grant'[j].kind # "overlap" => Within(j, mem[j])'
      BY <1>1, <1>2, <1>3, <1>4 DEF Budgeted, Within, Allowance, InMemory, GoesOn
    <2> QED BY <1>2, <1>3, <1>6, <2>1, PutSafe
  <1> QED BY <1>5, <1>6

\* A worker starts a job: the one execution a pending job has left.
LEMMA RunSafe ==
    ASSUME SInv, NEW w \in Workers, TakeRun(w), NEW k \in Jobs
    PROVE  Safe(k)'
  <1>0. PICK j \in Jobs : j = Head(queue) /\ (grant[j].kind # "overlap" => mem[j].status \in {"pending", "cancelled"})
    BY HeadPending DEF TakeRun
  <1> DEFINE job == Settle(mem[j], "running")
  <1>1. /\ TypeOK /\ Safe(k) /\ mem[j] \in Job /\ crashes \in Nat /\ grant[j].runs \in Nat
        /\ mem[j].status \notin {"absent", "cancelled"} /\ Budgeted(j)
        /\ mem[j].retries \in Nat /\ mem[j].max \in Nat
    BY <1>0, Parts DEF TakeRun, Safe
  <1>2. job \in Job /\ job.status = "running" /\ job.retries = mem[j].retries /\ job.max = mem[j].max
    BY <1>1, JobOps DEF JobStatus, Live
  <1>3. /\ Persist(j, job, NoKey) /\ mem'[j] = job /\ (k # j => mem'[k] = mem[k])
        /\ queue \in Seq(Jobs) /\ queue # <<>> /\ queue' = Tail(queue)
        /\ timer' = timer /\ todo' = todo /\ proc' = proc /\ stops' = stops /\ crashes' = crashes
        /\ held[w] = Idle /\ held' = [held EXCEPT ![w] = j]
        /\ grant' = [grant EXCEPT ![j].runs = @ + 1]
    BY <1>0, <1>1 DEF TakeRun, TypeOK
  <1> HIDE DEF job
  <1>4. GoesOn /\ (k # j => db'[k] = db[k])
    BY <1>1, <1>2, <1>3, Saved DEF GoesOn
  <1>5. /\ held'[w] = j /\ \A v \in Workers : held[v] = k => held'[v] = k
        /\ (k # j => grant'[k] = grant[k])
        /\ grant'[j].kind = grant[j].kind /\ grant'[j].runs = grant[j].runs + 1
    BY <1>1, <1>3, ConstantAssumption DEF TypeOK, Grant
  <1>6. CASE k # j
    <2>1. Occurs(queue, k) => Occurs(queue', k)
      BY <1>0, <1>3, <1>6, TailOccurs
    <2> QED BY <1>1, <1>3, <1>4, <1>5, <1>6, <2>1, StillSafe DEF Still
  <1>7. CASE k = j
    <2>1. ASSUME faults' = 0, grant'[j].kind # "overlap" PROVE Within(j, mem[j])'
      <3>1. mem[j].status = "pending" /\ Within(j, mem[j])
        BY <1>0, <1>1, <1>4, <1>5, <2>1 DEF Budgeted, InMemory, GoesOn
      <3> QED BY <1>1, <1>2, <1>3, <1>5, <3>1 DEF Within, Allowance
    <2> QED BY <1>2, <1>3, <1>5, <1>7, <2>1, PutSafe
  <1> QED BY <1>6, <1>7

\* The end of an execution without retry.
LEMMA EndSafe ==
    ASSUME SInv, NEW w \in Workers, NEW j \in Jobs, held[w] = j,
           NEW status \in {"completed", "failed", "timeout"},
           mem' = [mem EXCEPT ![j] = Become(mem[j], status)],
           Persist(j, Become(mem[j], status), NoKey),
           held' = [held EXCEPT ![w] = Idle],
           UNCHANGED <<proc, queue, timer, todo, grant, crashes, stops>>, NEW k \in Jobs
    PROVE  Safe(k)'
  <1> DEFINE job == Become(mem[j], status)
  <1>1. /\ TypeOK /\ Safe(k) /\ mem[j] \in Job /\ crashes \in Nat /\ grant[j].runs \in Nat
        /\ Budgeted(j) /\ mem[j].retries \in Nat
    BY Parts DEF Safe
  <1>2. mem[j].status # "absent"
    BY Parts, HeldFacts
  <1>3. job \in Job /\ job.status = status /\ job.retries = mem[j].retries /\ job.max = mem[j].max
    <2>1. status \in JobStatus
      BY DEF JobStatus, Terminal, Failures
    <2> QED BY <1>1, <2>1, JobOps
  <1>4. /\ Persist(j, job, NoKey) /\ mem'[j] = job /\ (k # j => mem'[k] = mem[k])
        /\ \A v \in Workers : k # j /\ held[v] = k => held'[v] = k
    BY <1>1 DEF TypeOK
  <1> HIDE DEF job
  <1>5. GoesOn /\ (k # j => db'[k] = db[k])
    BY <1>1, <1>3, <1>4, Saved DEF GoesOn
  <1>6. CASE k # j
    BY <1>1, <1>4, <1>5, <1>6, StillSafe DEF Still
  <1>7. CASE k = j
    <2>1. ASSUME faults' = 0, grant'[j].kind # "overlap" PROVE Within(j, mem[j])'
      <3>1. Within(j, mem[j])
        BY <1>1, <1>2, <1>5, <2>1 DEF Budgeted, InMemory, GoesOn
      <3>2. grant' = grant /\ crashes' = crashes /\ mem'[j].status # "pending"
        BY <1>3, <1>4
      <3> QED BY <1>1, <1>3, <1>4, <3>1, <3>2 DEF Within, Allowance
    <2> QED BY <1>3, <1>4, <1>7, <2>1, PutSafe
  <1> QED BY <1>6, <1>7

\* A failure with a retry: the budget pays for the execution that just ended.
LEMMA FailRetrySafe ==
    ASSUME SInv, NEW w \in Workers, NEW sig \in Errors \cup {TimedOut}, FailRetry(w, sig), NEW k \in Jobs
    PROVE  Safe(k)'
  <1>0. PICK j \in Jobs : held[w] = j
    BY Parts DEF FailRetry, SInv, LInv, IInv, TypeOK
  <1> DEFINE job == Retrying(mem[j])
  <1>1. /\ TypeOK /\ Safe(k) /\ mem[j] \in Job /\ crashes \in Nat /\ grant[j].runs \in Nat
        /\ Budgeted(j) /\ mem[j].retries \in Nat /\ mem[j].max \in Nat
        /\ timer[j] \in Timer /\ JobInv(j)
    BY Parts DEF Safe
  <1>2. mem[j].status # "absent"
    BY <1>0, Parts, HeldFacts
  <1>3. /\ job \in Job /\ job.status = "pending"
        /\ job.retries = mem[j].retries + 1 /\ job.max = mem[j].max
    <2>1. job \in Job /\ job.status = "pending"
      BY <1>1, JobOps DEF JobStatus, Live
    <2> QED BY <2>1 DEF Retrying
  <1>4. /\ Persist(j, job, NoKey) /\ mem'[j] = job /\ (k # j => mem'[k] = mem[k])
        /\ mem[j].retries < mem[j].max
        /\ timer'[j] = ScheduledTimer(timer[j]) /\ (k # j => timer'[k] = timer[k])
        /\ \A v \in Workers : k # j /\ held[v] = k => held'[v] = k
        /\ queue' = queue /\ grant' = grant /\ todo' = todo
        /\ proc' = proc /\ stops' = stops /\ crashes' = crashes
    BY <1>0, <1>1 DEF FailRetry, TypeOK
  <1> HIDE DEF job
  <1>5. GoesOn /\ (k # j => db'[k] = db[k])
    BY <1>1, <1>3, <1>4, Saved DEF GoesOn
  <1>6. CASE k # j
    BY <1>1, <1>4, <1>5, <1>6, StillSafe DEF Still
  <1>7. CASE k = j
    <2>1. ASSUME faults' = 0, grant'[j].kind # "overlap" PROVE Within(j, mem[j])'
      <3>1. Within(j, mem[j])
        BY <1>1, <1>2, <1>4, <1>5, <2>1 DEF Budgeted, InMemory, GoesOn
      <3>2. grant[j].kind # "requeue"
        BY <1>1, <1>4, <3>1 DEF Within
      <3> QED BY <1>1, <1>3, <1>4, <3>1, <3>2 DEF Within, Allowance
    <2>2. timer'[j].sleeping > 0
      <3>1. ScheduledTimer(timer[j]).sleeping = 1
        BY <1>1, TimerOps DEF JobInv, TimerInv
      <3> QED BY <1>4, <3>1
    <2> QED BY <1>3, <1>4, <1>7, <2>1, <2>2, PutSafe
  <1> QED BY <1>6, <1>7

\* A handler ends.
LEMMA FinishSafe ==
    ASSUME SInv, NEW w \in Workers, Finish(w), NEW k \in Jobs
    PROVE  Safe(k)'
  <1>1. PICK j \in Jobs : held[w] = j
    BY Parts DEF Finish, Succeed, FailRetry, FailTerminal, SInv, LInv, IInv, TypeOK
  <1>2. CASE Succeed(w)
    BY <1>1, <1>2, EndSafe DEF Succeed
  <1>3. ASSUME NEW sig \in Errors \cup {TimedOut}, FailTerminal(w, sig) PROVE Safe(k)'
    <2> DEFINE status == IF sig = TimedOut THEN "timeout" ELSE "failed"
    <2>1. status \in {"completed", "failed", "timeout"}
      OBVIOUS
    <2>2. /\ mem' = [mem EXCEPT ![j] = Become(mem[j], status)]
          /\ Persist(j, Become(mem[j], status), NoKey)
          /\ held' = [held EXCEPT ![w] = Idle]
          /\ UNCHANGED <<proc, queue, timer, todo, grant, crashes, stops>>
      BY <1>1, <1>3 DEF FailTerminal
    <2> HIDE DEF status
    <2> QED BY <1>1, <2>1, <2>2, EndSafe
  <1>4. ASSUME NEW sig \in Errors \cup {TimedOut}, FailRetry(w, sig) PROVE Safe(k)'
    BY <1>4, FailRetrySafe
  <1> QED BY <1>2, <1>3, <1>4 DEF Finish

\* A retry task wakes up: its job is pending, so it goes to the queue.
LEMMA RetryDueSafe ==
    ASSUME SInv, NEW j \in Jobs, RetryDue(j), NEW k \in Jobs
    PROVE  Safe(k)'
  <1>1. TypeOK /\ Safe(k) /\ Safe(j) /\ JobInv(j) /\ timer[j] \in Timer /\ StopCounted
    BY Parts DEF Safe, SInv
  <1>2. /\ mem' = mem /\ db' = db /\ grant' = grant /\ held' = held /\ todo' = todo
        /\ GoesOn /\ queue \in Seq(Jobs) /\ proc \in {"up", "stopped"} /\ timer[j].sleeping > 0
        /\ (k # j => timer'[k] = timer[k]) /\ crashes' = crashes /\ faults' = faults
        /\ queue' = IF proc = "up" /\ mem[j].status = "pending" THEN Append(queue, j) ELSE queue
    BY <1>1 DEF RetryDue, TypeOK, GoesOn
  <1>3. Occurs(queue, k) => Occurs(queue', k)
    BY <1>2, AppendOccurs
  <1>4. CASE k # j
    BY <1>1, <1>2, <1>3, <1>4, StillSafe DEF Still
  <1>5. CASE k = j
    <2>1. mem[j].status = "pending"
      BY <1>1, <1>2, TimerOps DEF JobInv, TimerInv
    <2>2. stops = 0 => Occurs(queue', j)
      BY <1>1, <1>2, <2>1, AppendOccurs DEF StopCounted
    <2>3. Kept(j)'
      BY <1>2, <2>1, <2>2 DEF Kept, Queued, InMemory, GoesOn
    <2>4. Budgeted(j)'
      BY <1>1, <1>2 DEF Safe, Budgeted, Within, Allowance, InMemory, HasRow
    <2> QED BY <1>5, <2>3, <2>4 DEF Safe
  <1> QED BY <1>4, <1>5

\* The end of a cancelled retry task, and the end of a cooldown.
LEMMA QuietSafe ==
    ASSUME SInv, NEW k \in Jobs,
           (\E j \in Jobs : RetryCleanup(j)) \/ (\E n \in Names : CooldownElapses(n)) \/ UNCHANGED vars
    PROVE  Safe(k)'
  <1>1. TypeOK /\ Safe(k)
    BY Parts DEF Safe
  <1>2. GoesOn
    BY DEF RetryCleanup, CooldownElapses, vars, GoesOn
  <1>3. Still(k)
    <2>1. ASSUME NEW j \in Jobs, RetryCleanup(j) PROVE Still(k)
      BY <1>1, <2>1 DEF RetryCleanup, Still, TypeOK, Cleaned
    <2>2. CASE (\E n \in Names : CooldownElapses(n)) \/ UNCHANGED vars
      BY <2>2 DEF CooldownElapses, vars, Still
    <2> QED BY <2>1, <2>2
  <1> QED BY <1>1, <1>2, <1>3, StillSafe

\* What recovery makes of a row.
LEMMA RecoveredJob ==
    ASSUME NEW row \in Job
    PROVE  /\ Recovered(row) \in Job
           /\ Recovered(row).retries = row.retries /\ Recovered(row).max = row.max
           /\ row.status # "running" => Recovered(row) = row
           /\ row.status = "running" =>
                 \/ row.retries >= row.max /\ Recovered(row).status = "failed"
                 \/ row.retries < row.max /\ Recovered(row).status = "pending"
  <1>1. "failed" \in JobStatus /\ "pending" \in JobStatus
    BY DEF JobStatus, Live, Terminal, Failures
  <1>2. Recovered(row) \in Job /\ row.retries \in Nat /\ row.max \in Nat
    BY <1>1, JobOps
  <1>3. ASSUME NEW st \in {"failed", "pending"}
        PROVE  /\ Become(row, st).status = st
               /\ Become(row, st).retries = row.retries /\ Become(row, st).max = row.max
    <2>1. st \in JobStatus
      BY <1>1
    <2> QED BY <2>1, JobOps
  <1> QED BY <1>2, <1>3 DEF Recovered

\* Recovery of one row: a crashed run of a requeued job fails, another has its retry.
LEMMA RecoverSafe ==
    ASSUME SInv, NEW j \in Jobs, RecoverRow(j), NEW k \in Jobs
    PROVE  Safe(k)'
  <1> DEFINE row == db[j].job
             job == Recovered(row)
  <1>1. /\ TypeOK /\ Safe(k) /\ Budgeted(j) /\ JobInv(j) /\ row \in Job /\ timer[j] \in Timer
        /\ crashes \in Nat /\ grant[j].runs \in Nat /\ row.retries \in Nat /\ row.max \in Nat
        /\ faults \in Nat
    BY Parts DEF Safe
  <1>2. /\ mem'[j] = job /\ (k # j => mem'[k] = mem[k]) /\ j \in todo /\ todo' = todo \ {j}
        /\ IF job # row THEN Persist(j, job, NoKey) ELSE db' = db /\ faults' = faults
        /\ held' = held /\ grant' = grant
        /\ proc' = proc /\ stops' = stops /\ crashes' = crashes
    BY <1>1 DEF RecoverRow, TypeOK
  <1>3. /\ \/ queue' = queue
           \/ queue' = Append(queue, j)
        /\ timer' = timer \/ timer' = [timer EXCEPT ![j] = ScheduledTimer(@)]
        /\ job.status = "pending" => queue' = Append(queue, j) \/ timer'[j] = ScheduledTimer(timer[j])
    BY <1>1 DEF RecoverRow, TypeOK
  <1>4. /\ job \in Job /\ job.retries = row.retries /\ job.max = row.max
        /\ row.status # "running" => job = row
        /\ row.status = "running" =>
              \/ row.retries >= row.max /\ job.status = "failed"
              \/ row.retries < row.max /\ job.status = "pending"
    BY <1>1, RecoveredJob
  <1> HIDE DEF row, job
  <1>5. GoesOn /\ (k # j => db'[k] = db[k])
    <2>1. CASE job = row
      BY <1>2, <2>1 DEF GoesOn
    <2>2. CASE job # row
      BY <1>1, <1>2, <1>4, <2>2, Saved DEF GoesOn
    <2> QED BY <2>1, <2>2
  <1>6. mem[j].status = "absent"
    BY <1>1, <1>2 DEF JobInv, AbsentInv
  <1>7. Occurs(Append(queue, j), j) /\ (Occurs(queue, k) => Occurs(Append(queue, j), k))
    <2>1. queue \in Seq(Jobs)
      BY <1>1 DEF TypeOK
    <2> QED BY <2>1, AppendOccurs
  <1>8. CASE k # j
    <2>1. Occurs(queue, k) => Occurs(queue', k)
      BY <1>3, <1>7
    <2>2. timer'[k] = timer[k]
      BY <1>1, <1>3, <1>8 DEF TypeOK
    <2> QED BY <1>1, <1>2, <1>5, <1>8, <2>1, <2>2, StillSafe DEF Still
  <1>9. CASE k = j /\ row.status # "absent"
    <2>1. job.status \notin {"absent", "running"}
      BY <1>4, <1>9
    <2>2. ASSUME faults' = 0, grant'[j].kind # "overlap" PROVE Within(j, mem[j])'
      <3>1. /\ Within(j, row)
            /\ grant[j].kind # "requeue" => grant[j].runs <= Allowance(j, row)
        BY <1>1, <1>2, <1>5, <1>6, <1>9, <2>2 DEF Budgeted, InMemory, HasRow, GoesOn, row
      <3>2. CASE row.status # "running"
        BY <1>2, <1>4, <3>1, <3>2 DEF Within, Allowance
      <3>3. CASE row.status = "running"
        BY <1>1, <1>2, <1>4, <3>1, <3>3 DEF Within, Allowance
      <3> QED BY <3>2, <3>3
    <2>3. job.status = "pending" => Occurs(queue', j) \/ timer'[j].sleeping > 0
      <3>1. ScheduledTimer(timer[j]).sleeping = 1
        BY <1>1, TimerOps DEF JobInv, TimerInv
      <3>2. CASE queue' = Append(queue, j)
        BY <1>7, <3>2
      <3>3. CASE timer'[j] = ScheduledTimer(timer[j])
        BY <3>1, <3>3
      <3> QED BY <1>3, <3>2, <3>3
    <2> QED BY <1>2, <1>9, <2>1, <2>2, <2>3, PutSafe
  <1>10. CASE k = j /\ row.status = "absent"
    <2>1. ~InMemory(j)' /\ ~HasRow(j)' /\ mem'[j].status = "absent"
      BY <1>2, <1>4, <1>10 DEF InMemory, HasRow, row
    <2> QED BY <1>10, <2>1 DEF Safe, Kept, Budgeted
  <1> QED BY <1>8, <1>9, <1>10

\* start reads all rows, Started has none left, stop is counted.
LEMMA ProcessSafe ==
    ASSUME SInv, start \/ Started \/ stop, NEW k \in Jobs
    PROVE  Safe(k)' /\ StopCounted'
  <1>1. TypeOK /\ Safe(k) /\ JobInv(k) /\ StopCounted /\ faults \in Nat /\ stops \in Nat
    BY Parts DEF Safe, SInv
  <1>2. /\ mem' = mem /\ db' = db /\ grant' = grant /\ queue' = queue /\ crashes' = crashes
        /\ faults' = faults \/ faults' = faults + 1
    BY DEF start, Started, stop
  <1>3. (InMemory(k)' <=> InMemory(k)) /\ (HasRow(k)' <=> HasRow(k)) /\ (Queued(k)' <=> Queued(k))
    BY <1>2 DEF InMemory, HasRow, Queued
  <1>4. Budgeted(k)'
    BY <1>1, <1>2, <1>3 DEF Safe, Budgeted, Within, Allowance
  <1>5. CASE start
    <2>1. held' = held /\ timer' = timer /\ proc' = "recovering" /\ stops' = stops
      BY <1>5 DEF start
    <2>2. faults' = 0 => faults = 0 /\ todo' = {j \in Jobs : HasRow(j) /\ ~InMemory(j)}
      BY <1>1, <1>5 DEF start
    <2>3. Kept(k)'
      BY <1>1, <1>2, <1>3, <2>1, <2>2 DEF Safe, Kept, HeldBy
    <2> QED BY <1>4, <2>1, <2>3 DEF Safe, StopCounted
  <1>6. CASE Started
    <2>1. /\ held' = held /\ timer' = timer /\ proc' = "up" /\ stops' = stops /\ faults' = faults
          /\ proc = "recovering" /\ todo = {}
      BY <1>6 DEF Started
    <2>2. Kept(k)'
      BY <1>1, <1>2, <1>3, <2>1 DEF Safe, Kept, HeldBy
    <2> QED BY <1>4, <2>1, <2>2 DEF Safe, StopCounted
  <1>7. CASE stop
    <2>1. stops' = stops + 1 /\ stops' > 0
      BY <1>1, <1>7 DEF stop
    <2> QED BY <1>1, <1>4, <2>1 DEF Safe, Kept, StopCounted
  <1> QED BY <1>5, <1>6, <1>7

\* A crash: what is left of a job is its row, which was current, and the crash is counted.
LEMMA CrashSafe ==
    ASSUME SInv, Crash, NEW k \in Jobs
    PROVE  Safe(k)'
  <1>1. /\ Safe(k) /\ Current(k) /\ crashes \in Nat /\ grant[k].runs \in Nat
        /\ db[k].job.retries \in Nat
    BY Parts DEF Safe
  <1>2. /\ mem'[k].status = "absent" /\ db' = db /\ grant' = grant /\ faults' = faults
        /\ crashes' = crashes + 1 /\ proc' = "down"
    BY DEF Crash, NoJob
  <1>3. ~InMemory(k)' /\ (HasRow(k)' <=> HasRow(k))
    BY <1>2 DEF InMemory, HasRow
  <1>4. Kept(k)'
    BY <1>2 DEF Kept
  <1>5. ASSUME faults = 0, grant[k].kind # "overlap", HasRow(k)
        PROVE  /\ Within(k, db[k].job)
               /\ grant[k].kind # "requeue" => grant[k].runs <= Allowance(k, db[k].job) + 1
    <2>1. CASE InMemory(k)
      <3>1. db[k].job = mem[k] /\ Within(k, mem[k])
        BY <1>1, <1>5, <2>1 DEF Current, Safe, Budgeted
      <3> QED BY <1>1, <3>1 DEF Within, Allowance
    <2>2. CASE ~InMemory(k)
      BY <1>1, <1>5, <2>2 DEF Safe, Budgeted, Allowance
    <2> QED BY <2>1, <2>2
  <1>6. ASSUME faults = 0, grant[k].kind # "overlap", HasRow(k)
        PROVE  /\ Within(k, db[k].job)'
               /\ grant'[k].kind # "requeue" => grant'[k].runs <= Allowance(k, db[k].job)'
    BY <1>1, <1>2, <1>5, <1>6 DEF Within, Allowance
  <1>7. Budgeted(k)'
    BY <1>2, <1>3, <1>6 DEF Budgeted
  <1> QED BY <1>4, <1>7 DEF Safe

\* purge takes rows away.
LEMMA PurgeSafe ==
    ASSUME SInv, Purging, NEW k \in Jobs
    PROVE  Safe(k)'
  <1>1. Safe(k)
    BY Parts DEF Safe
  <1>2. PICK S \in SUBSET Jobs : \E sts : purge(sts, S)
    BY DEF Purging
  <1>3. /\ db'[k] = db[k] \/ db'[k] = NoRow
        /\ mem' = mem /\ grant' = grant /\ queue' = queue /\ held' = held /\ timer' = timer
        /\ todo' = todo /\ proc' = proc /\ stops' = stops /\ crashes' = crashes /\ faults' = faults
    BY <1>2 DEF purge
  <1>4. CASE db'[k] = db[k]
    BY <1>1, <1>3, <1>4, StillSafe DEF Still, GoesOn
  <1>5. CASE db'[k] = NoRow
    <2>1. ~HasRow(k)' /\ (InMemory(k)' <=> InMemory(k)) /\ (Queued(k)' <=> Queued(k)) /\ HeldBy(k)' = HeldBy(k)
      BY <1>3, <1>5 DEF HasRow, InMemory, Queued, HeldBy, NoRow, NoJob
    <2>2. Kept(k)'
      BY <1>1, <1>3, <2>1 DEF Safe, Kept
    <2>3. Budgeted(k)'
      BY <1>1, <1>3, <2>1 DEF Safe, Budgeted, Within, Allowance
    <2> QED BY <2>2, <2>3 DEF Safe
  <1> QED BY <1>3, <1>4, <1>5

\* Every step keeps every job safe.
LEMMA NextSafe ==
    ASSUME SInv, [Next]_vars, NEW k \in Jobs
    PROVE  Safe(k)'
  <1>1. ASSUME NEW j \in Jobs, Request(j) PROVE Safe(k)'
    BY <1>1, SubmitSafe, GetSafe, CancelSafe, RequeueSafe DEF Request
  <1>2. ASSUME NEW j \in Jobs, Delayed(j) PROVE Safe(k)'
    BY <1>2, RetryDueSafe, QuietSafe DEF Delayed
  <1>3. ASSUME NEW w \in Workers, Take(w) PROVE Safe(k)'
    BY <1>3, SkipSafe, UnhandledSafe, RunSafe DEF Take
  <1>4. CASE Boot
    BY <1>4, RecoverSafe, ProcessSafe DEF Boot
  <1>5. CASE stop \/ Crash
    BY <1>5, ProcessSafe, CrashSafe
  <1> QED BY <1>1, <1>2, <1>3, <1>4, <1>5, FinishSafe, PurgeSafe, QuietSafe DEF Next

\* A process that is stopped was stopped.
LEMMA NextStopCounted ==
    ASSUME SInv, [Next]_vars
    PROVE  StopCounted'
  <1>1. StopCounted /\ stops \in Nat
    BY DEF SInv, LInv, IInv, TypeOK
  <1>2. ASSUME NEW j \in Jobs, Request(j) \/ Delayed(j) PROVE proc' = proc /\ stops' = stops
    BY <1>2 DEF Request, submit, get, cancel, requeue, Delayed, RetryDue, RetryCleanup
  <1>3. ASSUME NEW w \in Workers, Take(w) \/ Finish(w) PROVE proc' = proc /\ stops' = stops
    BY <1>3 DEF Take, TakeSkipped, TakeUnhandled, TakeRun, Finish, Succeed, FailRetry, FailTerminal
  <1>4. CASE Purging \/ (\E n \in Names : CooldownElapses(n)) \/ UNCHANGED vars
    BY <1>1, <1>4 DEF Purging, purge, CooldownElapses, vars, StopCounted
  <1>5. CASE Boot \/ stop \/ Crash
    BY <1>1, <1>5 DEF Boot, start, RecoverRow, Started, stop, Crash, StopCounted
  <1> QED BY <1>1, <1>2, <1>3, <1>4, <1>5 DEF Next, StopCounted

-----------------------------------------------------------------------------
(* No key has two live jobs.                                               *)

\* A job becomes known only by submit, which found no live row with its key.
LEMMA NewKey ==
    ASSUME SInv, [Next]_vars, NEW j \in Jobs, grant[j].kind = "none", grant'[j].kind # "none"
    PROVE  asked'[j] = NoKey \/ \A k \in Jobs : db[k].key = asked'[j] => db[k].job.status \notin Live
  <1>1. TypeOK /\ JobInv(j) /\ grant \in [Jobs -> Grant]
    BY Parts DEF TypeOK
  <1>2. ASSUME NEW i \in Jobs, NEW n \in Names, NEW m \in Budgets, NEW key \in Keys \cup {NoKey},
               submit(i, n, m, key)
        PROVE  asked'[j] = NoKey \/ \A k \in Jobs : db[k].key = asked'[j] => db[k].job.status \notin Live
    <2>1. /\ grant' = [grant EXCEPT ![i] = [kind |-> "submit", runs |-> 0]]
          /\ asked' = [asked EXCEPT ![i] = key]
          /\ key = NoKey \/ find_by_idempotency_key(key) = {}
      BY <1>2 DEF submit
    <2>2. i = j
      BY <1>1, <2>1
    <2> QED BY <1>1, <2>1, <2>2 DEF find_by_idempotency_key, TypeOK
  <1>3. ASSUME NEW i \in Jobs, get(i) \/ cancel(i) PROVE FALSE
    BY <1>3 DEF get, cancel
  <1>4. ASSUME NEW i \in Jobs, requeue(i) PROVE FALSE
    <2>1. i = j
      BY <1>1, <1>4 DEF requeue
    <2> QED BY <1>1, <1>4, <2>1 DEF requeue, JobInv, AbsentInv, InMemory, HasRow
  <1>5. ASSUME NEW i \in Jobs, Delayed(i) PROVE FALSE
    BY <1>5 DEF Delayed, RetryDue, RetryCleanup
  <1>6. ASSUME NEW w \in Workers, TakeRun(w) PROVE FALSE
    <2>1. PICK i \in Jobs : i = Head(queue)
      BY <1>6, HeadPending DEF TakeRun
    <2>2. grant' = [grant EXCEPT ![i].runs = @ + 1]
      BY <1>6, <2>1 DEF TakeRun
    <2> QED BY <1>1, <2>2 DEF Grant
  <1>7. ASSUME NEW w \in Workers, TakeSkipped(w) \/ TakeUnhandled(w) \/ Finish(w) PROVE FALSE
    BY <1>7 DEF TakeSkipped, TakeUnhandled, Finish, Succeed, FailRetry, FailTerminal
  <1>8. CASE Purging \/ (\E n \in Names : CooldownElapses(n)) \/ UNCHANGED vars
    BY <1>8 DEF Purging, purge, CooldownElapses, vars
  <1>9. CASE Boot \/ stop \/ Crash
    BY <1>9 DEF Boot, start, RecoverRow, Started, stop, Crash
  <1> QED BY <1>2, <1>3, <1>4, <1>5, <1>6, <1>7, <1>8, <1>9 DEF Next, Request, Take

\* A save of one of two jobs with the same key.
LEMMA MovedKeyed ==
    ASSUME SInv, [Next]_vars, NEW i \in Jobs, NEW k \in Jobs, i # k,
           NEW job, NEW key \in Keys \cup {NoKey}, Moved(i, job, key),
           purges' = 0, faults' = 0, asked'[i] = asked'[k], asked'[i] # NoKey,
           grant'[i].kind = "submit", grant'[k].kind = "submit"
    PROVE  db'[i].job.status \notin Live \/ db'[k].job.status \notin Live
  <1>1. Wrote(i, job, key) /\ LInv /\ Current(i) /\ Current(k) /\ Keyed(i, k)
    BY Parts DEF Moved, SInv
  <1>2. /\ faults = 0 /\ purges = 0 /\ db'[i].job = job /\ db'[k] = db[k]
        /\ grant[k].kind = "submit" /\ asked'[k] = asked[k]
    <2>1. /\ faults = 0 /\ purges = 0 /\ db'[i].job = job
          /\ \A m \in Jobs : m # i => db'[m] = db[m]
      BY <1>1, WroteEntry
    <2> QED BY <1>1, <2>1 DEF Wrote
  <1>3. CASE grant[i].kind = "none"
    <2>1. \A m \in Jobs : db[m].key = asked'[i] => db[m].job.status \notin Live
      BY <1>3, NewKey
    <2>2. db[k].key = asked[k]
      BY <1>1, <1>2 DEF Current
    <2> QED BY <1>2, <2>1, <2>2
  <1>4. CASE grant[i].kind # "none"
    <2>1. grant[i].kind = "submit" /\ asked'[i] = asked[i] /\ HasRow(i)
      BY <1>1, <1>2, <1>4 DEF Moved, Current
    <2>2. i \notin Loose
      BY <1>2, <2>1 DEF Loose
    <2>3. Lawful(db[i].job, job)
      BY <2>2 DEF Moved
    <2>4. db[i].job.status \in Live \/ job.status \notin Live
      BY <2>1, <2>3 DEF Lawful, HasRow, Live
    <2> QED BY <1>1, <1>2, <2>1, <2>4 DEF Keyed
  <1> QED BY <1>3, <1>4

\* Every step keeps the keys of live rows distinct.
LEMMA NextKeyed ==
    ASSUME SInv, [Next]_vars, NEW j \in Jobs, NEW k \in Jobs
    PROVE  Keyed(j, k)'
  <1> SUFFICES ASSUME purges' = 0, faults' = 0, j # k, asked'[j] = asked'[k], asked'[j] # NoKey,
                      grant'[j].kind = "submit", grant'[k].kind = "submit"
               PROVE  db'[j].job.status \notin Live \/ db'[k].job.status \notin Live
    BY DEF Keyed
  <1>1. LInv /\ Keyed(j, k) /\ faults \in Nat /\ purges \in Nat
    BY Parts DEF SInv
  <1>2. CASE Quiet
    BY <1>1, <1>2 DEF Quiet, Keyed
  <1>3. ASSUME NEW i \in Jobs, NEW job, NEW key \in Keys \cup {NoKey}, Wrote(i, job, key), i \notin {j, k}
        PROVE  db'[j].job.status \notin Live \/ db'[k].job.status \notin Live
    <2>1. faults = 0 /\ purges = 0 /\ db'[j] = db[j] /\ db'[k] = db[k]
      <3>1. faults = 0 /\ purges = 0 /\ \A m \in Jobs : m # i => db'[m] = db[m]
        BY <1>1, <1>3, WroteEntry
      <3> QED BY <1>3, <3>1
    <2>2. /\ grant'[j].kind = grant[j].kind /\ asked'[j] = asked[j]
          /\ grant'[k].kind = grant[k].kind /\ asked'[k] = asked[k]
      BY <1>3 DEF Wrote
    <2> QED BY <1>1, <2>1, <2>2 DEF Keyed
  <1>4. ASSUME NEW i \in Jobs, NEW job, NEW key \in Keys \cup {NoKey}, Moved(i, job, key)
        PROVE  db'[j].job.status \notin Live \/ db'[k].job.status \notin Live
    <2>1. CASE i = j
      BY <1>4, <2>1, MovedKeyed
    <2>2. CASE i = k
      BY <1>4, <2>2, MovedKeyed
    <2>3. CASE i \notin {j, k}
      <3>1. Wrote(i, job, key)
        BY <1>4 DEF Moved
      <3> QED BY <1>3, <2>3, <3>1
    <2> QED BY <2>1, <2>2, <2>3
  <1>5. ASSUME NEW i \in Jobs, Regranted(i)
        PROVE  db'[j].job.status \notin Live \/ db'[k].job.status \notin Live
    <2>1. i \notin {j, k} /\ NoKey \in Keys \cup {NoKey}
      BY <1>5 DEF Regranted
    <2>2. PICK job : Wrote(i, job, NoKey)
      BY <1>5 DEF Regranted
    <2> QED BY <1>3, <2>1, <2>2
  <1>6. ~Purging
    BY <1>1, PurgeCurrent
  <1> QED BY <1>1, <1>2, <1>4, <1>5, <1>6, Shapes

-----------------------------------------------------------------------------
(* The theorems.                                                           *)

\* The invariant holds initially.
LEMMA InitSInv == Init => SInv
  <1> SUFFICES ASSUME Init PROVE SInv
    OBVIOUS
  <1>1. ASSUME NEW j \in Jobs
        PROVE  /\ mem[j].status = "absent" /\ db[j].job.status = "absent" /\ grant[j].kind = "none"
    BY DEF Init, NoJob, NoRow
  <1>2. ASSUME NEW j \in Jobs PROVE Kept(j) /\ Budgeted(j)
    BY <1>1 DEF Kept, Budgeted, InMemory, HasRow
  <1>3. ASSUME NEW j \in Jobs, NEW k \in Jobs PROVE Keyed(j, k)
    BY <1>1 DEF Keyed, Live
  <1>4. StopCounted
    BY DEF Init, StopCounted
  <1> QED BY <1>2, <1>3, <1>4, InitLInv DEF SInv

\* Every step keeps the invariant.
LEMMA NextSInv == SInv /\ [Next]_vars => SInv'
  <1> SUFFICES ASSUME SInv, [Next]_vars PROVE SInv'
    OBVIOUS
  <1>1. LInv'
    BY NextLInv DEF SInv
  <1>2. ASSUME NEW j \in Jobs PROVE Kept(j)' /\ Budgeted(j)'
    BY NextSafe DEF Safe
  <1>3. ASSUME NEW j \in Jobs, NEW k \in Jobs PROVE Keyed(j, k)'
    BY NextKeyed
  <1> QED BY <1>1, <1>2, <1>3, NextStopCounted DEF SInv

\* The strengthened invariant is an invariant of the job queue.
LEMMA InvSInv == Spec => []SInv
  BY InitSInv, NextSInv, PTL DEF Spec

\* No job is forgotten, for every instance: as long as the queue was not stopped and
\* no SQLite error occurred, a pending job is in the asyncio queue or in a retry task
\* and a running one with a worker, through any crashes and recoveries
\* (_recover_from_db, _handle_failure, requeue).
THEOREM NoneForgotten == Spec => []NoJobForgotten
  <1>1. SInv => NoJobForgotten
    BY DEF SInv, Kept, NoJobForgotten
  <1> QED BY <1>1, InvSInv, PTL

\* The budget bounds the executions, for every instance: a submitted job is started at
\* most once more than it was retried or interrupted by a crash, a job requeued with
\* nothing left over at most once (_handle_failure, _recover_from_db, requeue).
THEOREM BudgetsHold == Spec => []ExecutionBudget
  <1>1. ASSUME SInv PROVE ExecutionBudget
    <2> SUFFICES ASSUME faults = 0, NEW j \in Jobs, grant[j].kind # "overlap", InMemory(j)
                 PROVE  /\ mem[j].retries <= mem[j].max
                        /\ grant[j].runs <= 1 + (IF grant[j].kind = "requeue" THEN 0
                                                ELSE mem[j].retries + crashes)
      BY DEF ExecutionBudget
    <2>1. Within(j, mem[j])
      BY <1>1, Parts DEF Budgeted
    <2>2. grant[j].runs \in Nat /\ mem[j].retries \in Nat /\ crashes \in Nat
      BY <1>1, Parts
    <2> QED BY <2>1, <2>2 DEF Within, Allowance
  <1> QED BY <1>1, InvSInv, PTL

\* Idempotency, for every instance: as long as no row was purged and no write lost, two
\* jobs submitted with the same key are never both pending or running (submit,
\* find_by_idempotency_key).
THEOREM OneLiveJobPerKey == Spec => []LiveKeysDistinct
  <1>1. ASSUME SInv PROVE LiveKeysDistinct
    <2> SUFFICES ASSUME purges = 0, faults = 0, NEW j \in Jobs, NEW k \in Jobs,
                        j # k, asked[j] = asked[k], asked[j] # NoKey,
                        grant[j].kind = "submit", grant[k].kind = "submit"
                 PROVE  mem[j].status \notin Live \/ mem[k].status \notin Live
      BY DEF LiveKeysDistinct
    <2>1. ASSUME NEW i \in Jobs, grant[i].kind = "submit", mem[i].status \in Live
          PROVE  db[i].job.status \in Live
      <3>1. Current(i) /\ InMemory(i)
        BY <1>1, <2>1, Parts DEF InMemory, Live
      <3> QED BY <2>1, <3>1 DEF Current
    <2>2. Keyed(j, k)
      BY <1>1 DEF SInv
    <2> QED BY <2>1, <2>2 DEF Keyed
  <1> QED BY <1>1, InvSInv, PTL

\* A step that does not schedule a retry does not raise the retry count of a job in memory.
LEMMA OnlyRetriesCount ==
    ASSUME IInv, [Next]_vars, NEW j \in Jobs, InMemory(j), mem'[j].retries > mem[j].retries
    PROVE  \E w \in Workers, sig \in Errors \cup {TimedOut} : FailRetry(w, sig) /\ held[w] = j
  <1>1. TypeOK /\ JobInv(j) /\ mem \in [Jobs -> Job] /\ mem[j] \in Job /\ mem[j].retries \in Nat
    BY DEF IInv, TypeOK, Job
  <1>2. ~(mem'[j] = mem[j]) /\ ~(mem'[j].retries = mem[j].retries)
    BY <1>1
  <1>3. ASSUME NEW i \in Jobs, NEW n \in Names, NEW m \in Budgets, NEW key \in Keys \cup {NoKey},
               submit(i, n, m, key)
        PROVE  FALSE
    <2>1. i = j
      BY <1>1, <1>2, <1>3 DEF submit
    <2> QED BY <1>1, <1>3, <2>1 DEF submit, JobInv, AbsentInv, InMemory
  <1>4. ASSUME NEW i \in Jobs, get(i) PROVE FALSE
    BY <1>1, <1>2, <1>4 DEF get
  <1>5. ASSUME NEW i \in Jobs, cancel(i) PROVE FALSE
    BY <1>1, <1>2, <1>5 DEF cancel, Settle
  <1>6. ASSUME NEW i \in Jobs, requeue(i) PROVE FALSE
    BY <1>1, <1>2, <1>6 DEF requeue, Requeued
  <1>7. ASSUME NEW i \in Jobs, Delayed(i) PROVE FALSE
    BY <1>2, <1>7 DEF Delayed, RetryDue, RetryCleanup
  <1>8. ASSUME NEW w \in Workers, Take(w) PROVE FALSE
    <2>1. CASE TakeSkipped(w)
      BY <1>2, <2>1 DEF TakeSkipped
    <2>2. CASE TakeUnhandled(w)
      <3>1. mem' = [mem EXCEPT ![Head(queue)] = Become(mem[Head(queue)], "failed")]
        BY <2>2 DEF TakeUnhandled
      <3>2. Become(mem[j], "failed").retries = mem[j].retries
        BY <1>1, JobOps DEF JobStatus, Terminal, Failures
      <3> QED BY <1>1, <1>2, <3>1, <3>2
    <2>3. CASE TakeRun(w)
      <3>1. mem' = [mem EXCEPT ![Head(queue)] = Settle(mem[Head(queue)], "running")]
        BY <2>3 DEF TakeRun
      <3> QED BY <1>1, <1>2, <3>1 DEF Settle
    <2> QED BY <1>8, <2>1, <2>2, <2>3 DEF Take
  <1>9. ASSUME NEW w \in Workers, NEW status \in JobStatus,
               mem' = [mem EXCEPT ![held[w]] = Become(mem[held[w]], status)]
        PROVE  FALSE
    <2>1. Become(mem[j], status).retries = mem[j].retries
      BY <1>1, JobOps
    <2> QED BY <1>1, <1>2, <1>9, <2>1
  <1>10. "completed" \in JobStatus /\ "failed" \in JobStatus /\ "timeout" \in JobStatus
    BY DEF JobStatus, Terminal, Failures
  <1>11. ASSUME NEW w \in Workers, Succeed(w) PROVE FALSE
    BY <1>9, <1>10, <1>11 DEF Succeed
  <1>12. ASSUME NEW w \in Workers, NEW sig, FailTerminal(w, sig) PROVE FALSE
    BY <1>9, <1>10, <1>12 DEF FailTerminal
  <1>13. ASSUME NEW w \in Workers, NEW sig, FailRetry(w, sig) PROVE held[w] = j
    BY <1>1, <1>2, <1>13 DEF FailRetry
  <1>14. CASE Purging \/ (\E n \in Names : CooldownElapses(n)) \/ UNCHANGED vars
    BY <1>2, <1>14 DEF Purging, purge, CooldownElapses, vars
  <1>15. ASSUME NEW i \in Jobs, RecoverRow(i) PROVE FALSE
    <2>1. i = j
      BY <1>1, <1>2, <1>15 DEF RecoverRow
    <2> QED BY <1>1, <1>15, <2>1 DEF RecoverRow, JobInv, AbsentInv, InMemory
  <1>16. CASE start \/ Started \/ stop
    BY <1>2, <1>16 DEF start, Started, stop
  <1>17. CASE Crash
    BY <1>1, <1>17 DEF Crash, NoJob
  <1> QED
    BY <1>3, <1>4, <1>5, <1>6, <1>7, <1>8, <1>11, <1>12, <1>13, <1>14, <1>15, <1>16, <1>17
    DEF Next, Request, Finish, Boot

\* The storm breaker, for every instance: whatever is running, a retry is scheduled only
\* by a failure that found the breaker of its name closed or cooled down and that
\* does not complete a storm (_breaker_record_failure, _handle_failure).
THEOREM StormsSuppressRetries == Spec => StormSuppressesRetries
  <1> DEFINE Suppressed == \A j \in Jobs :
                InMemory(j) /\ mem'[j].retries > mem[j].retries =>
                   LET n == mem[j].name
                   IN  /\ breaker[n].state # "open"
                       /\ breaker'[n].state # "open" /\ breaker'[n].count < StormWindow
  <1>1. ASSUME IInv, [Next]_vars PROVE Suppressed
    <2> SUFFICES ASSUME NEW j \in Jobs, InMemory(j), mem'[j].retries > mem[j].retries
                 PROVE  /\ breaker[mem[j].name].state # "open"
                        /\ breaker'[mem[j].name].state # "open"
                        /\ breaker'[mem[j].name].count < StormWindow
      OBVIOUS
    <2> DEFINE n == mem[j].name
    <2>1. PICK w \in Workers, sig \in Errors \cup {TimedOut} : FailRetry(w, sig) /\ held[w] = j
      BY <1>1, OnlyRetriesCount
    <2>2. n \in Names /\ breaker \in [Names -> Breaker] /\ breaker[n] \in Breaker
      BY <1>1 DEF IInv, TypeOK, Job
    <2>3. /\ breaker' = [breaker EXCEPT ![n] = BreakerAfterFailure(breaker[n], sig)]
          /\ BreakerAfterFailure(breaker[n], sig).state # "open"
      BY <2>1 DEF FailRetry
    <2>4. \A b \in Breaker : BreakerAfterFailure(b, sig).state # "open" =>
             b.state # "open" /\ BreakerAfterFailure(b, sig).count < StormWindow
      BY ConstantAssumption DEF Breaker, BreakerAfterFailure
    <2>5. breaker'[n] = BreakerAfterFailure(breaker[n], sig)
      BY <2>2, <2>3
    <2> QED BY <2>2, <2>3, <2>4, <2>5
  <1>2. IInv /\ [Next]_vars => [Suppressed]_vars
    BY <1>1
  <1> HIDE DEF Suppressed
  <1>3. Spec => [][Suppressed]_vars
    BY <1>2, InvIInv, PTL DEF Spec
  <1> QED BY <1>3 DEF Suppressed, StormSuppressesRetries
=============================================================================
