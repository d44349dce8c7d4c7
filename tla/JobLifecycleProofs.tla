------------------------- MODULE JobLifecycleProofs -------------------------
(***************************************************************************)
(* JobQueue implements JobLifecycle, for every number of jobs and workers  *)
(* and every bound.  The argument needs two things beyond the invariant of *)
(* JobQueueProofs: the table is as new as the memory, so that what a       *)
(* worker or a request decides from the Job object is decided from the row *)
(* too; and every action is of one of three shapes, seen from the table:   *)
(* it writes nothing, it saves one job, or it purges.                      *)
(***************************************************************************)
EXTENDS JobQueueProofs

\* The row of a job is as new as the job, and a job not yet submitted has no key.
Current(j) ==
    /\ faults = 0 =>
          /\ InMemory(j) /\ HasRow(j) => db[j].job = mem[j]
          /\ purges = 0 /\ grant[j].kind # "none" => HasRow(j) /\ db[j].key = asked[j]
    /\ grant[j].kind = "none" => db[j].key = NoKey

LInv == IInv /\ \A j \in Jobs : Current(j)

\* A step that writes nothing: the memory may be lost, or a row loaded into it.
Quiet ==
    /\ db' = db /\ purges' = purges /\ asked' = asked
    /\ faults' = faults \/ faults' = faults + 1
    /\ \A k \in Jobs :
          /\ grant'[k].kind = grant[k].kind
          /\ mem'[k] = mem[k] \/ mem'[k].status = "absent" \/ mem'[k] = db[k].job

\* A step that gives job j a new value and saves it.
Wrote(j, job, key) ==
    /\ job \in Job /\ job.status # "absent"
    /\ mem' = [mem EXCEPT ![j] = job] /\ Persist(j, job, key)
    /\ purges' = purges /\ grant'[j].kind # "none"
    /\ \A k \in Jobs : k # j => grant'[k].kind = grant[k].kind /\ asked'[k] = asked[k]

-----------------------------------------------------------------------------
(* The table is as new as the memory.                                      *)

\* A step that writes nothing leaves every row as new as its job.
LEMMA QuietCurrent ==
    ASSUME LInv, Quiet, NEW k \in Jobs
    PROVE  Current(k)'
  <1>1. Current(k) /\ faults \in Nat /\ mem[k] \in Job /\ db[k] \in Row
    BY DEF LInv, IInv, TypeOK
  <1>2. faults' = 0 => faults = 0
    BY <1>1 DEF Quiet
  <1> QED
    BY <1>1, <1>2 DEF Quiet, Current, InMemory, HasRow

\* Saving a job makes its row the job and leaves the other rows alone.
LEMMA WroteCurrent ==
    ASSUME LInv, NEW j \in Jobs, NEW job, NEW key \in Keys \cup {NoKey}, Wrote(j, job, key),
           \/ grant[j].kind = "none" /\ asked'[j] = key
           \/ grant[j].kind # "none" /\ asked'[j] = asked[j] /\ key = NoKey,
           NEW k \in Jobs
    PROVE  Current(k)'
  <1>1. TypeOK /\ Current(k) /\ Current(j) /\ job \in Job /\ Persist(j, job, key) /\ faults \in Nat
    BY DEF LInv, IInv, TypeOK, Wrote
  <1>2. /\ \A i \in Jobs : i # j => db'[i] = db[i]
        /\ \/ faults' = faults /\ db'[j].job = job
                /\ db'[j].key = (IF key # NoKey THEN key ELSE db[j].key)
           \/ faults' = faults + 1 /\ db' = db
    BY <1>1, PersistRow
  <1>3. mem'[j] = job /\ \A i \in Jobs : i # j => mem'[i] = mem[i]
    BY <1>1 DEF Wrote, TypeOK
  <1>4. CASE k # j
    <2>1. faults' = 0 => faults = 0
      BY <1>1, <1>2
    <2> QED
      BY <1>1, <1>2, <1>3, <1>4, <2>1 DEF Current, Wrote, InMemory, HasRow
  <1>5. CASE k = j /\ faults' = faults + 1
    <2>1. faults' # 0
      BY <1>1, <1>5
    <2> QED
      BY <1>5, <2>1 DEF Current, Wrote
  <1>6. CASE k = j /\ faults' = faults
    <2>1. db'[j].job = job /\ db'[j].key = (IF key # NoKey THEN key ELSE db[j].key)
      BY <1>1, <1>2, <1>6
    <2>2. faults = 0 /\ purges = 0 => db'[j].key = asked'[j]
      BY <1>1, <2>1 DEF Current
    <2> QED
      BY <1>3, <1>6, <2>1, <2>2 DEF Current, Wrote, InMemory, HasRow
  <1> QED
    BY <1>2, <1>4, <1>5, <1>6

-----------------------------------------------------------------------------
(* The shape of each action, and what it makes of the entry of its job.    *)

\* One step of the life of a job.
Lawful(old, new) ==
    \/ /\ old.status = "absent" /\ new.status = "pending"
       /\ new.retries = 0 /\ new.max \in Budgets
    \/ /\ old.status = "pending" /\ new.status \in {"running", "cancelled", "failed"}
       /\ new.retries = old.retries /\ new.max = old.max
    \/ /\ old.status = "running" /\ new.status \in {"completed", "failed", "timeout"}
       /\ new.retries = old.retries /\ new.max = old.max
    \/ /\ old.status = "running" /\ old.retries < old.max /\ new.status = "pending"
       /\ new.retries \in {old.retries, old.retries + 1} /\ new.max = old.max

\* An action that saves a job, with the entry of a bound job going one step.
Moved(j, job, key) ==
    /\ Wrote(j, job, key)
    /\ \/ grant'[j].kind = grant[j].kind
       \/ grant[j].kind = "none" /\ grant'[j].kind = "submit"
    /\ j \notin Loose => Lawful(db[j].job, job)
    /\ \/ grant[j].kind = "none" /\ asked'[j] = key
       \/ grant[j].kind # "none" /\ asked'[j] = asked[j] /\ key = NoKey

\* A bound job that is in memory is what its row says.
LEMMA BoundRow ==
    ASSUME LInv, NEW j \in Jobs, j \notin Loose, InMemory(j)
    PROVE  db[j].job = mem[j] /\ grant[j].kind # "overlap"
  <1>1. Current(j) /\ JobInv(j) /\ faults \in Nat /\ purges \in Nat
    BY DEF LInv, IInv, TypeOK
  <1>2. faults = 0 /\ purges = 0 /\ grant[j].kind # "overlap"
    BY <1>1 DEF Loose
  <1>3. grant[j].kind # "none"
    BY <1>1 DEF JobInv, AbsentInv, InMemory
  <1> QED
    BY <1>1, <1>2, <1>3 DEF Current

\* submit accepts a job that has no row yet.
LEMMA SubmitMoves ==
    ASSUME LInv, NEW j \in Jobs, NEW n \in Names, NEW m \in Budgets,
           NEW key \in Keys \cup {NoKey}, submit(j, n, m, key)
    PROVE  \E job : Moved(j, job, key)
  <1> DEFINE job == [name |-> n, status |-> "pending", retries |-> 0, max |-> m, retryAt |-> "unset"]
  <1>1. TypeOK /\ JobInv(j)
    BY DEF LInv, IInv
  <1>2. job \in Job /\ job.status = "pending" /\ job.retries = 0 /\ job.max = m
    BY ConstantAssumption DEF Job, JobStatus, Live
  <1>3. grant[j].kind = "none" /\ db[j].job.status = "absent"
    BY <1>1 DEF submit, JobInv, AbsentInv
  <1>4. grant'[j].kind = "submit" /\ asked'[j] = key
        /\ \A k \in Jobs : k # j => grant'[k].kind = grant[k].kind /\ asked'[k] = asked[k]
    BY <1>1 DEF submit, TypeOK, Grant
  <1>5. mem' = [mem EXCEPT ![j] = job] /\ Persist(j, job, key) /\ purges' = purges
    BY DEF submit
  <1>6. Lawful(db[j].job, job)
    BY <1>2, <1>3 DEF Lawful
  <1> HIDE DEF job
  <1>7. Moved(j, job, key)
    BY <1>2, <1>3, <1>4, <1>5, <1>6 DEF Moved, Wrote
  <1> QED
    BY <1>7

\* cancel ends a pending job.
LEMMA CancelMoves ==
    ASSUME LInv, NEW j \in Jobs, cancel(j)
    PROVE  \E job : Moved(j, job, NoKey)
  <1> DEFINE job == Settle(mem[j], "cancelled")
  <1>1. TypeOK /\ JobInv(j) /\ mem[j] \in Job /\ mem[j].status = "pending"
    BY DEF LInv, IInv, TypeOK, cancel
  <1>2. job \in Job /\ job.status = "cancelled" /\ job.retries = mem[j].retries /\ job.max = mem[j].max
    BY <1>1, JobOps DEF JobStatus, Terminal, Failures
  <1>3. grant[j].kind # "none"
    BY <1>1 DEF JobInv, AbsentInv
  <1>4. mem' = [mem EXCEPT ![j] = job] /\ Persist(j, job, NoKey) /\ purges' = purges
        /\ grant' = grant /\ asked' = asked
    BY DEF cancel
  <1>5. j \notin Loose => Lawful(db[j].job, job)
    BY <1>1, <1>2, BoundRow DEF Lawful, InMemory
  <1> HIDE DEF job
  <1>6. Moved(j, job, NoKey)
    BY <1>2, <1>3, <1>4, <1>5 DEF Moved, Wrote
  <1> QED
    BY <1>6

\* What a worker does with the head of the queue.
LEMMA TakeMoves ==
    ASSUME LInv, NEW w \in Workers, TakeUnhandled(w) \/ TakeRun(w)
    PROVE  \E j \in Jobs : \E job : Moved(j, job, NoKey)
  <1>0. PICK j \in Jobs : j = Head(queue)
    BY HeadFacts DEF LInv, TakeUnhandled, TakeRun
  <1>1. /\ TypeOK /\ JobInv(j) /\ mem[j] \in Job /\ grant[j] \in Grant
        /\ queue # <<>> /\ Queued(j) /\ grant[j].kind # "none"
    <2>1. IInv /\ queue # <<>>
      BY DEF LInv, TakeUnhandled, TakeRun
    <2>2. TypeOK /\ JobInv(j) /\ Queued(j) /\ grant[j].kind # "none"
      BY <1>0, <2>1, HeadFacts DEF IInv
    <2> QED
      BY <2>1, <2>2 DEF TypeOK
  <1>2. mem[j].status \notin {"absent", "cancelled"}
    BY <1>0 DEF TakeUnhandled, TakeRun
  <1>3. grant[j].kind # "overlap" => mem[j].status = "pending"
    BY <1>1, <1>2 DEF JobInv, SingleInv, Single
  <1>4. CASE TakeUnhandled(w)
    <2> DEFINE job == Become(mem[j], "failed")
    <2>1. job \in Job /\ job.status = "failed" /\ job.retries = mem[j].retries /\ job.max = mem[j].max
      BY <1>1, JobOps DEF JobStatus, Terminal, Failures
    <2>2. mem' = [mem EXCEPT ![j] = job] /\ Persist(j, job, NoKey) /\ purges' = purges
          /\ grant' = grant /\ asked' = asked
      BY <1>0, <1>4 DEF TakeUnhandled
    <2>3. j \notin Loose => Lawful(db[j].job, job)
      BY <1>2, <1>3, <2>1, BoundRow DEF Lawful, InMemory
    <2> HIDE DEF job
    <2>4. Moved(j, job, NoKey)
      BY <1>1, <2>1, <2>2, <2>3 DEF Moved, Wrote
    <2> QED
      BY <2>4
  <1>5. CASE TakeRun(w)
    <2> DEFINE job == Settle(mem[j], "running")
    <2>1. job \in Job /\ job.status = "running" /\ job.retries = mem[j].retries /\ job.max = mem[j].max
      BY <1>1, JobOps DEF JobStatus, Live
    <2>2. mem' = [mem EXCEPT ![j] = job] /\ Persist(j, job, NoKey) /\ purges' = purges /\ asked' = asked
      BY <1>0, <1>5 DEF TakeRun
    <2>3. grant' = [grant EXCEPT ![j].runs = @ + 1]
      BY <1>0, <1>5 DEF TakeRun
    <2>4. \A k \in Jobs : grant'[k].kind = grant[k].kind
      BY <1>1, <2>3 DEF TypeOK, Grant
    <2>5. j \notin Loose => Lawful(db[j].job, job)
      BY <1>2, <1>3, <2>1, BoundRow DEF Lawful, InMemory
    <2> HIDE DEF job
    <2>6. Moved(j, job, NoKey)
      BY <1>1, <2>1, <2>2, <2>4, <2>5 DEF Moved, Wrote
    <2> QED
      BY <2>6
  <1> QED
    BY <1>4, <1>5

\* What becomes of the job of a worker whose handler ends.
LEMMA FinishMoves ==
    ASSUME LInv, NEW w \in Workers, Finish(w)
    PROVE  \E j \in Jobs : \E job : Moved(j, job, NoKey)
  <1>0. PICK j \in Jobs : held[w] = j
    BY DEF LInv, IInv, TypeOK, Finish, Succeed, FailRetry, FailTerminal
  <1>1. /\ TypeOK /\ JobInv(j) /\ mem[j] \in Job
        /\ mem[j].status # "absent" /\ grant[j].kind # "none"
    BY <1>0, HeldFacts DEF LInv, IInv, TypeOK
  <1>2. grant[j].kind # "overlap" => mem[j].status = "running"
    BY <1>0, <1>1 DEF JobInv, SingleInv, Single, HeldBy
  <1>3. /\ purges' = purges /\ grant' = grant /\ asked' = asked
    BY DEF Finish, Succeed, FailRetry, FailTerminal
  <1>4. ASSUME NEW status \in {"completed", "failed", "timeout"},
               mem' = [mem EXCEPT ![j] = Become(mem[j], status)],
               Persist(j, Become(mem[j], status), NoKey)
        PROVE  \E job : Moved(j, job, NoKey)
    <2> DEFINE job == Become(mem[j], status)
    <2>1. job \in Job /\ job.status = status /\ job.retries = mem[j].retries /\ job.max = mem[j].max
      <3>1. status \in JobStatus
        BY DEF JobStatus, Terminal, Failures
      <3> QED
        BY <1>1, <3>1, JobOps
    <2>2. j \notin Loose => Lawful(db[j].job, job)
      BY <1>1, <1>2, <2>1, BoundRow DEF Lawful, InMemory
    <2>3. mem' = [mem EXCEPT ![j] = job] /\ Persist(j, job, NoKey)
      BY <1>4
    <2> HIDE DEF job
    <2>4. Moved(j, job, NoKey)
      BY <1>1, <1>3, <2>1, <2>2, <2>3 DEF Moved, Wrote
    <2> QED
      BY <2>4
  <1>5. ASSUME mem[j].retries < mem[j].max,
               mem' = [mem EXCEPT ![j] = Retrying(mem[j])],
               Persist(j, Retrying(mem[j]), NoKey)
        PROVE  \E job : Moved(j, job, NoKey)
    <2> DEFINE job == Retrying(mem[j])
    <2>1. job \in Job /\ job.status = "pending"
      BY <1>1, JobOps DEF JobStatus, Live
    <2>2. job.retries = mem[j].retries + 1 /\ job.max = mem[j].max
      BY DEF Retrying
    <2>3. mem' = [mem EXCEPT ![j] = job] /\ Persist(j, job, NoKey)
      BY <1>5
    <2> HIDE DEF job
    <2>4. j \notin Loose => Lawful(db[j].job, job)
      BY <1>1, <1>2, <1>5, <2>1, <2>2, BoundRow DEF Lawful, InMemory
    <2>5. Moved(j, job, NoKey)
      BY <1>1, <1>3, <2>1, <2>3, <2>4 DEF Moved, Wrote
    <2> QED
      BY <2>5
  <1>6. CASE Succeed(w)
    BY <1>0, <1>4, <1>6 DEF Succeed
  <1>7. ASSUME NEW sig, FailTerminal(w, sig) PROVE \E job : Moved(j, job, NoKey)
    BY <1>0, <1>4, <1>7 DEF FailTerminal
  <1>8. ASSUME NEW sig, FailRetry(w, sig) PROVE \E job : Moved(j, job, NoKey)
    BY <1>0, <1>5, <1>8 DEF FailRetry
  <1> QED
    BY <1>6, <1>7, <1>8 DEF Finish

\* A row that recovery takes over as it is, or moves out of the status of its dead process.
LEMMA RecoverMoves ==
    ASSUME LInv, NEW j \in Jobs, RecoverRow(j)
    PROVE  Quiet \/ \E job : Moved(j, job, NoKey)
  <1> DEFINE row == db[j].job
             job == Recovered(row)
  <1>1. TypeOK /\ JobInv(j) /\ row \in Job /\ mem \in [Jobs -> Job]
    BY DEF LInv, IInv, TypeOK, Row
  <1>2. /\ mem' = [mem EXCEPT ![j] = job] /\ purges' = purges /\ grant' = grant /\ asked' = asked
        /\ IF job # row THEN Persist(j, job, NoKey) ELSE db' = db /\ faults' = faults
    BY DEF RecoverRow
  <1>3. CASE job = row
    BY <1>1, <1>2, <1>3 DEF Quiet
  <1>4. CASE job # row
    <2>1. row.status = "running"
      BY <1>4 DEF Recovered
    <2>2. grant[j].kind # "none"
      BY <1>1, <2>1 DEF JobInv, AbsentInv
    <2>3. /\ job \in Job /\ job.retries = row.retries /\ job.max = row.max
          /\ \/ job.status = "failed"
             \/ row.retries < row.max /\ job.status = "pending"
      <3>1. "failed" \in JobStatus /\ "pending" \in JobStatus
        BY DEF JobStatus, Live, Terminal, Failures
      <3>2. row.retries \in Nat /\ row.max \in Nat
        BY <1>1, <3>1, JobOps
      <3>3. ASSUME NEW st \in {"failed", "pending"}
            PROVE  /\ Become(row, st) \in Job /\ Become(row, st).status = st
                   /\ Become(row, st).retries = row.retries /\ Become(row, st).max = row.max
        <4>1. row \in Job /\ st \in JobStatus
          BY <1>1, <3>1
        <4> HIDE DEF row, job
        <4> QED
          BY <4>1, JobOps
      <3>4. job = Become(row, IF row.retries >= row.max THEN "failed" ELSE "pending")
        BY <2>1 DEF Recovered
      <3> HIDE DEF row, job
      <3>5. CASE row.retries >= row.max
        BY <3>3, <3>4, <3>5
      <3>6. CASE ~(row.retries >= row.max)
        BY <3>2, <3>3, <3>4, <3>6
      <3> QED
        BY <3>5, <3>6
    <2>4. Lawful(row, job)
      BY <2>1, <2>3 DEF Lawful
    <2>5. Persist(j, job, NoKey)
      BY <1>2, <1>4
    <2> HIDE DEF job
    <2>6. Moved(j, job, NoKey)
      BY <1>2, <2>2, <2>3, <2>4, <2>5 DEF Moved, Wrote
    <2> QED
      BY <2>6
  <1> QED
    BY <1>3, <1>4

\* requeue of an ended job.
Regranted(j) ==
    LET old == IF InMemory(j) THEN mem[j] ELSE db[j].job
    IN  /\ old.status \in Failures
        /\ Wrote(j, Requeued(old), NoKey)
        /\ grant[j].kind # "none" /\ grant'[j].kind \in {"overlap", "requeue"}
        /\ asked' = asked

\* requeue regrants an ended job, or only loads it from its row.
LEMMA RequeueMoves ==
    ASSUME LInv, NEW j \in Jobs, requeue(j)
    PROVE  Quiet \/ Regranted(j)
  <1> DEFINE old == IF InMemory(j) THEN mem[j] ELSE db[j].job
  <1>1. TypeOK /\ JobInv(j) /\ old \in Job /\ mem \in [Jobs -> Job] /\ grant \in [Jobs -> Grant]
    BY DEF LInv, IInv, TypeOK, Row
  <1>2. purges' = purges /\ asked' = asked /\ grant[j].kind # "none"
    BY <1>1 DEF requeue, JobInv, AbsentInv, InMemory, HasRow
  <1>3. CASE /\ old.status \in Failures
             /\ mem' = [mem EXCEPT ![j] = Requeued(old)]
             /\ Persist(j, Requeued(old), NoKey)
             /\ grant' = [grant EXCEPT ![j] =
                   [kind |-> IF Queued(j) \/ HeldBy(j) # {} \/ timer[j].sleeping > 0
                             THEN "overlap" ELSE "requeue",
                    runs |-> 0]]
    <2>1. Requeued(old) \in Job /\ Requeued(old).status = "pending"
      BY <1>1, JobOps DEF JobStatus, Live
    <2>2. /\ grant'[j].kind \in {"overlap", "requeue"}
          /\ \A k \in Jobs : k # j => grant'[k].kind = grant[k].kind
      BY <1>1, <1>3 DEF Grant
    <2>3. Wrote(j, Requeued(old), NoKey)
      BY <1>2, <1>3, <2>1, <2>2 DEF Wrote
    <2> QED
      BY <1>2, <1>3, <2>2, <2>3 DEF Regranted
  <1>4. CASE ~InMemory(j) /\ mem' = [mem EXCEPT ![j] = old] /\ UNCHANGED <<db, faults, grant>>
    BY <1>1, <1>2, <1>4 DEF Quiet
  <1> QED
    BY <1>3, <1>4 DEF requeue

\* The actions that write nothing.
LEMMA QuietActions ==
    ASSUME LInv,
           \/ \E j \in Jobs : get(j) \/ Delayed(j)
           \/ \E w \in Workers : TakeSkipped(w)
           \/ \E n \in Names : CooldownElapses(n)
           \/ start \/ Started \/ stop \/ Crash \/ UNCHANGED vars
    PROVE  Quiet
  <1>1. mem \in [Jobs -> Job]
    BY DEF LInv, IInv, TypeOK
  <1>2. ASSUME NEW j \in Jobs, get(j) PROVE Quiet
    BY <1>1, <1>2 DEF get, Quiet
  <1>3. ASSUME NEW j \in Jobs, Delayed(j) PROVE Quiet
    BY <1>3 DEF Delayed, RetryDue, RetryCleanup, Quiet
  <1>4. ASSUME NEW w \in Workers, TakeSkipped(w) PROVE Quiet
    BY <1>4 DEF TakeSkipped, Quiet
  <1>5. ASSUME NEW n \in Names, CooldownElapses(n) PROVE Quiet
    BY <1>5 DEF CooldownElapses, Quiet
  <1>6. CASE start
    BY <1>6 DEF start, Quiet
  <1>7. CASE Started \/ stop \/ UNCHANGED vars
    BY <1>7 DEF Started, stop, vars, Quiet
  <1>8. CASE Crash
    BY <1>8 DEF Crash, NoJob, Quiet
  <1> QED
    BY <1>2, <1>3, <1>4, <1>5, <1>6, <1>7, <1>8

\* Every step is of one of four shapes.
LEMMA Shapes ==
    ASSUME LInv, [Next]_vars
    PROVE  \/ Quiet
           \/ \E j \in Jobs : \E job : \E key \in Keys \cup {NoKey} : Moved(j, job, key)
           \/ \E j \in Jobs : Regranted(j)
           \/ Purging
  <1>1. ASSUME NEW j \in Jobs, Request(j)
        PROVE  \/ Quiet
               \/ \E job : \E key \in Keys \cup {NoKey} : Moved(j, job, key)
               \/ Regranted(j)
    BY <1>1, SubmitMoves, CancelMoves, RequeueMoves, QuietActions DEF Request
  <1>2. ASSUME NEW w \in Workers, Take(w) \/ Finish(w)
        PROVE  Quiet \/ \E j \in Jobs : \E job : Moved(j, job, NoKey)
    BY <1>2, TakeMoves, FinishMoves, QuietActions DEF Take
  <1>3. CASE Boot
    BY <1>3, RecoverMoves, QuietActions DEF Boot
  <1>4. NoKey \in Keys \cup {NoKey}
    OBVIOUS
  <1> QED
    BY <1>1, <1>2, <1>3, <1>4, QuietActions DEF Next

-----------------------------------------------------------------------------
(* The invariant.                                                          *)

\* purge removes rows, and keys with them.
LEMMA PurgeCurrent ==
    ASSUME LInv, Purging, NEW k \in Jobs
    PROVE  Current(k)' /\ purges' = purges + 1
  <1>1. Current(k) /\ purges \in Nat
    BY DEF LInv, IInv, TypeOK
  <1>2. PICK S \in SUBSET Jobs : \E sts : purge(sts, S)
    BY DEF Purging
  <1>3. /\ mem' = mem /\ grant' = grant /\ faults' = faults /\ purges' = purges + 1
        /\ db'[k] = db[k] \/ db'[k] = NoRow
    BY <1>2 DEF purge
  <1>4. NoRow.key = NoKey /\ NoRow.job.status = "absent"
    BY DEF NoRow, NoJob
  <1>5. purges' # 0
    BY <1>1, <1>3
  <1> QED
    BY <1>1, <1>3, <1>4, <1>5 DEF Current, InMemory, HasRow

\* The invariant holds initially.
LEMMA InitLInv == Init => LInv
  <1> SUFFICES ASSUME Init PROVE LInv
    OBVIOUS
  <1>1. ASSUME NEW k \in Jobs PROVE Current(k)
    BY DEF Init, Current, InMemory, NoJob, NoRow
  <1> QED
    BY <1>1, InitIInv DEF LInv

\* Every step keeps the invariant, by the four shapes.
LEMMA NextLInv == LInv /\ [Next]_vars => LInv'
  <1> SUFFICES ASSUME LInv, [Next]_vars PROVE LInv'
    OBVIOUS
  <1>1. IInv'
    BY NextIInv DEF LInv
  <1>2. ASSUME NEW k \in Jobs PROVE Current(k)'
    <2>1. CASE Quiet
      BY <2>1, QuietCurrent
    <2>2. ASSUME NEW j \in Jobs, NEW job, NEW key \in Keys \cup {NoKey}, Moved(j, job, key)
          PROVE  Current(k)'
      <3>1. /\ Wrote(j, job, key)
            /\ \/ grant[j].kind = "none" /\ asked'[j] = key
               \/ grant[j].kind # "none" /\ asked'[j] = asked[j] /\ key = NoKey
        BY <2>2 DEF Moved
      <3> QED
        BY <3>1, WroteCurrent
    <2>3. ASSUME NEW j \in Jobs, Regranted(j) PROVE Current(k)'
      <3>1. PICK job : Wrote(j, job, NoKey) /\ grant[j].kind # "none" /\ asked' = asked
        BY <2>3 DEF Regranted
      <3> QED
        BY <3>1, WroteCurrent
    <2>4. CASE Purging
      BY <2>4, PurgeCurrent
    <2> QED
      BY <2>1, <2>2, <2>3, <2>4, Shapes
  <1> QED
    BY <1>1, <1>2 DEF LInv

\* The strengthened invariant is an invariant of the job queue.
LEMMA InvLInv == Spec => []LInv
  BY InitLInv, NextLInv, PTL DEF Spec

\* Write-through, for every instance: as long as SQLite reports no error, the row
\* of every job in memory is the job, and unless rows were purged every submitted
\* job has a row with its key.
THEOREM RowsAreCurrent == Spec => []WriteThrough
  <1>1. LInv => WriteThrough
    BY DEF LInv, Current, WriteThrough
  <1> QED
    BY <1>1, InvLInv, PTL

-----------------------------------------------------------------------------
(* The refinement.                                                         *)

\* The entry of a job is an entry.
LEMMA EntryType ==
    ASSUME NEW job \in Job
    PROVE  LedgerEntry(job) \in Lifecycle!Entries
  BY DEF LedgerEntry, Lifecycle!Entries, Lifecycle!Ended, Job, JobStatus, Live, Terminal, Failures

\* After a lost write or a purge every job is loose.
LEMMA Disturbed ==
    ASSUME LInv, LInv', faults' > 0 \/ purges' > 0
    PROVE  Lifecycle!Next
  <1>1. ASSUME NEW j \in Jobs PROVE LedgerEntry(db'[j].job) \in Lifecycle!Entries
    <2>1. db'[j].job \in Job
      BY DEF LInv, IInv, TypeOK, Row
    <2> QED
      BY <2>1, EntryType
  <1>2. Loose' = Jobs
    BY DEF Loose
  <1> QED
    BY <1>1, <1>2 DEF Lifecycle!Next, Lifecycle!Disturb

\* A step that writes nothing is a stuttering step of the lifecycle.
LEMMA QuietRefines ==
    ASSUME LInv, Quiet, faults' = 0, purges' = 0
    PROVE  UNCHANGED Lifecycle!vars
  <1>1. faults = 0 /\ purges = 0 /\ db' = db
    BY DEF LInv, IInv, TypeOK, Quiet
  <1>2. Loose' = Loose
    BY <1>1 DEF Loose, Quiet
  <1> QED
    BY <1>1, <1>2 DEF Lifecycle!vars

\* A save that is not lost changes the entry of its job and no other.
LEMMA WroteEntry ==
    ASSUME LInv, NEW j \in Jobs, NEW job, NEW key \in Keys \cup {NoKey}, Wrote(j, job, key),
           faults' = 0, purges' = 0
    PROVE  /\ faults = 0 /\ purges = 0 /\ db'[j].job = job
           /\ \A k \in Jobs : k # j => db'[k] = db[k]
           /\ [k \in Jobs |-> LedgerEntry(db'[k].job)] =
                 [[k \in Jobs |-> LedgerEntry(db[k].job)] EXCEPT ![j] = LedgerEntry(job)]
  <1>1. TypeOK /\ job \in Job /\ Persist(j, job, key) /\ faults \in Nat /\ purges' = purges
    BY DEF LInv, IInv, TypeOK, Wrote
  <1>2. /\ \A i \in Jobs : i # j => db'[i] = db[i]
        /\ \/ faults' = faults /\ db'[j].job = job
           \/ faults' = faults + 1 /\ db' = db
    BY <1>1, PersistRow
  <1>3. faults' # faults + 1
    BY <1>1
  <1> QED
    BY <1>1, <1>2, <1>3

\* A saved move is a step of the life of its job, or a stray step if the job is loose.
LEMMA MovedRefines ==
    ASSUME LInv, LInv', NEW j \in Jobs, NEW job, NEW key \in Keys \cup {NoKey},
           Moved(j, job, key), faults' = 0, purges' = 0
    PROVE  Lifecycle!Next
  <1> DEFINE old == db[j].job
             before == [k \in Jobs |-> LedgerEntry(db[k].job)]
             after  == [k \in Jobs |-> LedgerEntry(db'[k].job)]
  <1>1. Wrote(j, job, key) /\ job \in Job
    BY DEF Moved, Wrote
  <1>2. /\ faults = 0 /\ purges = 0 /\ after = [before EXCEPT ![j] = LedgerEntry(job)]
        /\ \A k \in Jobs : k # j => db'[k] = db[k]
    BY <1>1, WroteEntry
  <1>3. Loose' = Loose
    BY <1>1, <1>2 DEF Loose, Moved, Wrote
  <1>4. CASE j \in Loose
    <2>1. after \in [Jobs -> Lifecycle!Entries]
      <3>1. ASSUME NEW k \in Jobs PROVE LedgerEntry(db'[k].job) \in Lifecycle!Entries
        <4>1. db'[k].job \in Job
          BY DEF LInv, IInv, TypeOK, Row
        <4> QED
          BY <4>1, EntryType
      <3> QED
        BY <3>1
    <2>2. \A k \in Jobs \ {j} : after[k] = before[k]
      BY <1>2
    <2>3. Lifecycle!Stray(j)
      BY <1>3, <2>1, <2>2 DEF Lifecycle!Stray
    <2> QED
      BY <1>4, <2>3 DEF Lifecycle!Next
  <1>5. CASE j \notin Loose
    <2>1. Lawful(old, job)
      BY <1>5 DEF Moved
    <2>2. before[j] = LedgerEntry(old)
      OBVIOUS
    <2>3. LedgerEntry(job) = Lifecycle!Entry(job.status, job.retries, job.max)
      BY DEF LedgerEntry, Lifecycle!Entry
    <2>4. Lifecycle!Becomes(j, job.status, job.retries, job.max)
      BY <1>2, <2>3 DEF Lifecycle!Becomes
    <2>5. before[j].status = old.status /\ before[j].retries = old.retries /\ before[j].max = old.max
      BY <2>2 DEF LedgerEntry
    <2>6. Lifecycle!Accept(j) \/ Lifecycle!Begin(j) \/ Lifecycle!End(j) \/ Lifecycle!Retry(j)
      BY <2>1, <2>4, <2>5 DEF Lawful, Lifecycle!Accept, Lifecycle!Begin, Lifecycle!End, Lifecycle!Retry
    <2> QED
      BY <1>3, <1>5, <2>6 DEF Lifecycle!Next
  <1> QED
    BY <1>4, <1>5

\* A requeue is a grant.
LEMMA RegrantRefines ==
    ASSUME LInv, NEW j \in Jobs, Regranted(j), faults' = 0, purges' = 0
    PROVE  Lifecycle!Next
  <1> DEFINE row == db[j].job
             job == Requeued(row)
             before == [k \in Jobs |-> LedgerEntry(db[k].job)]
  <1>1. PICK old : /\ old = (IF InMemory(j) THEN mem[j] ELSE row)
                   /\ old.status \in Failures /\ Wrote(j, Requeued(old), NoKey)
    BY DEF Regranted
  <1>2. /\ faults = 0 /\ purges = 0
        /\ [k \in Jobs |-> LedgerEntry(db'[k].job)] = [before EXCEPT ![j] = LedgerEntry(Requeued(old))]
    BY <1>1, WroteEntry
  <1>3. old = row
    <2>1. Current(j) /\ grant[j].kind # "none"
      BY DEF LInv, Regranted
    <2> QED
      BY <1>1, <1>2, <2>1 DEF Current
  <1>4. LedgerEntry(job) = Lifecycle!Entry("pending", row.retries, row.retries)
    BY DEF LedgerEntry, Lifecycle!Entry, Requeued
  <1>5. before[j].status = row.status /\ before[j].retries = row.retries
    BY DEF LedgerEntry
  <1>6. Lifecycle!Becomes(j, "pending", row.retries, row.retries)
    BY <1>2, <1>3, <1>4 DEF Lifecycle!Becomes
  <1>7. \/ Loose' = Loose \cup {j}
        \/ Loose' = Loose \ {j}
    BY <1>1, <1>2 DEF Loose, Regranted, Wrote
  <1>8. Lifecycle!Grant(j)
    BY <1>1, <1>3, <1>5, <1>6, <1>7 DEF Lifecycle!Grant, Lifecycle!Ended, Failures
  <1> QED
    BY <1>8 DEF Lifecycle!Next

\* Every step of the queue is a step of the lifecycle, or a stutter.
LEMMA NextRefines == LInv /\ LInv' /\ [Next]_vars => [Lifecycle!Next]_(Lifecycle!vars)
  <1> SUFFICES ASSUME LInv, LInv', [Next]_vars PROVE [Lifecycle!Next]_(Lifecycle!vars)
    OBVIOUS
  <1>1. faults' \in Nat /\ purges' \in Nat /\ purges \in Nat
    BY DEF LInv, IInv, TypeOK
  <1>2. CASE faults' > 0 \/ purges' > 0
    BY <1>2, Disturbed
  <1>3. CASE faults' = 0 /\ purges' = 0
    <2>1. CASE Quiet
      BY <1>3, <2>1, QuietRefines
    <2>2. ASSUME NEW j \in Jobs, NEW job, NEW key \in Keys \cup {NoKey}, Moved(j, job, key)
          PROVE  Lifecycle!Next
      BY <1>3, <2>2, MovedRefines
    <2>3. ASSUME NEW j \in Jobs, Regranted(j) PROVE Lifecycle!Next
      BY <1>3, <2>3, RegrantRefines
    <2>4. ~Purging
      <3>1. Purging => purges' = purges + 1
        BY DEF Purging, purge
      <3> QED
        BY <1>1, <1>3, <3>1
    <2> QED
      BY <2>1, <2>2, <2>3, <2>4, Shapes
  <1> QED
    BY <1>1, <1>2, <1>3

\* The empty table is the empty ledger.
LEMMA InitRefines == Init => Lifecycle!Init
  <1> SUFFICES ASSUME Init PROVE Lifecycle!Init
    OBVIOUS
  <1>1. \A j \in Jobs : LedgerEntry(db[j].job) = Lifecycle!Entry("absent", 0, 0)
    BY DEF Init, NoRow, NoJob, LedgerEntry, Lifecycle!Entry
  <1>2. Loose = {}
    BY DEF Init, Loose
  <1> QED
    BY <1>1, <1>2 DEF Lifecycle!Init

\* The queue implements the lifecycle, for every instance: seen from the table, its
\* workers, retry tasks, requests, stops, crashes and recoveries take only the steps
\* of a job's life, and only one job at a time.
THEOREM QueueImplementsLifecycle == Spec => ImplementsLifecycle
  <1>1. Init => Lifecycle!Init
    BY InitRefines
  <1>2. LInv /\ LInv' /\ [Next]_vars => [Lifecycle!Next]_(Lifecycle!vars)
    BY NextRefines
  <1> QED
    BY <1>1, <1>2, InvLInv, PTL DEF Spec, ImplementsLifecycle, Lifecycle!Spec
=============================================================================
