---------------------------- MODULE JobLifecycle ----------------------------
(***************************************************************************)
(* What the job queue promises about the jobs table, without queue,        *)
(* workers, retry tasks, breaker, dictionary or process: an entry goes     *)
(* through the states of its life one step at a time, whatever crashes.    *)
(* JobQueue is shown to implement it.                                      *)
(*                                                                         *)
(* The promise does not bind a job that was requeued while something of it *)
(* was still around (cancel leaves the id in the asyncio queue), nor any   *)
(* job once a write was lost or rows were purged: those jobs are "loose".  *)
(***************************************************************************)
EXTENDS Naturals

CONSTANTS Jobs,
          Budgets    \* the values of max_retries callers pass

VARIABLES ledger,    \* status, retry_count and max_retries of each job
          loose      \* the jobs that the promise does not bind

vars == <<ledger, loose>>

Ended    == {"failed", "timeout", "cancelled"}
Entry(s, r, m) == [status |-> s, retries |-> r, max |-> m]
Entries == [status : Ended \cup {"absent", "pending", "running", "completed"},
            retries : Nat, max : Nat]

Init ==
  /\ ledger = [j \in Jobs |-> Entry("absent", 0, 0)]
  /\ loose = {}

Becomes(j, s, r, m) == ledger' = [ledger EXCEPT ![j] = Entry(s, r, m)]

\* A job is accepted with a budget of retries.
Accept(j) ==
  /\ ledger[j].status = "absent"
  /\ \E m \in Budgets : Becomes(j, "pending", 0, m)

\* A pending job starts, is cancelled, or fails because nobody can run it.
Begin(j) ==
  /\ ledger[j].status = "pending"
  /\ \E s \in {"running", "cancelled", "failed"} :
       Becomes(j, s, ledger[j].retries, ledger[j].max)

\* A running job ends.
End(j) ==
  /\ ledger[j].status = "running"
  /\ \E s \in {"completed", "failed", "timeout"} :
       Becomes(j, s, ledger[j].retries, ledger[j].max)

\* A running job goes back because it failed, which counts, or because the process
\* died, which does not, and only while the budget lasts.
Retry(j) ==
  /\ ledger[j].status = "running"
  /\ ledger[j].retries < ledger[j].max
  /\ \E r \in {ledger[j].retries, ledger[j].retries + 1} :
       Becomes(j, "pending", r, ledger[j].max)

\* A job that ended without success is granted one more execution.  It is loose if
\* something of it is still around, and bound again otherwise.
Grant(j) ==
  /\ ledger[j].status \in Ended
  /\ Becomes(j, "pending", ledger[j].retries, ledger[j].retries)
  /\ loose' \in {loose \cup {j}, loose \ {j}}

\* Anything may happen to a loose job, and only to that job.
Stray(j) ==
  /\ ledger' \in [Jobs -> Entries]
  /\ \A k \in Jobs \ {j} : ledger'[k] = ledger[k]
  /\ UNCHANGED loose

\* A write is lost or rows are purged.
Disturb ==
  /\ loose' = Jobs
  /\ ledger' \in [Jobs -> Entries]

Next ==
  \/ \E j \in Jobs \ loose : /\ Accept(j) \/ Begin(j) \/ End(j) \/ Retry(j)
                             /\ UNCHANGED loose
  \/ \E j \in Jobs : Grant(j)
  \/ \E j \in loose : Stray(j)
  \/ Disturb

Spec == Init /\ [][Next]_vars
=============================================================================
