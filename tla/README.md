# Verification of OpenSoul: the will organ and the administration front end

OpenSoul has two programs of its own. The server is one Python 3.11 process, a
FastAPI application ("Central Memory Kernel") whose parts are called organs
(`src/src/<organ>`). All of them share one asyncio event loop, so a race is
never between two instructions: it is between two stretches of code separated by
an `await`, or between a stretch and the death of the process. The
administration front end (`src/admin-ui`) is a React application of 77 pages,
where the same holds within a tab: a handler runs up to its `await`, and what
happens before the answer resumes it is up to the user, the other requests and
the other tabs. This directory holds TLA+ models of the parts whose correctness
depends on such orders, TLC configurations that check them on small instances,
and TLAPS proofs for instances of any size.

## 1. Inventory

| part | state it keeps | operations | what is hard |
|---|---|---|---|
| **will / job queue** `will/job_queue.py` | dictionary of jobs, asyncio queue of ids, workers, one delayed retry task per job in backoff, circuit breakers, a SQLite table | submit, cancel, requeue, purge, worker loop, retry, start (recovery), stop | cancel/requeue/purge against an awaited handler; late `finally` of cancelled tasks; crash between any two awaits; swallowed SQLite errors |
| **will / workflow engine, checkpoint store** `will/engine.py`, `checkpoint.py`, `models.py` | workflows (JSON file), executions in memory (trimmed), one checkpoint row per execution, one coroutine per execution | edit, execute, resume, cancel, prune, delete, recovery | crash between checkpoints; resume after a partial walk; edits under a walk; the status as the only lock |
| **will / goal runner** `will/goal_runner.py` | goals (JSON file) with event counters | create, record_event, goal_report, pause, resume, cancel, record_loop, delete | events that come in while a goal is paused; reports against evidence; admission |
| will / planner, proactive, seeder, dreams, handlers | none of their own | produce jobs and workflows | inputs of the two engines |
| a2a / task manager | tasks in memory | send, get, cancel | a cancel during the 25 s await of `process_task`; two sends to one task |
| trajectory / session FSM, message tree, store | per-session state and history, tree of messages | transition, branch, append, import | sequences of events; overwriting a session |
| mcp / servers, session grants | grants and consumer tokens in SQLite | grant, revoke, clear, authenticate | a revoke of one tool under a grant of the whole server |
| gland / router, keys, meter | providers, cool-downs, counters | route, fail over, rotate | a provider that fails while others cool down |
| hippo / memory pipeline, long-term memory, distiller | memory records, SQLite | extract, commit, decay, distil | partial commits, repeated distillation |
| heredity / evolution loop, version registry | versions, active pointer | propose, promote, roll back | a rollback against a promotion |
| echo, pulse, reflex, immune | queues, timers, caches, windows | dispatch, tick, look up, limit | limits, expiry, one channel of several failing |
| vein, marrow, nest | uploads, backups, quotas | chunk, assemble, back up, charge | check-then-act over an await |
| services | rows in Postgres, Qdrant, Meilisearch | create, update, search | one store of three failing |
| cortex, learn, mind, mirror, intelligence, gene, healer, timeline, link, vital, sense, vision, voice | counters and records | score, prompt, report | text and numbers, little control |
| **admin-ui / session** `lib/api.ts`, `lib/store.ts`, `app/login-page.tsx`, `app-wrapper.tsx` | a token in localStorage, shared by the tabs; one store per tab | log in, log out, hydrate, request, 401 | late 401s; another tab's login or logout under an open page |
| **admin-ui / pages** `app/*/page.tsx` | useState slots: lists, filters, dialogs, busy flags, selections, forms | click, load, save, delete, poll | answers out of order; values a handler closed over; one request of several failing; overlapping polls |
| api, websocket, middleware, plugins | none | HTTP plumbing | nothing of its own |

Interactions: HTTP handlers (`src/src/api`) call the organs directly and run on
the same loop. The job queue is the only pool of workers; the proactive
orchestrator and the dream producer submit jobs with idempotency keys. Workflow
executions run as coroutines of their request or of a task. Nothing is shared
between processes; what survives a crash is the SQLite tables and JSON files.
The front end talks to the server only through `apiFetch`, one request at a time
per call, without push messages: a page knows what its last load returned.

What makes each modelled part correct:

* *job queue*: no accepted job is lost, run by two workers, run beyond its
  budget or shadowed by a duplicate; every job ends; a storm of equal failures
  stops retries;
* *workflow engine*: a completed node is not run again, a failed or interrupted
  one is, an execution has one coroutine at a time, none is shown as running
  for ever, a success means that the workflow was covered;
* *goal runner*: fail-stop, completion only with evidence, over is over, one
  active goal per session, the file is current;
* *session*: a tab acts as the login it shows, a valid token is not lost;
* *pages*: a busy page becomes idle again, a form is not sent twice, a list
  shows its filters and the page's own writes, a detail or a form belongs to the
  row it is shown with, a page that polls catches up.

## 2. Modules

| module | models | notes |
|---|---|---|
| `JobQueue` | `job_queue.py` | specification, properties, mutants |
| `MCJobQueue` | | symmetry sets for TLC |
| `JobQueueProofs` | | inductive invariant and theorems |
| `JobSafetyProofs` | | theorems that need the invariant of `JobLifecycleProofs` |
| `WorkflowEngine` | `engine.py`, `checkpoint.py`, parts of `models.py` | specification, properties, mutants |
| `MCWorkflowEngine` | | the small workflow graphs |
| `WorkflowEngineProofs` | | inductive invariant and theorems |
| `GoalRunner` | `goal_runner.py` | specification, properties, mutants |
| `MCGoalRunner` | | symmetry set |
| `GoalRunnerProofs` | | inductive invariant and theorems |
| `JobLifecycle` | what `job_queue.py` promises about its table | abstract specification, implemented by `JobQueue` |
| `JobLifecycleProofs` | | the refinement proof |
| `AdminSession`, `MCAdminSession` | `lib/api.ts`, `lib/store.ts`, login page, wrapper | specification, properties, mutants |
| `AdminSessionProofs` | | inductive invariant and theorems |
| `AdminVocabulary` | | the words of the page tables |
| `AdminPage` | how React runs a page | specification, properties |
| `PagesSystem`, `PagesKnowledge`, `PagesAgent`, `PagesCapability`, `PagesOps` | 29 files `app/*/page.tsx` | one table per page, or per tab |
| `MCAdminPages`, `MCAdminPolling` | | all tables together, the rows; the tables with a timer |
| `AdminTables` | | the rules that the tables follow, which the theorems suppose |
| `AdminPageProofs` | | theorems about every page whose table follows the rules |

A definition whose comment starts with "Mutant:" is not part of the model. It is
a plausible bug in the definition after it; putting it in its place makes the
named property fail (`PROJECT.json`, "mutants"), which shows that the property
depends on that code.

### JobQueue

State: `mem` is `_jobs`, `db` the table, `queue` the asyncio queue, `held[w]`
the job whose handler worker `w` awaits, `timer[j]` the delayed tasks of a job
(sleeping, cancelled with their `finally` still to run, and whether
`_retry_tasks` has an entry), `breaker` the breakers, `todo` the rows recovery
has read and not handled. `grant` and `asked` are history: what the last submit
or requeue of a job promised, and its key. A `grant` of kind "overlap" is a
requeue of a job of which an entry in the queue was still around.

One action per operation: `submit`, `get`, `cancel`, `requeue`, `purge`; the
worker loop as `TakeSkipped`, `TakeUnhandled`, `TakeRun` (up to the `await` of
the handler) and `Succeed`, `FailRetry`, `FailTerminal` (from it to the next
`queue.get()`); `RetryDue` and `RetryCleanup` for the delayed task;
`CooldownElapses`; `start`, `RecoverRow`, `Started`, `stop`, `Crash`. Between
two awaits Python does not switch, so this is the code's own atomicity. Every
`Persist` may fail silently, as `_persist` does. Time is abstracted: a backoff
ends when its action happens, a cool-down too.

### WorkflowEngine

State: `wf` and `file` are the workflow in memory and in the JSON file, `obj`
and `inMem` the executions in memory, `row` the checkpoint rows, `loop[e]` the
coroutine of an execution with its queue and visited set. An edge condition is
the set of sets of completed nodes for which it holds, because the variables of
an execution are what its completed nodes have written. Nodes in `Instant`
(triggers, conditions, ends) do not suspend; `Quiet` and `Turn` express that
nobody else runs meanwhile, except that the process may die.

Actions: `remove_node`, `add_edge`, `remove_edge`, `delete_workflow`, `prune`,
`delete_checkpoint`; the walk as `begin`, `skip`, `visit`, `node_succeeds`,
`node_fails`, `finish`; `execute`, `execute_async`, `resume_execution`,
`resume_refused`, `cancel_execution`; `Crash`, `CrashInSave` (the JSON file is
rewritten in place) and `Restart`. `owed` and `starts` are history.

### GoalRunner

State: `goals` and `file`. The handlers do not await, so each is one action
that ends with `Put`, the assignment and the `_save` whose errors are ignored.
Of the event list only the counters and the run of failures at its end decide
anything, so that is what a goal keeps. `why` is the reason in the last entry of
`state_history`; `reviewed` is history and says whether the user has resumed the
goal since the last event. `CrashInSave` is a death in the middle of the
rewrite of the file, after which no goal is left.

### JobLifecycle

The queue seen by somebody who can read only the table: a `ledger` with status,
retry count and budget of each job. `Accept`, `Begin`, `End`, `Retry` and
`Grant` are the steps of a life; nothing leads out of "completed". The mapping
in `JobQueue` (`Lifecycle`) takes the ledger from the rows, not from the memory:
a crash is then a stutter, and the restart has to continue from the row. A job
is `loose`, and the lifecycle allows it anything, if a requeue found something of
it still around, and all jobs are once a write was lost or rows were purged.
`ImplementsLifecycle` is `Lifecycle!Spec`.

### AdminSession

State: `storage` is the token in localStorage, `tab[t]` what tab `t` has mounted
and the token of its zustand store, `signing[t]` the progress of `handleSubmit`,
`requests` the requests in progress with the token each was sent with, `valid`
the tokens the server accepts. A token is the number of the login that issued it.
`blame[t]` is history: what others did to localStorage since the tab took
its token. Actions: `hydrate`, `ShellMounted` (which hydrates a second time),
`Reload`, `handleSubmit`, `login`, `LoginFails`, `setToken` (the stretch after
the await, which reads the token back from localStorage), `logout`, `apiFetch`,
`Answered`, `Unauthorized`, `Expire`.

### AdminPage and the page tables

The pages are written after one pattern, so the model is in two parts. A table
(`Pages...`, in the words of `AdminVocabulary`) says what one page consists of:
its slots with their first values, its handlers (assignments before the await,
after a good answer, in `catch` and in `finally`; the request; the loads it
starts or awaits afterwards), its effects with what they watch, its timers, and
its panels and dialogs with the buttons each offers and when they are enabled.
Every definition in a table names the lines it stands for. `AdminPage` says how
a table is run and is the same for all pages: `Click` (`Refuse`, `Local` or
`Send`), `Serve` (the server carries out a write), `Answer`, `Fail` (refused, or
the answer to a write is lost), `Tick`, `Foreign` (somebody else's write).

State: `ui` the slots, `shown` the version and query each list was loaded with,
`srv` the version of each list at the server, `calls` the handlers that wait,
each with its argument, with the slots it closed over (`env`), the
requests still out and the stage it is in. Data is abstracted: a row is one of
`Rows`, a filter has two values, a list is its version, a form is the row it was
filled from, and "mixed" is a row that was given values of another.

What the pages do wrong in some order of answers is not assumed away: the
histories `late`, `own`, `stale` and `blame` record which race has happened, and a
property says that nothing but the races it names leads to the bad state. A
change to a handler that adds another way, or another race, breaks it; the races
it names are in the code, and the note of each hazard says what is not caught.

A write changes at the server the lists in its `put`: those of the table that
the server would then answer differently, totals and counters in a `stats` list
included. `nest` and `immune` are split into tables (three and two), and a write
of one is not seen in the lists of another.

`AdminTables` states what the pages have in common where they do it right, as
rules that can be read off a table without running it: a flag that a handler
raises it lowers in `finally` (`FlagRule`), a submit is disabled by a flag that
nobody else lowers (`SubmitRule`), a handler that writes to a list reloads or
patches it, or its table names the list as `unrefreshed` (`RefreshRule`; section 5
has the handlers) and then it really does neither (`NeglectRule`), a filter is watched by the effect that loads the
lists it is for (`QueryRule`), a form is filled by the click that opens it or is
hidden until it was loaded (`FillRule`), and so on. The rules are the hypotheses of
the theorems; `MCAdminPolling` has TLC evaluate all twelve on all 32 tables.

## 3. Runs

| run | instance | shows |
|---|---|---|
| `job_queue_crash` | 2 jobs, one key, 2 workers, budgets 0 and 1, storm after 2 failures, 1 crash | `NoJobForgotten`, `WriteThrough`, `RetryTaskTracked`, `OneWorkerPerJob`, `LiveKeysDistinct`, `StormSuppressesRetries`, `ImplementsLifecycle` |
| `job_queue_faults` | 1 job, budgets 0 and 2, 2 crashes, a stop, a purge, a lost write, a name without handler | `ExecutionBudget`, `EveryJobEnds` |
| `job_queue_requeue` | 1 job | violation: `RequeueRunsOnce` |
| `workflow_resume` | 4 nodes with a way back to a completed one, 2 crashes, 3 resumes, a lost write, a deleted row | `NoReplay`, `CheckpointCurrent`, `OnePassPerResume`, `FailedNodesReplayed`, `SuccessCoversWorkflow`, `EveryRunEnds` |
| `workflow_edits` | 2 executions, an edit, a deletion or prune, a crash, a history of one | `LoopExclusive`, `NoStuckExecution`, `SuccessIsFinal` |
| `workflow_dropped` | 2 condition nodes with one variable | violation: `FailedNodesReplayed` |
| `workflow_cancel` | 2 nodes | violation: `CancelSticks` |
| `goal_runner` | 2 goals of one session, 2 scored events each, FailStop 2, NoProgress 2, a restart, a lost write | `FailureStops`, `NoProgressRuleIsDead`, `CompletedHasEvidence`, `OnlyResumeBreaksAdmission`, `FileIsCurrent`, `TerminalIsFinal` |
| `goal_active` | 2 goals, 1 session | violation: `OneActivePerSession` |
| `admin_session` | 2 tabs, 2 logins, 3 requests, 2 of them overlapping | `ActsAsItself`, `ValidTokenKept` |
| `admin_pages` | 32 tables, 2 rows, 2 clicks that reach the server, 1 failed or lost request | `FlagHeld`, `SingleFlight`, `SettledShowsQuery`, `OwnWritesShown`, `FormOwner`, `DetailOfSelection`, `NoMixedRow`, `RowMarked` |
| `admin_polling` | the 6 tables with a timer, 2 overlapping polls, 1 foreign write, 1 failure, 1 click on two of them | `PollCatchesUp`; and `TablesFollowRules` on all 32 tables |

Each module's `TypeOK` is an invariant of one of its runs.

Why these bounds. Two jobs and two workers are the smallest instance with a
duplicate key and with two workers on one job; a queue of three holds one
leftover entry besides both jobs. A budget of 1 with a storm after 2 makes the
last retry and the opening of the breaker coincide; a budget of 2 with a storm
after 3 separates them. One crash reaches every intermediate state; two
crashes, or a crash and a resume, reach recovery from recovered states. The
join graph is the smallest in which a resumed walk meets a completed node
through an unfinished one; the fork is the smallest in which a queued node can
be removed. Two goals of one session are the smallest instance with an
admission to break; two events reach FailStop and NoProgress at the same time,
and all properties of this run are proved for any limits. On a page, two rows
and two clicks that reach the server make every pair of handlers overlap in
every order of answers; clicks that only assign are not bounded. A page with a
busy handler takes further clicks (`MaxBusy` is 1), so a third handler starts
only as an effect or a reload. `MaxTags` only numbers calls and is never reached.
In `workflow_edits` recovery reads only one row, so the second
execution shows what happens beyond `RecoverLimit`; `NoStuckExecution` speaks of
the rows as long as there are no more than recovery reads. The rows are symmetric
in `admin_pages`; `admin_polling` uses no symmetry
because it checks liveness. The bounds occur only in guards of the
environment's actions (crashes, faults, edits, requests), never in a step that
must happen. Deadlock is checked in `admin_session`, where a tab can always be
loaded again. Elsewhere it is not, because a queue with all jobs finished, or a
page with all answers in, and all bounds used up rests; liveness says that it
does not rest too early.

Fairness. `EveryJobEnds` assumes weak fairness of each worker (asyncio runs
ready tasks; a handler ends because it runs under `asyncio.wait_for` with the
job's timeout), of each due retry task (`asyncio.sleep`), and of the restart
with its recovery (`restart: unless-stopped` in docker-compose.yml).
`EveryRunEnds` assumes it of the coroutine steps (the HTTP client of an action
node has a timeout, a delay node is capped at 300 s) and of the restart.
`PollCatchesUp` assumes that `setInterval` goes on firing and that, of the polls
in progress, some one is answered; it does not say which, so an old answer may
come again and again until the newer poll is answered. No fairness is assumed of
a request, an edit, a click or a cool-down. `EveryJobEnds` and `EveryRunEnds` stop
promising anything once a write was lost, and `EveryJobEnds` once the queue was
stopped: a row may then stay older than the job, and recovery skips jobs
that are still in memory.

## 4. Proofs

`JobQueueProofs` proves, for any sets of jobs, workers, names and keys and any
bounds (`ConstantAssumption`), `Spec => []TypeOK`, `Spec => []RetryTaskTracked`
and `Spec => []OneWorkerPerJob`. None of the last two is inductive. A retry task
that was cancelled still runs its `finally`, which removes whatever entry
`_retry_tasks` then has; the proof needs that no new task can have been
scheduled before that. `TimerInv` says so: while a cancelled task is around, its
job either waits nowhere or has spent its budget. The second case is there
because of `requeue`, which sets the budget to what is used up; so even a job
with two entries in the queue never gets a retry task again, and `SingleInv`
(at most one of queue, worker and timer holds a job) can be required of every
job except a requeued one with leftovers. `AbsentInv` ties what is not in memory
to nothing being around, for recovery. The step proof has one lemma per action.

`GoalRunnerProofs` proves `TypeOK`, `FailureStops`, `NoProgressRuleIsDead`,
`CompletedHasEvidence`, `FileIsCurrent` as invariants and `TerminalIsFinal` as
an action property. The events of a paused goal change counters without being
evaluated, so the invariant relates the counters themselves: without success
and block the run of failures is all there is (`CountOK`); from this and
`FailStop <= NoProgress` (3 and 20 in the code) rule 4 can never be the first to
apply. The file has to be sound as well (`Sound(file[i])`), because a restart
after a lost write brings an old goal back. `StepShape` reduces the handlers to
one form (a `Put` that keeps what is over) for the last two theorems.
`AdmissionHolds` proves `OnlyResumeBreaksAdmission` with an invariant about two
goals at a time, again of memory and of file.

`JobLifecycleProofs` proves `Spec => []WriteThrough` and
`Spec => ImplementsLifecycle`, for any constants. The invariant `LInv` adds to
that of `JobQueueProofs` that the row of each job is as new as the job
(`Current`): only then is what a worker writes, having read the memory, a lawful
step for the row. Each action is reduced to one of four shapes, one that writes
nothing (`Quiet`), one that saves a job (`Moved`), a requeue (`Regranted`) and
a purge, and the two results are shown once per shape. The invariant of
`JobQueueProofs` is needed here: without it a second worker could move a
completed row.

`JobSafetyProofs` proves `NoJobForgotten`, `ExecutionBudget`, `LiveKeysDistinct`
and the action property `StormSuppressesRetries`, for any constants. Its invariant
`SInv` stands on `LInv`, because a restart knows nothing but the rows: what is
promised of a job in memory has to be true of its row when the process dies, and of
a row that recovery has read and not yet handled. `Kept` says where an unfinished
job is (queue, timer, worker, `todo`), `Budgeted` counts the starts against retries
and crashes, in memory and, for a job that only has a row, on disk, and `Keyed`
speaks of two rows with the same key, because `submit` looks into the table.

`WorkflowEngineProofs` proves `TypeOK` and all eight safety properties of the
engine, for any graph, any bounds and any number of executions. The invariant
is `TypeOK`, `WfInv` (until the first edit memory and file hold the workflow as it
was created) and, for each execution, six parts: `Fresh` (not created yet), `Shape`
(what a coroutine has visited contains what is completed), `Phase` (the status of
object and row against the coroutine: this is where the status acts as a lock),
`Sync` (the row is never ahead of the object, and not behind unless a write was
lost), `Pass` (the starts of a node against the counted resumes) and `Cover`. The
step lemmas show each part for the execution that moves and that the others are
left alone, but for being trimmed from the dictionary.

`FailedNodesReplayed` and `SuccessCoversWorkflow` are proved for the workflows that
are `SettledWorkflow`. Without each part of it the code does not have the property:
where the condition of an edge changes after its source was completed, a resumed
walk does not find the failed node (run `workflow_dropped`); with two triggers, a
crash after the first loses the second, because a resume goes back to the triggers
only when no open edge is left; and a walk stopped by `max_steps` ends as a success.
`Cover` is the argument: the nodes a walk owes are reached by open edges from what
is completed, and the queue of the coroutine holds the ends of all open paths.
`MCWorkflowEngine` evaluates which of its graphs are settled (`SettledHypothesis`).

`AdminSessionProofs` proves `TypeOK`, `ActsAsItself` and `ValidTokenKept` for
any number of tabs, logins and requests. The invariant says why store and
localStorage differ when they do (`Accounted`). Part of `TypeOK` is that a tab
with a login in progress shows the login page, so that its own `login` never
takes the token away from its own store.

`AdminPageProofs` proves all nine safety properties of `AdminPage`, for any
set of pages that follow the rules, any rows, clicks, failures and writes by
others, and any order of answers: `FlagHeld` (`FlagRule`), `SingleFlight`
(`SubmitRule`), `TypeOK` (`SlotRule`), `RowMarked` (`MarkRule`), `NoMixedRow`
(`PatchRule`), `SettledShowsQuery` (`ListRule`, `QueryRule`), `OwnWritesShown`
(`ListRule`, `RefreshRule`), `DetailOfSelection` (`DetailRule`) and `FormOwner`
(`FillRule`); all suppose `FormRule`, the well-formedness of a table, and where the
argument of a click matters `SlotRule`.
The rules are hypotheses and not assumptions on the constant `Pages`, because the
mutants of `admin_pages` are tables that break them. The proofs reduce each step to
a few forms. Whatever renders goes on from some slots and calls (`Follows`); a call
of which a request was answered waits for the rest of its stage, advances to the
next, ends, or gives up. On these stand four kinds of argument:

* of a slot: its values stay in a set that all assignments to it keep
  (`ClosedStep`), for `SlotInv`, the patched rows and the filters;
* of a call: a slot that only the handlers that were clicked touch changes only
  when one of them starts, goes on or leaves (`PrivateStep`), for submits and marks;
  and a raised flag has a call that keeps it (`Keeps`): that lowers it in `finally`,
  or waits for a load that does;
* of a list: a call brings it (`Brings`) if it waits for it, or will ask for it in a
  later stage that nothing before can make it give up. A list that does not show
  the filters (`QueryInv`) or the page's own write (`OwnInv`) is out of date for a
  reason that `late` or `stale` records, or is being brought; and a call that brings a list
  goes on doing so until a request for it is over (`BringsStep`). Then an answer
  that was overtaken is recognised by the values that its handler closed over;
* of a pair of slots: what is shown next to a selected row (details, or the form that
  will be saved to it) is that row's. The pages have two ways to see to it. Some never
  show it otherwise (`Matched`, `MatchInv`): a click fills and opens it at once or an
  answer does, and while it is in view no button in front of it selects another row
  (`ShutOut`). The others load it when the row is selected (`Followed`, `FollowInv`):
  then it is right, or the call that will make it so is in progress, for the row
  selected (`AskInv`). The slots in question change only by clicks and answers, never
  behind a later await (`Steady`, `SteadyStep`), so that a step is judged by the one
  list of assignments that it makes. A form that is loaded is not shown meanwhile,
  because its flag is up as long as the only such load is in progress (`SingleInv`).

The last argument corrected the model. `blame` noted that an answer closed or replaced
the open row only where the row was unmixed. On `knowledge/page.tsx`, star and delete
one entry, open a second one and edit it: the answer to the star leaves the second
entry mixed, the answer to the deletion closes it behind the form, which stays up, and
neither was noted as such. `FormOwner` held within the bounds of `admin_pages`, where
no more clicks are made while two handlers are in progress; with one more of these and
one more click TLC shows the violation. `Dropped` and `Replaced` now count whatever is
open.

Only model-checked: liveness (`EveryJobEnds`, `EveryRunEnds`, `PollCatchesUp`), which
is out of the prover's reach; and the four properties that fail. That the 32 tables
follow the rules is evaluated by TLC, for two rows; the rules mention rows only to say
that a word of a condition is none. No module uses a RECURSIVE operator.

## 5. Disagreements between code and documentation

With a run (details and quotations in `PROJECT.json`, "findings"):

* a job that is cancelled while queued and then requeued is executed twice;
* a resumed execution can drop the failed node and end as a success when two
  condition nodes share `condition_result`;
* a cancelled execution goes on and overwrites its cancelled row;
* `resume_goal` has no admission check: two active goals in one session.

Seen in the same models, without a run of their own:

* `purge` may delete the row of a pending job, and `submit` looks for a key only
  in the table, so the key gets a second live job (`LiveKeysDistinct` speaks of
  runs without a purge for this reason);
* with two trigger nodes, a crash between their checkpoints loses the second one:
  the resumed walk starts at the targets of the first
  (`SuccessCoversWorkflow` fails with two triggers);
* `remove_edge` does not call `_save`, so the edge is back after a restart;
* both JSON files are rewritten in place, and a file that does not parse is
  ignored at the next start;
* recovery reads the newest 1000 checkpoint rows and `prune` is never called, so
  an old interrupted execution stays "running" (`NoStuckExecution` speaks of rows only
  up to `RecoverLimit` executions for this reason);
* a goal is completed by a report with any successful event, where the class
  comment asks for more successes than failures;
* `_trim_history` drops running executions too: with a lost checkpoint the stale
  row is then all `resume_execution` sees, and a second coroutine joins the first
  (`LoopExclusive` excepts exactly this: a trimmed execution after a lost write);
* a 401 clears localStorage but no store (`lib/api.ts:32`): the page stays on
  display and goes on asking without a token, and the late 401 of an old token
  removes a newer valid one;
* `suspend` of a tenant and the star of a knowledge entry change the row that is
  open when the answer comes (`nest/page.tsx:243`, `knowledge/page.tsx:97`);
* a tenant whose details cannot be loaded is opened with the form of the one
  before, and saved with it (`nest/page.tsx:293`);
* the pager of the tenants never appears: the total is the length of the page
  that was loaded (`nest/page.tsx:138`);
* the Enter key in the install dialog of the skills starts a second installation
  while the button is disabled (`skills/page.tsx:782`);
* parts of a load that fail are shown as empty lists on `heredity/page.tsx:386`;
* a write whose answer is lost ends in the handler's catch, which reloads nothing:
  the list shows the deleted row until its next load (`nest/page.tsx:227`);
* the handlers of the next table leave a list of theirs as it was, in every order
  of answers. `OwnWritesShown` excepts these lists until their next load.

| page | handlers (line in `page.tsx`) | lists left |
|---|---|---|
| nest | `handleUpdate` (205), `handleSuspend` (239), `handleReactivate` (251) | totals by tier and status |
| immune | `handleRemoveIp` (162), `handleBlockIp` (171), `handleUnblockIp` (185) | totals |
| immune | `handleModerate` (126) | audit log |
| gland | `handleTestProvider` (133) | providers (their health) |
| notifications | `handleMarkRead` (116), `handleMarkAllRead` (124), `handleTestForward` (158) | totals |
| notifications | `handleDismiss` (132) | unread count |
| echo | `handleSend` (354), `handleDeleteTemplate` (516) | history and totals; totals |
| mirror | `handlePause` (166), `handleResume` (175), `handleCreateTemplate` (228), `handleDeleteTemplate` (279) | totals |
| mirror | `handleInstantiate` (256) | templates (their use counts) |
| limb | `handleExecuteTask` (154) | history |
| reflex | `handleLookup` (147), `handleDelete` (189) | entries and totals; totals |
| link | `handleCreate` (116), `handleDelete` (156) | totals |
| link | `handleTest` (164), `handleSend` (178) | connectors (their status and counts) |
| learn | `handleAddChapter` (206), `handleDeleteChapter` (246), `handleUpdateChapter` (226) | courses (their chapters and progress) |
| learn | `handleUpdateStatus` (192), `handleUpdateChapter` (226) | totals |
| hippo | `handleCreateMemory` (115), `handleDeleteMemory` (138), `handleCreateSession` (148), `handleArchiveSession` (166), `handleDeleteSession` (175), `handleLifecycleCheck` (211) | totals |
| trajectory | `doFork` (414) | sessions and totals |
| gene | `handleDelete` (142), `handleInstantiate` (166) | totals; templates (their use counts) and totals |
| ai-groups | `handleSubmitTask` (202) | groups |
| skills | `handleRollback` (537) | skills, until its second request has succeeded |

## 6. Not modelled

In the modelled parts: what a handler or a node computes (an outcome chosen
freely), `create_workflow`, `update_workflow` and `add_node` (they add what no
running execution reads), list and statistics operations (they only read), time
stamps and error texts. Workflow conditions are abstracted to sets of completed
nodes, so a condition on the value of a variable is not evaluated. Of the pages:
what is typed into a form, the text and order of a list, sorting and searching
on the client, charts, layout and toasts; `confirm` dialogs (declining one
changes nothing); the unmounting of a page. The 48 pages without a table are
shorter, most of them one load and a list; they use the same shapes of handlers.
Every other part of the inventory is listed in `PROJECT.json` with the reason.

## 7. Plan

1. Done: job queue, workflow engine, goal runner, `JobLifecycle` with its
   refinement, session and pages of the front end; theorems on all of them.
2. `EvolutionLoop`: proposals from intent to review, apply and rollback, with
   the target file, the snapshots, the ledger and the breaker; a crash between
   the file and the status, two proposals on one file. Then `A2ATaskManager`:
   sends and cancels of one task against the awaits of `process_task`; answers
   per message, no task working without a request, whether a cancel sticks.
3. `SessionFSM` with `MessageTree`: the transition table as a relation; which
   events a session can always be ended or continued by.
4. Tables for the remaining pages of the front end.
5. `KnowledgeStores`: the writes to three stores of `services`, one failing.
6. `Router`: provider failover with cool-downs and key rotation of gland.
7. `VersionRegistry` migrations; session grants; chunked uploads;
   reflex cache; tenant quotas; timers.
8. Proofs: every safety property that a passing run checks has its theorem; a new table
   has to follow the rules of `AdminTables` for those of `AdminPage` to cover it.

Dangers seen in parts that have no module yet, for these steps: two sends to one
a2a task overlap (`a2a/task_manager.py:68`); a crash between the target file and
the status of a proposal (`heredity/evolution_loop.py:753`), and a rollback that
restores the whole file (805); a late success that resets a provider's failure
count (`gland/router.py:371`); a document written to some of three stores
(`services/knowledge.py:87`); an upload in progress removed at the limit of
sessions (`vein/chunked.py:166`).
