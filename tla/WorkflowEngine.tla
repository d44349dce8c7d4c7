--------------------------- MODULE WorkflowEngine ---------------------------
(***************************************************************************)
(* The workflow engine of the will organ and its checkpoint store          *)
(* (src/src/will/engine.py, checkpoint.py), for the executions of one      *)
(* workflow.                                                               *)
(*                                                                         *)
(* An execution walks the graph of the workflow breadth first from its     *)
(* trigger nodes.  The coroutine of an execution gives way to requests and *)
(* to other executions only while it awaits a node that does I/O; the      *)
(* process can die anywhere.  After each node the whole execution is       *)
(* written to its row of the checkpoint store.  A process that starts      *)
(* turns the rows of interrupted executions into "waiting", and            *)
(* resume_execution continues waiting and failed executions after their    *)
(* completed nodes.                                                        *)
(*                                                                         *)
(* The variables of an execution are what its completed nodes returned, so *)
(* the condition of an edge is the set "open" of the sets of completed     *)
(* nodes for which it evaluates to true.  An execution that is not in the  *)
(* dictionary, or has no row, has the status "absent" there.               *)
(***************************************************************************)
EXTENDS Naturals, Sequences, FiniteSets

CONSTANTS
    Nodes,         \* the nodes the workflow is created with
    Triggers,      \* those of type TRIGGER
    Instant,       \* those that neither fail nor suspend: trigger, condition, end, ...
    Edges,         \* the edges it is created with, a list of [from, to, open]
    NewEdges,      \* the edges add_edge may add
    NoNode,        \* a coroutine that awaits no node
    MaxSteps,      \* max_steps
    MaxHistory,    \* _max_execution_history
    RecoverLimit,  \* the limit of list_checkpoints in _recover_executions
    MaxExecs,      \* bound: executions
    MaxResumes,    \* bound: resumes of one execution
    MaxCrashes,    \* bound: process crashes
    MaxEdits,      \* bound: changes of the workflow
    MaxDeletes,    \* bound: calls of delete_checkpoint and prune that delete something
    MaxFaults      \* bound: writes to the store that fail and are only logged

Edge  == [from : Nodes, to : Nodes, open : SUBSET SUBSET Nodes]
Execs == 1..MaxExecs       \* execution ids, in the order of started_at

ASSUME GraphAssumption ==
    /\ IsFiniteSet(Nodes) /\ NoNode \notin Nodes
    /\ Triggers \subseteq Instant /\ Instant \subseteq Nodes
    /\ Edges \in Seq(Edge) /\ NewEdges \subseteq Edge
    /\ {MaxSteps, MaxHistory, RecoverLimit, MaxExecs, MaxResumes, MaxCrashes,
        MaxEdits, MaxDeletes, MaxFaults} \subseteq Nat

VARIABLES
    alive,      \* the process runs
    wf,         \* the Workflow object: [there, nodes, edges], there = "yes" if the
                \* engine knows it, "no" if it was deleted, "lost" if it was not
    file,       \* will_workflows.json
    obj,        \* the WorkflowExecution object of each execution
    inMem,      \* the ids in self._executions
    row,        \* the rows of the checkpoint store
    loop,       \* the coroutine _run_execution_async of each execution
    created,    \* history: executions 1..created were started
    owed,       \* history: nodes of each execution that started and did not succeed since
    starts,     \* history: how often each node of each execution was started
    crashes, edits, deletes, faults

history == <<created, owed, starts>>
bounds  == <<crashes, edits, deletes, faults>>
vars    == <<alive, wf, file, obj, inMem, row, loop, history, bounds>>

ExecutionStatus == {"pending", "running", "success", "failed", "waiting", "cancelled"}
Unfinished      == {"pending", "running"}
StepStatus      == {"none", "running", "success", "failed"}
Execution   == [status : ExecutionStatus \cup {"absent"},
                steps : [Nodes -> StepStatus], resumes : Nat]
NoExecution == [status |-> "absent", steps |-> [n \in Nodes |-> "none"], resumes |-> 0]
NewExecution == [NoExecution EXCEPT !.status = "pending"]

\* pc: no coroutine, a task that was not yet run, between two nodes, in a node.
Loop   == [pc : {"none", "ready", "run", "await"}, queue : Seq(Nodes),
           visited : SUBSET Nodes, node : Nodes \cup {NoNode}, count : Nat]
NoLoop == [pc |-> "none", queue |-> <<>>, visited |-> {}, node |-> NoNode, count |-> 0]
Walk(queue, visited) ==
    [pc |-> "run", queue |-> queue, visited |-> visited, node |-> NoNode, count |-> 0]

\* Mutant: a successful execution may be continued as well.
RESUMABLE_WITH_SUCCESS == {"waiting", "failed", "success"}

RESUMABLE_STATES == {"waiting", "failed"}
PRUNE_EXEMPT     == RESUMABLE_STATES \cup Unfinished

\* Mutant: a step that failed or was interrupted counts as well.
CompletedAny(x) == {n \in Nodes : x.steps[n] # "none"}

\* The nodes whose step is a success.
Completed(x) == {n \in Nodes : x.steps[n] = "success"}

\* The lists of the elements of S, one per order.
Listings(S) == {s \in [1..Cardinality(S) -> S] : {s[i] : i \in 1..Cardinality(S)} = S}

\* What the list s has at the positions I, in its own order: a set with one list.
Selected(s, I) ==
    {[k \in 1..Cardinality(I) |-> s[p[k]]] :
        p \in {l \in Listings(I) : \A i, k \in 1..Cardinality(I) : i < k => l[i] < l[k]}}

\* A coroutine that runs without giving way, and a process in which none does.
Busy(e) == loop[e].pc = "run" \/ (loop[e].pc = "await" /\ loop[e].node \in Instant)
Quiet   == alive /\ \A e \in Execs : ~Busy(e)
Turn(e) == alive /\ \A d \in Execs \ {e} : ~Busy(d)

-----------------------------------------------------------------------------
(* The workflow.                                                           *)

\* validate_dag: a trigger, and no cycle (no set of nodes each of which has an
\* edge into the set).
validate_dag ==
    /\ wf.nodes \cap Triggers # {}
    /\ \A S \in SUBSET wf.nodes \ {{}} :
          \E n \in S : \A i \in 1..Len(wf.edges) :
             wf.edges[i].from = n => wf.edges[i].to \notin S

Edit(w) ==
    /\ Quiet /\ wf.there = "yes" /\ edits < MaxEdits
    /\ wf' = w /\ w # wf
    /\ edits' = edits + 1
    /\ UNCHANGED <<alive, obj, inMem, row, loop, history, crashes, deletes, faults>>

\* A node goes with its edges; the file is written.
remove_node(n) ==
    /\ \E kept \in Selected(wf.edges, {i \in 1..Len(wf.edges) :
                                         n \notin {wf.edges[i].from, wf.edges[i].to}}) :
          Edit([wf EXCEPT !.nodes = @ \ {n}, !.edges = kept])
    /\ file' = wf'

add_edge(d) ==
    /\ d.from \in wf.nodes /\ d.to \in wf.nodes
    /\ Edit([wf EXCEPT !.edges = Append(@, d)])
    /\ file' = wf'

\* remove_edge does not call _save.
remove_edge(i) ==
    /\ i \in 1..Len(wf.edges)
    /\ Edit([wf EXCEPT !.edges = SubSeq(@, 1, i - 1) \o SubSeq(@, i + 1, Len(@))])
    /\ UNCHANGED file

\* delete_workflow: coroutines that walk it keep their reference.
delete_workflow ==
    /\ Edit([wf EXCEPT !.there = "no"])
    /\ file' = wf'

-----------------------------------------------------------------------------
(* The checkpoint store.                                                   *)

\* CheckpointStore.save: upsert of the whole execution; errors are logged.
Save(e, x) ==
    \/ row' = [row EXCEPT ![e] = x] /\ UNCHANGED faults
    \/ faults < MaxFaults /\ faults' = faults + 1 /\ UNCHANGED row

\* prune: of the rows of finished executions only the newest "keep" stay.
prune(keep) ==
    LET finished == {e \in Execs : row[e].status \notin PRUNE_EXEMPT \cup {"absent"}}
        old == {e \in finished : Cardinality({d \in finished : d > e}) >= keep}
    IN  /\ Quiet /\ deletes < MaxDeletes /\ old # {}
        /\ row' = [e \in Execs |-> IF e \in old THEN NoExecution ELSE row[e]]
        /\ deletes' = deletes + 1
        /\ UNCHANGED <<alive, wf, file, obj, inMem, loop, history, crashes, edits, faults>>

\* delete_checkpoint: the dictionary entry and the row; a coroutine goes on.
delete_checkpoint(e) ==
    /\ Quiet /\ deletes < MaxDeletes
    /\ e \in inMem \/ row[e].status # "absent"
    /\ inMem' = inMem \ {e}
    /\ row' = [row EXCEPT ![e] = NoExecution]
    /\ deletes' = deletes + 1
    /\ UNCHANGED <<alive, wf, file, obj, loop, history, crashes, edits, faults>>

-----------------------------------------------------------------------------
(* The walk: _run_execution_async.                                         *)

\* The positions of the edges that leave n and whose condition holds.
Open(n, done) ==
    {i \in 1..Len(wf.edges) : wf.edges[i].from = n /\ done \in wf.edges[i].open}

\* Mutant: only the first open edge is followed.
OutgoingFirst(n, done) ==
    {[i \in 1..1 |-> wf.edges[k].to] : k \in {i \in Open(n, done) : \A j \in Open(n, done) : i <= j}}
        \cup {<<>>}

\* The targets of the open edges that leave n, in the order of the edges: a set
\* with one list.
Outgoing(n, done) ==
    {[i \in 1..Cardinality(Open(n, done)) |-> taken[i].to] :
        taken \in Selected(wf.edges, Open(n, done))}

\* A task made by execute gets its first turn.  Without a trigger node the
\* execution fails, and that is not saved.
begin(e) ==
    /\ Quiet /\ loop[e].pc = "ready"
    /\ \/ /\ wf.nodes \cap Triggers # {}
          /\ obj' = [obj EXCEPT ![e].status = "running"]
          /\ \E q \in Listings(wf.nodes \cap Triggers) :
                loop' = [loop EXCEPT ![e] = Walk(q, {})]
       \/ /\ wf.nodes \cap Triggers = {}
          /\ obj' = [obj EXCEPT ![e].status = "failed"]
          /\ loop' = [loop EXCEPT ![e] = NoLoop]
    /\ UNCHANGED <<alive, wf, file, inMem, row, history, bounds>>

More(e) == loop[e].queue # <<>> /\ loop[e].count < MaxSteps

\* The head of the queue was visited before, or is no longer in the workflow.
skip(e) ==
    /\ Turn(e) /\ loop[e].pc = "run" /\ More(e)
    /\ LET n == Head(loop[e].queue)
       IN  \/ /\ n \in loop[e].visited
              /\ loop' = [loop EXCEPT ![e].queue = Tail(@)]
           \/ /\ n \notin loop[e].visited \cup wf.nodes
              /\ loop' = [loop EXCEPT ![e].queue = Tail(@),
                                      ![e].visited = @ \cup {n},
                                      ![e].count = @ + 1]
    /\ UNCHANGED <<alive, wf, file, obj, inMem, row, history, bounds>>

\* The node at the head of the queue is started and awaited.
visit(e) ==
    /\ Turn(e) /\ loop[e].pc = "run" /\ More(e)
    /\ LET n == Head(loop[e].queue)
       IN  /\ n \in wf.nodes \ loop[e].visited
           /\ loop' = [loop EXCEPT ![e].pc = "await", ![e].node = n,
                                   ![e].queue = Tail(@),
                                   ![e].visited = @ \cup {n},
                                   ![e].count = @ + 1]
           /\ obj' = [obj EXCEPT ![e].steps[n] = "running"]
           /\ owed' = [owed EXCEPT ![e] = @ \cup {n}]
           /\ starts' = [starts EXCEPT ![e][n] = @ + 1]
    /\ UNCHANGED <<alive, wf, file, inMem, row, created, bounds>>

\* Mutant: the checkpoint is written before the step is marked as a success.
node_succeeds_early_save(e) ==
    /\ Turn(e) /\ loop[e].pc = "await"
    /\ LET n == loop[e].node
           x == [obj[e] EXCEPT !.steps[n] = "success"]
       IN  /\ obj' = [obj EXCEPT ![e] = x]
           /\ Save(e, obj[e])
           /\ owed' = [owed EXCEPT ![e] = @ \ {n}]
           /\ \E next \in Outgoing(n, Completed(x)) :
                 loop' = [loop EXCEPT ![e].pc = "run", ![e].node = NoNode, ![e].queue = @ \o next]
    /\ UNCHANGED <<alive, wf, file, inMem, created, starts, crashes, edits, deletes>>

\* The node returns: its step is a success, the execution is saved, and the
\* targets of its open edges are queued.
node_succeeds(e) ==
    /\ Turn(e) /\ loop[e].pc = "await"
    /\ LET n == loop[e].node
           x == [obj[e] EXCEPT !.steps[n] = "success"]
       IN  /\ obj' = [obj EXCEPT ![e] = x]
           /\ Save(e, x)
           /\ owed' = [owed EXCEPT ![e] = @ \ {n}]
           /\ \E next \in Outgoing(n, Completed(x)) :
                 loop' = [loop EXCEPT ![e].pc = "run", ![e].node = NoNode, ![e].queue = @ \o next]
    /\ UNCHANGED <<alive, wf, file, inMem, created, starts, crashes, edits, deletes>>

\* Mutant: the coroutine goes on with the next node after a failure.
node_fails_goes_on(e) ==
    /\ Turn(e) /\ loop[e].pc = "await" /\ loop[e].node \notin Instant
    /\ LET x == [obj[e] EXCEPT !.status = "failed", !.steps[loop[e].node] = "failed"]
       IN  obj' = [obj EXCEPT ![e] = x] /\ Save(e, x)
    /\ loop' = [loop EXCEPT ![e].pc = "run", ![e].node = NoNode]
    /\ UNCHANGED <<alive, wf, file, inMem, history, crashes, edits, deletes>>

\* The node raises: the execution fails and is saved, the coroutine returns.
node_fails(e) ==
    /\ Turn(e) /\ loop[e].pc = "await" /\ loop[e].node \notin Instant
    /\ LET x == [obj[e] EXCEPT !.status = "failed", !.steps[loop[e].node] = "failed"]
       IN  obj' = [obj EXCEPT ![e] = x] /\ Save(e, x)
    /\ loop' = [loop EXCEPT ![e] = NoLoop]
    /\ UNCHANGED <<alive, wf, file, inMem, history, crashes, edits, deletes>>

\* The newest k executions of S.
Newest(S, k) == {e \in S : Cardinality({d \in S : d > e}) < k}

\* The queue is empty or max_steps is reached: the execution is a success, the
\* history is trimmed, the coroutine returns.
finish(e) ==
    /\ Turn(e) /\ loop[e].pc = "run" /\ ~More(e)
    /\ LET x == [obj[e] EXCEPT !.status = IF @ = "failed" THEN @ ELSE "success"]
       IN  obj' = [obj EXCEPT ![e] = x] /\ Save(e, x)
    /\ loop' = [loop EXCEPT ![e] = NoLoop]
    /\ inMem' = Newest(inMem, MaxHistory)          \* _trim_history
    /\ UNCHANGED <<alive, wf, file, history, crashes, edits, deletes>>

-----------------------------------------------------------------------------
(* Requests.                                                               *)

\* A new execution and its first checkpoint.  If the workflow is missing or not
\* valid the caller gets an answer that is kept nowhere.
Create(e) ==
    /\ Quiet /\ wf.there = "yes" /\ validate_dag
    /\ e = created + 1
    /\ created' = e
    /\ inMem' = inMem \cup {e}
    /\ Save(e, NewExecution)
    /\ UNCHANGED <<alive, wf, file, owed, starts, crashes, edits, deletes>>

\* execute leaves the walk to a task; execute_async starts it at once.
execute(e) ==
    /\ Create(e)
    /\ obj' = [obj EXCEPT ![e] = NewExecution]
    /\ loop' = [loop EXCEPT ![e] = [NoLoop EXCEPT !.pc = "ready"]]

execute_async(e) ==
    /\ Create(e)
    /\ obj' = [obj EXCEPT ![e] = [NewExecution EXCEPT !.status = "running"]]
    /\ \E q \in Listings(wf.nodes \cap Triggers) : loop' = [loop EXCEPT ![e] = Walk(q, {})]

\* get_execution: the dictionary, else the row.
Stored(e) == IF e \in inMem THEN obj[e] ELSE row[e]

\* Mutant: only the unfinished nodes are known to the resumed walk.
resume_walk_forgets(done) ==
    LET frontier == {t \in Nodes \ done :
                        \E n \in done : \E i \in Open(n, done) : wf.edges[i].to = t}
    IN  {Walk(q, {}) : q \in Listings(IF frontier # {} THEN frontier ELSE wf.nodes \cap Triggers)}

\* Where a resumed walk starts: at the open edges that leave the completed nodes,
\* in any order (the code iterates over a set), or at the triggers.
resume_walk(done) ==
    LET frontier == {t \in Nodes \ done :
                        \E n \in done : \E i \in Open(n, done) : wf.edges[i].to = t}
    IN  {Walk(q, done) : q \in Listings(IF frontier # {} THEN frontier ELSE wf.nodes \cap Triggers)}

\* Mutant: the resume is not counted.
ResumedUncounted(x) == [x EXCEPT !.status = "running"]

\* The execution that is saved before the walk goes on.
Resumed(x) == [x EXCEPT !.status = "running", !.resumes = @ + 1]

\* resume_execution of a resumable execution: it is running again, saved, and
\* its coroutine drops the steps that are no success.  The code does not ask for
\* loop[e].pc = "none"; LoopExclusive says when that makes no difference, and what
\* two coroutines of one execution would do is not modelled.
resume_execution(e) ==
    /\ Quiet /\ wf.there = "yes" /\ validate_dag
    /\ Stored(e).status \in RESUMABLE_STATES /\ Stored(e).resumes < MaxResumes
    /\ loop[e].pc = "none"
    /\ LET x == Resumed(Stored(e))
           done == Completed(x)
       IN  /\ Save(e, x)
           /\ obj' = [obj EXCEPT ![e] =
                 [x EXCEPT !.steps = [n \in Nodes |-> IF n \in done THEN "success" ELSE "none"]]]
           /\ \E w \in resume_walk(done) : loop' = [loop EXCEPT ![e] = w]
    /\ inMem' = inMem \cup {e}
    /\ UNCHANGED <<alive, wf, file, history, crashes, edits, deletes>>

\* A resume that is refused because the workflow is missing or not valid:
\* the reason is saved with the execution (error, which is not modelled).
resume_refused(e) ==
    /\ Quiet /\ ~(wf.there = "yes" /\ validate_dag)
    /\ Stored(e).status \in RESUMABLE_STATES
    /\ row[e] # Stored(e)
    /\ Save(e, Stored(e))
    /\ UNCHANGED <<alive, wf, file, obj, inMem, loop, history, crashes, edits, deletes>>

\* cancel_execution: the status is changed and saved; the coroutine goes on.
cancel_execution(e) ==
    /\ Quiet /\ e \in inMem /\ obj[e].status \in Unfinished
    /\ LET x == [obj[e] EXCEPT !.status = "cancelled"]
       IN  obj' = [obj EXCEPT ![e] = x] /\ Save(e, x)
    /\ UNCHANGED <<alive, wf, file, inMem, loop, history, crashes, edits, deletes>>

-----------------------------------------------------------------------------
(* Crash and restart.                                                      *)

\* The process dies, in the middle of a walk too.
Crash ==
    /\ alive /\ crashes < MaxCrashes
    /\ alive' = FALSE
    /\ obj' = [e \in Execs |-> NoExecution]
    /\ inMem' = {}
    /\ loop' = [e \in Execs |-> NoLoop]
    /\ crashes' = crashes + 1
    /\ UNCHANGED <<wf, file, row, history, edits, deletes, faults>>

\* The process dies while _save rewrites the file in place: what is left of it
\* does not parse, and _load then knows no workflow.
CrashInSave ==
    /\ Quiet /\ wf.there = "yes" /\ edits < MaxEdits /\ crashes < MaxCrashes
    /\ alive' = FALSE
    /\ file' = [wf EXCEPT !.there = "lost"]
    /\ obj' = [e \in Execs |-> NoExecution]
    /\ inMem' = {}
    /\ loop' = [e \in Execs |-> NoLoop]
    /\ crashes' = crashes + 1 /\ edits' = edits + 1
    /\ UNCHANGED <<wf, row, history, deletes, faults>>

\* Mutant: an interrupted execution keeps the status of its dead process.
RecoveredUntouched(x) == x

\* Mutant: a status of its own for interrupted executions.
RecoveredInterrupted(x) ==
    IF x.status \in Unfinished THEN [x EXCEPT !.status = "interrupted"] ELSE x

\* An execution that was interrupted becomes waiting; others stay as they are.
Recovered(x) == IF x.status \in Unfinished THEN [x EXCEPT !.status = "waiting"] ELSE x

\* A new engine: _load reads the workflow, _recover_executions the newest rows.
Restart ==
    LET read == Newest({e \in Execs : row[e].status # "absent"}, RecoverLimit)
    IN  /\ ~alive /\ alive' = TRUE
        /\ wf' = file
        /\ obj' = [e \in Execs |-> IF e \in read THEN Recovered(row[e]) ELSE NoExecution]
        /\ inMem' = read
        /\ \E unsaved \in SUBSET {e \in read : Recovered(row[e]) # row[e]} :
              /\ faults + Cardinality(unsaved) <= MaxFaults
              /\ faults' = faults + Cardinality(unsaved)
              /\ row' = [e \in Execs |-> IF e \in read \ unsaved THEN Recovered(row[e]) ELSE row[e]]
        /\ UNCHANGED <<file, loop, history, crashes, edits, deletes>>

-----------------------------------------------------------------------------
Init ==
    /\ alive = TRUE
    /\ wf = [there |-> "yes", nodes |-> Nodes, edges |-> Edges]
    /\ file = wf
    /\ obj = [e \in Execs |-> NoExecution]
    /\ inMem = {}
    /\ row = [e \in Execs |-> NoExecution]
    /\ loop = [e \in Execs |-> NoLoop]
    /\ created = 0
    /\ owed = [e \in Execs |-> {}]
    /\ starts = [e \in Execs |-> [n \in Nodes |-> 0]]
    /\ crashes = 0 /\ edits = 0 /\ deletes = 0 /\ faults = 0

Editing ==
    \/ \E n \in wf.nodes : remove_node(n)
    \/ \E d \in NewEdges : add_edge(d)
    \/ \E i \in 1..Len(wf.edges) : remove_edge(i)
    \/ delete_workflow

Step(e) == begin(e) \/ skip(e) \/ visit(e) \/ node_succeeds(e) \/ node_fails(e) \/ finish(e)

Request(e) ==
    \/ execute(e) \/ execute_async(e) \/ resume_execution(e) \/ resume_refused(e)
    \/ cancel_execution(e) \/ delete_checkpoint(e)

Next ==
    \/ \E e \in Execs : Step(e) \/ Request(e)
    \/ \E keep \in {0, 1} : prune(keep)
    \/ Editing \/ Crash \/ CrashInSave \/ Restart

Spec == Init /\ [][Next]_vars

\* The event loop runs ready tasks; an action node ends because its HTTP client
\* has a timeout and a delay is capped; a process that died is started again.
Fairness == WF_vars(Restart) /\ \A e \in Execs : WF_vars(Step(e))

FairSpec == Spec /\ Fairness

-----------------------------------------------------------------------------
(* Properties.                                                             *)

\* The types of the variables: executions and rows as WorkflowExecution, the
\* queue and the visited set of a walk as in _run_execution_async.
TypeOK ==
    /\ alive \in BOOLEAN
    /\ {wf, file} \subseteq [there : {"yes", "no", "lost"}, nodes : SUBSET Nodes, edges : Seq(Edge)]
    /\ obj \in [Execs -> Execution] /\ row \in [Execs -> Execution]
    /\ inMem \in SUBSET Execs
    /\ loop \in [Execs -> Loop]
    /\ created \in 0..MaxExecs
    /\ owed \in [Execs -> SUBSET Nodes]
    /\ starts \in [Execs -> [Nodes -> Nat]]
    /\ {crashes, edits, deletes, faults} \subseteq Nat

\* "Completed nodes are not executed again" (_run_execution_async): a node that a
\* walk awaits has no success on disk, however often the execution was resumed
\* and whatever the graph leads back to it.
NoReplay ==
    \A e \in Execs : loop[e].pc = "await" => row[e].steps[loop[e].node] # "success"

\* resume_execution accepts an execution only when no coroutine of it is left, so
\* two walks never share one execution; nothing but the status guards this.  The
\* exception is an execution that was trimmed from the dictionary and whose row is
\* older than its coroutine because a write was lost.
LoopExclusive ==
    \A e \in Execs :
        (e \in inMem \/ faults = 0) /\ Stored(e).status \in RESUMABLE_STATES
            => loop[e].pc = "none"

\* An execution that is shown as pending or running really has a coroutine: a
\* failure or a restart leaves none in progress for ever (_recover_executions
\* marks it waiting).  For the rows this holds as long as there are no more of them
\* than _recover_executions reads, no write was lost, and the workflow was not
\* edited (the row of a task that finds no trigger node stays pending).
NoStuckExecution ==
    alive => \A e \in Execs :
        /\ obj[e].status \in Unfinished => loop[e].pc # "none"
        /\ faults = 0 /\ edits = 0 /\ created <= RecoverLimit /\ row[e].status \in Unfinished
              => loop[e].pc # "none"

\* Each node's result is on disk when the next one starts: if the process dies
\* while a node is awaited, only that node is lost.
CheckpointCurrent ==
    faults = 0 /\ deletes = 0 =>
        \A e \in Execs : loop[e].pc = "await" => Completed(row[e]) = Completed(obj[e])

\* "Exactly one pass per resume": a node is started at most once by the first
\* run and once by each counted resume, through crashes.
OnePassPerResume ==
    faults = 0 /\ deletes = 0 =>
        \A e \in Execs, n \in Nodes : starts[e][n] <= 1 + row[e].resumes

\* The workflows for which a resumed walk finds everything that is left to do: the
\* condition of an edge does not change after its source is completed, there is one
\* trigger (a resume goes back to the triggers only when no open edge is left), and
\* max_steps is no limit.
SettledWorkflow ==
    /\ \A i \in 1..Len(Edges) : \A D, E \in SUBSET Nodes :
          Edges[i].from \in D /\ D \subseteq E => (D \in Edges[i].open <=> E \in Edges[i].open)
    /\ \A s, t \in Triggers : s = t
    /\ Cardinality(Nodes) <= MaxSteps

\* "Failed and interrupted steps are replayed" (_run_execution_async): in an
\* execution that ends as a success every node that was started has succeeded.
FailedNodesReplayed ==
    faults = 0 /\ edits = 0 =>
        \A e \in Execs : row[e].status = "success" => owed[e] = {}

\* A success on disk covers the workflow: the nodes that open edges lead to from
\* completed nodes are completed, also after any crashes and resumes.
SuccessCoversWorkflow ==
    edits = 0 =>
        \A e \in Execs : row[e].status = "success" =>
            LET done == Completed(row[e])
            IN  /\ Triggers \subseteq done
                /\ \A i \in 1..Len(Edges) :
                      Edges[i].from \in done /\ done \in Edges[i].open => Edges[i].to \in done

\* "A completed execution is never replayed" (resume_execution): a success on
\* disk stays one until its row is deleted.
SuccessIsFinal ==
    [][\A e \in Execs : row[e].status = "success" =>
          row'[e].status \in {"success", "absent"}]_vars

\* cancel_execution: "the cancelled status is written through, so that the
\* history is the same after a restart".
CancelSticks ==
    [][\A e \in Execs : row[e].status = "cancelled" =>
          row'[e].status \in {"cancelled", "absent"}]_vars

\* An execution in progress ends, or waits for its resume after a crash, unless
\* the write that says so was lost.
EveryRunEnds ==
    \A e \in Execs :
        row[e].status \in Unfinished ~> row[e].status \notin Unfinished \/ faults > 0
=============================================================================
