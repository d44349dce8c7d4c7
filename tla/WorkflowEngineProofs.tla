------------------------ MODULE WorkflowEngineProofs ------------------------
(***************************************************************************)
(* Proofs about WorkflowEngine, for every workflow, every number of        *)
(* executions and every bound.                                             *)
(***************************************************************************)
EXTENDS WorkflowEngine, FiniteSetTheorems, TLAPS

\* The object of the execution is in use: by requests or by its coroutine.
Held(e) == e \in inMem \/ loop[e].pc # "none"

\* An execution that was not created yet.
Fresh(e) ==
    e > created =>
        /\ row[e] = NoExecution /\ obj[e] = NoExecution /\ loop[e] = NoLoop
        /\ e \notin inMem /\ owed[e] = {} /\ starts[e] = [n \in Nodes |-> 0]

\* What a coroutine knows of the steps of its execution.
Shape(e) ==
    /\ ~alive => loop[e].pc = "none"
    /\ loop[e].pc = "ready" => Completed(obj[e]) = {} /\ loop[e].visited = {}
    /\ loop[e].pc \in {"run", "await"} => Completed(obj[e]) \subseteq loop[e].visited
    /\ loop[e].pc = "await" =>
          loop[e].node \in loop[e].visited /\ obj[e].steps[loop[e].node] = "running"

\* The status of the object and of the row, against the coroutine.
Phase(e) ==
    /\ loop[e].pc = "ready" => obj[e].status \in {"pending", "cancelled"}
    /\ loop[e].pc \in {"run", "await"} => obj[e].status \in {"running", "cancelled"}
    /\ obj[e].status \in Unfinished => loop[e].pc # "none"
    /\ row[e].status = "success" =>
          loop[e].pc = "none" /\ (e \in inMem => obj[e].status = "success")
    /\ faults = 0 /\ loop[e].pc # "none" => row[e].status \notin RESUMABLE_STATES
    /\ alive /\ faults = 0 /\ edits = 0 /\ created <= RecoverLimit /\ row[e].status \in Unfinished
          => loop[e].pc # "none"

\* The row is never ahead of the object; without lost writes it is not behind.
Sync(e) ==
    /\ Held(e) => Completed(row[e]) \subseteq Completed(obj[e])
    /\ faults = 0 /\ row[e].status # "absent" /\ Held(e) =>
          Completed(row[e]) = Completed(obj[e]) /\ row[e].resumes = obj[e].resumes
    /\ faults = 0 /\ deletes = 0 /\ Held(e) => row[e].status # "absent"

\* A walk starts a node once.
Pass(e) ==
    faults = 0 /\ deletes = 0 =>
        \A n \in Nodes :
            /\ starts[e][n] <= 1 + row[e].resumes
            /\ loop[e].pc # "none" /\ n \notin loop[e].visited => starts[e][n] <= row[e].resumes

\* The workflow as it was created.
Original == [there |-> "yes", nodes |-> Nodes, edges |-> Edges]

\* The targets of the open edges that leave the nodes "done", and all that a walk
\* which has completed them must have met.
Targets(done) ==
    {n \in Nodes : \E i \in 1..Len(Edges) :
        Edges[i].from \in done /\ done \in Edges[i].open /\ Edges[i].to = n}
Due(done) == Triggers \cup Targets(done)

\* The nodes a coroutine has before it.
Elems(q)   == {q[i] : i \in 1..Len(q)}
Awaited(l) == IF l.pc = "await" THEN {l.node} ELSE {}
Ahead(l)   == Elems(l.queue) \cup Awaited(l)

\* A walk after the nodes "done": it has met what it must, and nothing else.
Walks(done, l) ==
    /\ l.visited = done \cup Awaited(l)
    /\ l.count <= Cardinality(l.visited)
    /\ Due(done) \subseteq done \cup Ahead(l)
    /\ Ahead(l) \subseteq Due(done)

Rooted(done)  == done # {} => Triggers \subseteq done
Owes(o, done) == o \subseteq Due(done) \ done

\* The nodes an execution has met are completed, before it, or owed and due: for
\* workflows that are settled and as they were created.
Cover(e) ==
    SettledWorkflow /\ edits = 0 =>
        /\ loop[e].pc \in {"run", "await"} => Walks(Completed(obj[e]), loop[e])
        /\ Rooted(Completed(obj[e])) /\ Rooted(Completed(row[e]))
        /\ faults = 0 /\ (e \in inMem \/ loop[e].pc # "none") => Owes(owed[e], Completed(obj[e]))
        /\ faults = 0 /\ row[e].status # "absent" => Owes(owed[e], Completed(row[e]))
        /\ row[e].status = "success" => Due(Completed(row[e])) \subseteq Completed(row[e])
        /\ row[e].status = "success" /\ faults = 0 => owed[e] = {}

ExecInv(e) == Fresh(e) /\ Shape(e) /\ Phase(e) /\ Sync(e) /\ Pass(e) /\ Cover(e)

\* Until it is edited the workflow stays so.
WfInv == edits = 0 => wf = Original /\ file = Original /\ (created > 0 => Triggers # {})

IInv == TypeOK /\ WfInv /\ \A e \in Execs : ExecInv(e)

\* What a step about one execution leaves alone of another one: at most it is
\* trimmed from the dictionary.
Kept(e) ==
    /\ obj'[e] = obj[e] /\ row'[e] = row[e] /\ loop'[e] = loop[e]
    /\ owed'[e] = owed[e] /\ starts'[e] = starts[e]
    /\ e \in inMem' => e \in inMem

\* What only grows, while the process stays as it is.
Onward ==
    /\ alive' = alive
    /\ faults' >= faults /\ deletes' >= deletes /\ edits' >= edits /\ created' >= created

\* What Cover(e) says after a step that leaves the object x, the row r, the
\* coroutine l and the owed nodes o.
Covering(e, x, r, l, o) ==
    /\ l.pc \in {"run", "await"} => Walks(Completed(x), l)
    /\ Rooted(Completed(x)) /\ Rooted(Completed(r))
    /\ faults' = 0 /\ (e \in inMem' \/ l.pc # "none") => Owes(o, Completed(x))
    /\ faults' = 0 /\ r.status # "absent" => Owes(o, Completed(r))
    /\ r.status = "success" => Due(Completed(r)) \subseteq Completed(r)
    /\ r.status = "success" /\ faults' = 0 => o = {}

\* A step about the execution e keeps the invariant.
Preserves(e) ==
    /\ TypeOK' /\ WfInv' /\ Onward
    /\ ExecInv(e)'
    /\ \A d \in Execs \ {e} : Kept(d)

-----------------------------------------------------------------------------
(* Lists.                                                                  *)

\* A listing of S is a sequence of its elements, and has each of them.
LEMMA ListingsType ==
    ASSUME NEW S, IsFiniteSet(S), NEW q \in Listings(S)
    PROVE  q \in Seq(S) /\ {q[i] : i \in 1..Len(q)} = S
  <1>1. Cardinality(S) \in Nat
    BY FS_CardinalityType
  <1> QED BY <1>1 DEF Listings

\* A set of positions in a list is finite.
LEMMA PositionsFinite ==
    ASSUME NEW T, NEW s \in Seq(T), NEW I \in SUBSET (1..Len(s))
    PROVE  IsFiniteSet(I) /\ Cardinality(I) \in Nat
  <1>1. 1 \in Int /\ Len(s) \in Int
    OBVIOUS
  <1>2. IsFiniteSet(1..Len(s))
    BY <1>1, FS_Interval
  <1> QED BY <1>2, FS_Subset, FS_CardinalityType

\* A selection from a list holds what the list has at the chosen positions.
LEMMA SelectedType ==
    ASSUME NEW T, NEW s \in Seq(T), NEW I \in SUBSET (1..Len(s)), NEW q \in Selected(s, I)
    PROVE  /\ q \in Seq(T)
           /\ \A k \in 1..Len(q) : \E i \in I : q[k] = s[i]
           /\ \A i \in I : \E k \in 1..Len(q) : q[k] = s[i]
  <1>1. IsFiniteSet(I) /\ Cardinality(I) \in Nat
    BY PositionsFinite
  <1>2. PICK p \in Listings(I) : q = [k \in 1..Cardinality(I) |-> s[p[k]]]
    BY DEF Selected
  <1>3. p \in Seq(I) /\ Len(p) = Cardinality(I) /\ {p[k] : k \in 1..Cardinality(I)} = I
    BY <1>1, ListingsType DEF Listings
  <1>4. \A k \in 1..Cardinality(I) : p[k] \in I
    BY <1>3
  <1>5. \A i \in I : s[i] \in T
    OBVIOUS
  <1>6. q \in Seq(T) /\ Len(q) = Cardinality(I)
    <2>1. \A k \in 1..Cardinality(I) : s[p[k]] \in T
      BY <1>4, <1>5
    <2>2. q \in [1..Cardinality(I) -> T]
      BY <2>1, <1>2
    <2> QED BY <2>2, <1>1
  <1>7. \A i \in I : \E k \in 1..Cardinality(I) : p[k] = i
    BY <1>3
  <1> QED BY <1>2, <1>4, <1>6, <1>7

\* The nodes queued after a node are the targets of its open edges.
LEMMA OutgoingType ==
    ASSUME TypeOK, NEW n \in Nodes, NEW done, NEW q \in Outgoing(n, done)
    PROVE  /\ q \in Seq(Nodes)
           /\ {q[k] : k \in 1..Len(q)} = {wf.edges[i].to : i \in Open(n, done)}
  <1> DEFINE I == Open(n, done)
  <1>1. wf.edges \in Seq(Edge)
    BY DEF TypeOK
  <1>2. I \in SUBSET (1..Len(wf.edges))
    BY DEF Open
  <1>3. PICK t \in Selected(wf.edges, I) : q = [i \in 1..Cardinality(I) |-> t[i].to]
    BY DEF Outgoing
  <1> HIDE DEF I
  <1>4. t \in Seq(Edge) 
    BY <1>1, <1>2, <1>3, SelectedType
  <1>5. Cardinality(I) \in Nat
    BY <1>1, <1>2, PositionsFinite
  <1>6. Len(t) = Cardinality(I)
    BY <1>3, <1>5 DEF Selected
  <1>7. \A k \in 1..Len(t) : t[k].to \in Nodes
    <2>1. \A k \in 1..Len(t) : t[k] \in Edge
      BY <1>4
    <2> QED BY <2>1 DEF Edge
  <1>8. q \in Seq(Nodes) /\ Len(q) = Len(t) /\ \A k \in 1..Len(t) : q[k] = t[k].to
    BY <1>3, <1>5, <1>6, <1>7
  <1>9. \A k \in 1..Len(t) : \E i \in I : t[k] = wf.edges[i]
    BY <1>1, <1>2, <1>3, SelectedType
  <1>10. \A i \in I : \E k \in 1..Len(t) : t[k] = wf.edges[i]
    BY <1>1, <1>2, <1>3, SelectedType
  <1>11. {q[k] : k \in 1..Len(q)} \subseteq {wf.edges[i].to : i \in I}
    BY <1>8, <1>9
  <1>12. {wf.edges[i].to : i \in I} \subseteq {q[k] : k \in 1..Len(q)}
    BY <1>8, <1>10
  <1> QED BY <1>8, <1>11, <1>12 DEF I

\* The elements of an empty list, of the rest of a list, and of a longer list.
LEMMA ElemsOf ==
    ASSUME NEW S, NEW p \in Seq(S), NEW q \in Seq(S)
    PROVE  /\ q = <<>> => Elems(q) = {}
           /\ q # <<>> => Elems(q) = {Head(q)} \cup Elems(Tail(q))
           /\ Elems(p \o q) = Elems(p) \cup Elems(q)
  <1>1. q = <<>> => Elems(q) = {}
    BY DEF Elems
  <1>2. ASSUME q # <<>> PROVE Elems(q) = {Head(q)} \cup Elems(Tail(q))
    <2>1. /\ Len(q) \in Nat \ {0} /\ Head(q) = q[1] /\ Len(Tail(q)) = Len(q) - 1
          /\ \A i \in 1..(Len(q) - 1) : Tail(q)[i] = q[i + 1]
      BY <1>2
    <2>2. ASSUME NEW i \in 1..Len(q) PROVE q[i] \in {Head(q)} \cup Elems(Tail(q))
      <3>1. CASE i = 1
        BY <2>1, <3>1
      <3>2. CASE i # 1
        <4>1. i - 1 \in 1..(Len(q) - 1) /\ Tail(q)[i - 1] = q[i]
          BY <2>1, <3>2
        <4> QED BY <2>1, <4>1 DEF Elems
      <3> QED BY <3>1, <3>2
    <2>3. ASSUME NEW i \in 1..Len(Tail(q)) PROVE Tail(q)[i] \in Elems(q)
      <3>1. i + 1 \in 1..Len(q) /\ Tail(q)[i] = q[i + 1]
        BY <2>1
      <3> QED BY <3>1 DEF Elems
    <2>4. Head(q) \in Elems(q)
      BY <2>1 DEF Elems
    <2> QED BY <2>2, <2>3, <2>4 DEF Elems
  <1>3. Elems(p \o q) = Elems(p) \cup Elems(q)
    <2>1. /\ Len(p) \in Nat /\ Len(q) \in Nat /\ Len(p \o q) = Len(p) + Len(q)
          /\ \A i \in 1..Len(p) : (p \o q)[i] = p[i]
          /\ \A i \in 1..Len(q) : (p \o q)[Len(p) + i] = q[i]
      OBVIOUS
    <2>2. ASSUME NEW i \in 1..Len(p \o q) PROVE (p \o q)[i] \in Elems(p) \cup Elems(q)
      <3>1. CASE i <= Len(p)
        BY <2>1, <3>1 DEF Elems
      <3>2. CASE i > Len(p)
        <4>1. i - Len(p) \in 1..Len(q) /\ (p \o q)[i] = q[i - Len(p)]
          BY <2>1, <3>2
        <4> QED BY <4>1 DEF Elems
      <3> QED BY <2>1, <3>1, <3>2
    <2>3. ASSUME NEW i \in 1..Len(p) PROVE p[i] \in Elems(p \o q)
      <3>1. i \in 1..Len(p \o q) /\ (p \o q)[i] = p[i]
        BY <2>1
      <3> QED BY <3>1 DEF Elems
    <2>4. ASSUME NEW i \in 1..Len(q) PROVE q[i] \in Elems(p \o q)
      <3>1. Len(p) + i \in 1..Len(p \o q) /\ (p \o q)[Len(p) + i] = q[i]
        BY <2>1
      <3> QED BY <3>1 DEF Elems
    <2> QED BY <2>2, <2>3, <2>4 DEF Elems
  <1> QED BY <1>1, <1>2, <1>3

\* What is due after one more node: what its open edges lead to.
LEMMA DueGrows ==
    ASSUME SettledWorkflow, wf = Original, NEW done \in SUBSET Nodes, NEW n \in Nodes
    PROVE  /\ Due(done) \subseteq Due(done \cup {n})
           /\ Due(done \cup {n}) = Due(done) \cup {wf.edges[i].to : i \in Open(n, done \cup {n})}
  <1> DEFINE all == done \cup {n}
  <1>1. wf.edges = Edges /\ Edges \in Seq(Edge)
    BY GraphAssumption DEF Original
  <1>2. \A i \in 1..Len(Edges) : Edges[i].from \in Nodes /\ Edges[i].to \in Nodes
    <2>1. \A i \in 1..Len(Edges) : Edges[i] \in Edge
      BY <1>1
    <2> QED BY <2>1 DEF Edge
  <1>3. \A i \in 1..Len(Edges) : Edges[i].from \in done =>
           (done \in Edges[i].open <=> all \in Edges[i].open)
    BY DEF SettledWorkflow
  <1>4. Targets(done) \subseteq Targets(all)
    BY <1>3 DEF Targets
  <1>5. ASSUME NEW i \in Open(n, all) PROVE wf.edges[i].to \in Targets(all)
    BY <1>1, <1>2, <1>5 DEF Open, Targets
  <1>6. ASSUME NEW m \in Targets(all)
        PROVE  m \in Targets(done) \cup {wf.edges[i].to : i \in Open(n, all)}
    <2>1. PICK i \in 1..Len(Edges) : Edges[i].from \in all /\ all \in Edges[i].open /\ Edges[i].to = m
      BY <1>6 DEF Targets
    <2>2. CASE Edges[i].from \in done
      BY <1>2, <1>3, <2>1, <2>2 DEF Targets
    <2>3. CASE Edges[i].from = n
      BY <1>1, <2>1, <2>3 DEF Open
    <2> QED BY <2>1, <2>2, <2>3
  <1> QED BY <1>4, <1>5, <1>6 DEF Due

\* At first the triggers are due; the frontier of a resume is what is due and not
\* done, or the triggers.
LEMMA DueFirst == Due({}) = Triggers /\ Rooted({}) /\ Owes({}, {})
  BY DEF Due, Targets, Rooted, Owes

\* When there are at most k executions, the newest k of them are all.
LEMMA NewestAll ==
    ASSUME NEW m \in Nat, NEW k \in Nat, m <= k, NEW S \in SUBSET (1..m)
    PROVE  Newest(S, k) = S
  <1> SUFFICES ASSUME NEW e \in S PROVE Cardinality({d \in S : d > e}) < k
    BY DEF Newest
  <1> DEFINE L == {d \in S : d > e}
  <1>1. IsFiniteSet(1..m) /\ Cardinality(1..m) = m
    BY FS_Interval
  <1>2. e \in 1..m /\ ~(e > e)
    OBVIOUS
  <1>3. L \subseteq 1..m /\ L # 1..m
    BY <1>2
  <1>4. Cardinality(L) <= m /\ Cardinality(L) # m /\ Cardinality(L) \in Nat
    BY <1>1, <1>3, FS_Subset, FS_CardinalityType
  <1> QED BY <1>4

-----------------------------------------------------------------------------
(* Building blocks.                                                        *)

\* The empty objects are of their types and have no completed node.
LEMMA EmptyTypes ==
    /\ NoExecution \in Execution /\ NewExecution \in Execution /\ NoLoop \in Loop
    /\ Completed(NoExecution) = {} /\ Completed(NewExecution) = {}
    /\ NewExecution.status = "pending" /\ NewExecution.resumes = 0
    /\ NoExecution.status = "absent" /\ NoExecution.resumes = 0
  BY DEF NoExecution, NewExecution, Execution, ExecutionStatus, StepStatus, NoLoop, Loop, Completed

\* save writes the execution to its row, or loses the write.
LEMMA SaveRow ==
    ASSUME TypeOK, NEW e \in Execs, NEW x \in Execution, Save(e, x)
    PROVE  /\ row' \in [Execs -> Execution] /\ faults' \in Nat
           /\ \A d \in Execs : d # e => row'[d] = row[d]
           /\ \/ faults' = faults /\ row'[e] = x
              \/ faults' = faults + 1 /\ row'[e] = row[e]
  <1>1. faults \in Nat /\ row \in [Execs -> Execution]
    BY DEF TypeOK
  <1>2. CASE row' = [row EXCEPT ![e] = x] /\ faults' = faults
    BY <1>1, <1>2
  <1>3. CASE faults' = faults + 1 /\ row' = row
    BY <1>1, <1>3
  <1> QED BY <1>2, <1>3 DEF Save

\* An execution with another step or another status.
WithStep(x, n, s)  == [x EXCEPT !.steps[n] = s]
WithStatus(x, s)   == [x EXCEPT !.status = s]

LEMMA StepSet ==
    ASSUME NEW x \in Execution, NEW n \in Nodes, NEW s \in StepStatus
    PROVE  /\ WithStep(x, n, s) \in Execution
           /\ WithStep(x, n, s).status = x.status /\ WithStep(x, n, s).resumes = x.resumes
           /\ WithStep(x, n, s).steps[n] = s
           /\ s = "success" => Completed(WithStep(x, n, s)) = Completed(x) \cup {n}
           /\ s # "success" => Completed(WithStep(x, n, s)) = Completed(x) \ {n}
  BY DEF Execution, StepStatus, Completed, WithStep

LEMMA StatusSet ==
    ASSUME NEW x \in Execution, NEW s \in ExecutionStatus
    PROVE  /\ WithStatus(x, s) \in Execution
           /\ WithStatus(x, s).status = s /\ WithStatus(x, s).resumes = x.resumes
           /\ WithStatus(x, s).steps = x.steps
           /\ Completed(WithStatus(x, s)) = Completed(x)
  BY DEF Execution, Completed, WithStatus

\* Cover after a step.
LEMMA CoverOf ==
    ASSUME NEW e \in Execs, NEW x, NEW r, NEW l, NEW o,
           obj'[e] = x, row'[e] = r, loop'[e] = l, owed'[e] = o,
           SettledWorkflow /\ edits' = 0 => Covering(e, x, r, l, o)
    PROVE  Cover(e)'
  <1>1. Completed(obj[e])' = Completed(x) /\ Completed(row[e])' = Completed(r)
    BY DEF Completed
  <1>2. Due(Completed(obj[e]))' = Due(Completed(x)) /\ Due(Completed(row[e]))' = Due(Completed(r))
    BY <1>1 DEF Due, Targets
  <1>3. Awaited(loop[e])' = Awaited(l) /\ Ahead(loop[e])' = Ahead(l)
    BY DEF Awaited, Ahead, Elems
  <1>4. Walks(Completed(obj[e]), loop[e])' <=> Walks(Completed(x), l)
    BY <1>1, <1>2, <1>3 DEF Walks
  <1>5. /\ Rooted(Completed(obj[e]))' <=> Rooted(Completed(x))
        /\ Rooted(Completed(row[e]))' <=> Rooted(Completed(r))
    BY <1>1 DEF Rooted
  <1>6. /\ Owes(owed[e], Completed(obj[e]))' <=> Owes(o, Completed(x))
        /\ Owes(owed[e], Completed(row[e]))' <=> Owes(o, Completed(r))
    BY <1>1, <1>2 DEF Owes
  <1>7. SettledWorkflow' <=> SettledWorkflow
    BY DEF SettledWorkflow
  <1>8. CASE ~(SettledWorkflow /\ edits' = 0)
    BY <1>7, <1>8 DEF Cover
  <1>9. CASE SettledWorkflow /\ edits' = 0
    BY <1>1, <1>2, <1>4, <1>5, <1>6, <1>9 DEF Cover, Covering
  <1> QED BY <1>8, <1>9

\* The invariant of an execution that a step leaves alone.
LEMMA Frame ==
    ASSUME TypeOK, TypeOK', Onward, NEW e \in Execs, ExecInv(e), Kept(e)
    PROVE  ExecInv(e)'
  <1> USE DEF Kept, Onward
  <1>1. /\ faults \in Nat /\ faults' \in Nat /\ deletes \in Nat /\ deletes' \in Nat
        /\ edits \in Nat /\ edits' \in Nat /\ created \in Nat /\ created' \in Nat /\ e \in Nat
    BY DEF TypeOK, Execs
  <1>2. /\ faults' = 0 => faults = 0
        /\ deletes' = 0 => deletes = 0
        /\ edits' = 0 => edits = 0
        /\ created' <= RecoverLimit => created <= RecoverLimit
        /\ e > created' => e > created
    BY <1>1, GraphAssumption
  <1>3. Completed(obj[e])' = Completed(obj[e]) /\ Completed(row[e])' = Completed(row[e])
    BY DEF Completed
  <1>4. Held(e)' => Held(e)
    BY DEF Held
  <1>5. Fresh(e)'
    BY <1>2 DEF ExecInv, Fresh
  <1>6. Shape(e)'
    BY <1>3 DEF ExecInv, Shape
  <1>7. Phase(e)'
    BY <1>2 DEF ExecInv, Phase
  <1>8. Sync(e)'
    BY <1>2, <1>3, <1>4 DEF ExecInv, Sync
  <1>9. Pass(e)'
    BY <1>2 DEF ExecInv, Pass
  <1>10. Cover(e)'
    <2>1. Covering(e, obj[e], row[e], loop[e], owed[e]) \/ ~(SettledWorkflow /\ edits' = 0)
      BY <1>2 DEF ExecInv, Cover, Covering
    <2> QED BY <2>1, CoverOf
  <1> QED BY <1>5, <1>6, <1>7, <1>8, <1>9, <1>10 DEF ExecInv

\* A step about one execution keeps the inductive invariant.
LEMMA Joined ==
    ASSUME IInv, NEW e \in Execs, Preserves(e)
    PROVE  IInv'
  <1>1. \A d \in Execs : ExecInv(d)'
    BY Frame DEF IInv, Preserves
  <1> QED BY <1>1 DEF IInv, Preserves

\* What the lemmas about the actions use of the invariant.
Known(e) ==
    /\ TypeOK /\ WfInv /\ Fresh(e) /\ Shape(e) /\ Phase(e) /\ Sync(e) /\ Pass(e) /\ Cover(e)
    /\ obj[e] \in Execution /\ row[e] \in Execution /\ loop[e] \in Loop
    /\ loop[e].queue \in Seq(Nodes) /\ loop[e].visited \in SUBSET Nodes
    /\ loop[e].node \in Nodes \cup {NoNode} /\ loop[e].count \in Nat
    /\ loop[e].pc \in {"none", "ready", "run", "await"}
    /\ obj[e].resumes \in Nat /\ row[e].resumes \in Nat
    /\ owed[e] \in SUBSET Nodes /\ starts[e] \in [Nodes -> Nat]
    /\ wf.nodes \in SUBSET Nodes /\ wf.edges \in Seq(Edge)
    /\ created \in Nat /\ e \in Nat /\ alive \in BOOLEAN
    /\ faults \in Nat /\ deletes \in Nat /\ edits \in Nat

LEMMA Parts ==
    ASSUME IInv, NEW e \in Execs
    PROVE  Known(e)
  <1>1. TypeOK /\ WfInv /\ Fresh(e) /\ Shape(e) /\ Phase(e) /\ Sync(e) /\ Pass(e) /\ Cover(e)
    BY DEF IInv, ExecInv
  <1>2. obj[e] \in Execution /\ row[e] \in Execution /\ loop[e] \in Loop
    BY <1>1 DEF TypeOK
  <1>3. /\ loop[e].queue \in Seq(Nodes) /\ loop[e].visited \in SUBSET Nodes
        /\ loop[e].node \in Nodes \cup {NoNode} /\ loop[e].count \in Nat
        /\ loop[e].pc \in {"none", "ready", "run", "await"}
    BY <1>2 DEF Loop
  <1>4. obj[e].resumes \in Nat /\ row[e].resumes \in Nat
    BY <1>2 DEF Execution
  <1>5. /\ owed[e] \in SUBSET Nodes /\ starts[e] \in [Nodes -> Nat]
        /\ wf.nodes \in SUBSET Nodes /\ wf.edges \in Seq(Edge)
        /\ created \in Nat /\ e \in Nat /\ alive \in BOOLEAN
        /\ faults \in Nat /\ deletes \in Nat /\ edits \in Nat
    BY <1>1 DEF TypeOK, Execs
  <1> QED BY <1>1, <1>2, <1>3, <1>4, <1>5 DEF Known

\* A walk that starts is a coroutine between two nodes.
LEMMA WalkType ==
    ASSUME NEW q \in Seq(Nodes), NEW v \in SUBSET Nodes
    PROVE  /\ Walk(q, v) \in Loop /\ Walk(q, v).pc = "run"
           /\ Walk(q, v).queue = q /\ Walk(q, v).visited = v /\ Walk(q, v).count = 0
           /\ Walk(q, v).node = NoNode
  BY DEF Walk, Loop

\* The coroutine takes n from the queue, of which q is left, and drops it or
\* starts it.
Dropping(k, n, q) == [k EXCEPT !.queue = q, !.visited = @ \cup {n}, !.count = @ + 1]
Starting(k, n, q) ==
    [k EXCEPT !.pc = "await", !.node = n, !.queue = q, !.visited = @ \cup {n}, !.count = @ + 1]

LEMMA LoopTakes ==
    ASSUME NEW k \in Loop, NEW n \in Nodes, NEW q \in Seq(Nodes)
    PROVE  /\ Dropping(k, n, q) \in Loop
           /\ Dropping(k, n, q).pc = k.pc /\ Dropping(k, n, q).node = k.node
           /\ Dropping(k, n, q).queue = q /\ Dropping(k, n, q).visited = k.visited \cup {n}
           /\ Dropping(k, n, q).count = k.count + 1
           /\ Starting(k, n, q) \in Loop
           /\ Starting(k, n, q).pc = "await" /\ Starting(k, n, q).node = n
           /\ Starting(k, n, q).queue = q /\ Starting(k, n, q).visited = k.visited \cup {n}
           /\ Starting(k, n, q).count = k.count + 1
  <1>1. k.visited \cup {n} \in SUBSET Nodes /\ k.count + 1 \in Nat
    BY DEF Loop
  <1>2. Dropping(k, n, q) = [pc |-> k.pc, queue |-> q, visited |-> k.visited \cup {n},
                             node |-> k.node, count |-> k.count + 1]
    <2> DEFINE l == Dropping(k, n, q)
    <2>1. l = [k EXCEPT !.queue = q, !.visited = @ \cup {n}, !.count = @ + 1]
      BY DEF Dropping
    <2> HIDE DEF l
    <2>2. l = [pc |-> k.pc, queue |-> q, visited |-> k.visited \cup {n}, node |-> k.node,
               count |-> k.count + 1]
      BY <2>1 DEF Loop
    <2> QED BY <2>2 DEF l
  <1>3. Starting(k, n, q) = [pc |-> "await", queue |-> q, visited |-> k.visited \cup {n},
                             node |-> n, count |-> k.count + 1]
    <2> DEFINE l == Starting(k, n, q)
    <2>1. l = [k EXCEPT !.pc = "await", !.node = n, !.queue = q, !.visited = @ \cup {n},
                        !.count = @ + 1]
      BY DEF Starting
    <2> HIDE DEF l
    <2>2. l = [pc |-> "await", queue |-> q, visited |-> k.visited \cup {n}, node |-> n,
               count |-> k.count + 1]
      BY <2>1 DEF Loop
    <2> QED BY <2>2 DEF l
  <1> QED BY <1>1, <1>2, <1>3 DEF Loop

\* The coroutine goes on after a node, with q to do.
Returning(k, q) == [k EXCEPT !.pc = "run", !.node = NoNode, !.queue = q]

LEMMA LoopReturns ==
    ASSUME NEW k \in Loop, NEW q \in Seq(Nodes)
    PROVE  /\ Returning(k, q) \in Loop
           /\ Returning(k, q).pc = "run" /\ Returning(k, q).node = NoNode
           /\ Returning(k, q).queue = q /\ Returning(k, q).visited = k.visited
           /\ Returning(k, q).count = k.count
  BY DEF Loop, Returning

\* The trigger nodes can be listed, and the list is one of nodes.
LEMMA TriggerList ==
    ASSUME TypeOK, NEW q \in Listings(wf.nodes \cap Triggers)
    PROVE  q \in Seq(Nodes) /\ {q[i] : i \in 1..Len(q)} = wf.nodes \cap Triggers
  <1>1. wf.nodes \cap Triggers \subseteq Nodes /\ IsFiniteSet(wf.nodes \cap Triggers)
    BY GraphAssumption, FS_Subset DEF TypeOK
  <1>2. q \in Seq(wf.nodes \cap Triggers) /\ {q[i] : i \in 1..Len(q)} = wf.nodes \cap Triggers
    BY <1>1, ListingsType
  <1> QED BY <1>1, <1>2

\* A step that gives one execution the object x and the coroutine l, and other
\* executions nothing.
Touches(e, x, l) ==
    /\ obj' = [obj EXCEPT ![e] = x] /\ loop' = [loop EXCEPT ![e] = l]
    /\ row' \in [Execs -> Execution] /\ \A d \in Execs : d # e => row'[d] = row[d]
    /\ faults' \in Nat /\ faults' >= faults
    /\ inMem' \in SUBSET Execs /\ inMem' \subseteq inMem \cup {e}
    /\ owed' \in [Execs -> SUBSET Nodes] /\ \A d \in Execs : d # e => owed'[d] = owed[d]
    /\ starts' \in [Execs -> [Nodes -> Nat]] /\ \A d \in Execs : d # e => starts'[d] = starts[d]
    /\ deletes' \in Nat /\ deletes' >= deletes
    /\ UNCHANGED <<alive, wf, file, crashes, edits>>
    /\ \/ created' = created
       \/ created' = e /\ created < e /\ wf.nodes \cap Triggers # {}

\* Of such a step only the invariant of that execution is left to prove.
LEMMA StepOf ==
    ASSUME IInv, NEW e \in Execs, NEW x \in Execution, NEW l \in Loop, Touches(e, x, l)
    PROVE  /\ obj'[e] = x /\ loop'[e] = l
           /\ ExecInv(e)' => Preserves(e)
  <1> USE DEF Touches
  <1>1. TypeOK
    BY DEF IInv
  <1>2. /\ obj' \in [Execs -> Execution] /\ \A d \in Execs : d # e => obj'[d] = obj[d]
        /\ obj'[e] = x
    BY <1>1 DEF TypeOK
  <1>3. /\ loop' \in [Execs -> Loop] /\ \A d \in Execs : d # e => loop'[d] = loop[d]
        /\ loop'[e] = l
    BY <1>1 DEF TypeOK
  <1>4. created \in 0..MaxExecs /\ created' \in 0..MaxExecs /\ created' >= created
    BY <1>1 DEF TypeOK, Execs
  <1>5. TypeOK'
    BY <1>1, <1>2, <1>3, <1>4 DEF TypeOK
  <1>6. WfInv'
    BY DEF IInv, WfInv
  <1>7. Onward
    BY <1>1, <1>4 DEF Onward, TypeOK
  <1>8. \A d \in Execs \ {e} : Kept(d)
    BY <1>2, <1>3 DEF Kept
  <1> QED BY <1>2, <1>3, <1>5, <1>6, <1>7, <1>8 DEF Preserves

\* The conjuncts of Touches about variables that do not change.
LEMMA Unchanging ==
    ASSUME TypeOK, NEW e \in Execs
    PROVE  /\ row' = row => row' \in [Execs -> Execution] /\ \A d \in Execs : d # e => row'[d] = row[d]
           /\ faults' = faults => faults' \in Nat /\ faults' >= faults
           /\ deletes' = deletes => deletes' \in Nat /\ deletes' >= deletes
           /\ inMem' = inMem => inMem' \in SUBSET Execs /\ inMem' \subseteq inMem \cup {e}
           /\ owed' = owed =>
                 owed' \in [Execs -> SUBSET Nodes] /\ \A d \in Execs : d # e => owed'[d] = owed[d]
           /\ starts' = starts =>
                 /\ starts' \in [Execs -> [Nodes -> Nat]]
                 /\ \A d \in Execs : d # e => starts'[d] = starts[d]
  BY DEF TypeOK

\* A walk that starts at the triggers.
LEMMA WalkFirst ==
    ASSUME TypeOK, wf = Original, NEW q \in Listings(wf.nodes \cap Triggers)
    PROVE  Walks({}, Walk(q, {}))
  <1>1. q \in Seq(Nodes) /\ Elems(q) = Triggers
    BY TriggerList, GraphAssumption DEF Original, Elems
  <1>2. /\ Walk(q, {}).pc = "run" /\ Walk(q, {}).queue = q /\ Walk(q, {}).visited = {}
        /\ Walk(q, {}).count = 0
    BY <1>1, WalkType
  <1>3. Cardinality({}) = 0
    BY FS_EmptySet
  <1>4. Awaited(Walk(q, {})) = {} /\ Ahead(Walk(q, {})) = Triggers
    BY <1>1, <1>2 DEF Ahead, Awaited
  <1>5. Walk(q, {}).count <= Cardinality(Walk(q, {}).visited)
    BY <1>2, <1>3
  <1> QED BY <1>2, <1>4, <1>5, DueFirst DEF Walks

-----------------------------------------------------------------------------
(* The steps of a coroutine.                                               *)

\* A task that begins keeps the invariant.
LEMMA BeginStep ==
    ASSUME IInv, NEW e \in Execs, begin(e)
    PROVE  Preserves(e)
  <1>1. Known(e)
    BY Parts
  <1> USE <1>1 DEF Known
  <1>2. loop[e].pc = "ready" /\ alive
    BY DEF begin, Quiet
  <1>3. UNCHANGED <<alive, wf, file, inMem, row, created, owed, starts, crashes, edits, deletes, faults>>
    BY DEF begin, history, bounds
  <1>4. e <= created
    BY <1>2 DEF Fresh, NoLoop
  <1>5. Completed(row[e])' = Completed(row[e])
    BY <1>3 DEF Completed
  <1>6. ASSUME NEW x, NEW l, obj' = [obj EXCEPT ![e] = x], loop' = [loop EXCEPT ![e] = l]
        PROVE  Touches(e, x, l)
    BY <1>3, <1>6, Unchanging DEF Touches
  <1>7. CASE /\ wf.nodes \cap Triggers # {}
             /\ obj' = [obj EXCEPT ![e].status = "running"]
             /\ \E q \in Listings(wf.nodes \cap Triggers) : loop' = [loop EXCEPT ![e] = Walk(q, {})]
    <2> DEFINE x == WithStatus(obj[e], "running")
    <2>1. PICK q \in Listings(wf.nodes \cap Triggers) : loop' = [loop EXCEPT ![e] = Walk(q, {})]
      BY <1>7
    <2>2. q \in Seq(Nodes)
      BY <2>1, TriggerList
    <2>3. Walk(q, {}) \in Loop /\ Walk(q, {}).pc = "run" /\ Walk(q, {}).visited = {}
      BY <2>2, WalkType
    <2>4. /\ x \in Execution /\ x.status = "running" /\ x.steps = obj[e].steps
          /\ x.resumes = obj[e].resumes
      BY StatusSet DEF ExecutionStatus
    <2>5. obj' = [obj EXCEPT ![e] = x]
      BY <1>7 DEF WithStatus
    <2> HIDE DEF x
    <2>6. obj'[e] = x /\ loop'[e] = Walk(q, {}) /\ (ExecInv(e)' => Preserves(e))
      BY <1>6, <2>1, <2>3, <2>4, <2>5, StepOf
    <2>7. Completed(obj[e])' = Completed(obj[e])
      BY <2>4, <2>6 DEF Completed
    <2>8. Fresh(e)'
      BY <1>3, <1>4 DEF Fresh
    <2>9. Shape(e)'
      BY <1>2, <1>3, <2>3, <2>6, <2>7 DEF Shape
    <2>10. Phase(e)'
      BY <1>2, <1>3, <2>3, <2>4, <2>6 DEF Phase, Unfinished
    <2>11. Sync(e)'
      BY <1>2, <1>3, <1>5, <2>3, <2>4, <2>6, <2>7 DEF Sync, Held
    <2>12. Pass(e)'
      BY <1>2, <1>3, <2>3, <2>6 DEF Pass, Shape
    <2>13. Cover(e)'
      <3>1. Completed(x) = {}
        BY <1>2, <2>4 DEF Shape, Completed
      <3>2. ASSUME SettledWorkflow, edits' = 0
            PROVE  Covering(e, x, row[e], Walk(q, {}), owed[e])
        <4>1. Walks({}, Walk(q, {}))
          BY <1>3, <2>1, <3>2, WalkFirst DEF WfInv
        <4>2. Completed(obj[e]) = {}
          BY <1>2 DEF Shape
        <4> QED BY <1>2, <1>3, <2>3, <3>1, <3>2, <4>1, <4>2 DEF Cover, Covering
      <3> QED BY <1>3, <2>6, <3>2, CoverOf
    <2> QED BY <2>6, <2>8, <2>9, <2>10, <2>11, <2>12, <2>13 DEF ExecInv
  <1>8. CASE /\ wf.nodes \cap Triggers = {}
             /\ obj' = [obj EXCEPT ![e].status = "failed"]
             /\ loop' = [loop EXCEPT ![e] = NoLoop]
    <2> DEFINE x == WithStatus(obj[e], "failed")
    <2>1. edits # 0
      <3>1. ASSUME edits = 0 PROVE Triggers # {} /\ wf.nodes = Nodes
        BY <3>1, <1>2, <1>4 DEF WfInv, Original, Execs
      <3> QED BY <3>1, <1>8, GraphAssumption
    <2>2. NoLoop \in Loop /\ NoLoop.pc = "none"
      BY EmptyTypes DEF NoLoop
    <2>3. /\ x \in Execution /\ x.status = "failed" /\ x.steps = obj[e].steps
          /\ x.resumes = obj[e].resumes
      BY StatusSet DEF ExecutionStatus
    <2>4. obj' = [obj EXCEPT ![e] = x]
      BY <1>8 DEF WithStatus
    <2> HIDE DEF x
    <2>5. obj'[e] = x /\ loop'[e] = NoLoop /\ (ExecInv(e)' => Preserves(e))
      BY <1>6, <1>8, <2>2, <2>3, <2>4, StepOf
    <2>6. Completed(obj[e])' = Completed(obj[e])
      BY <2>3, <2>5 DEF Completed
    <2>7. Fresh(e)'
      BY <1>3, <1>4 DEF Fresh
    <2>8. Shape(e)'
      BY <1>2, <1>3, <2>2, <2>5 DEF Shape
    <2>9. Phase(e)'
      BY <1>2, <1>3, <2>1, <2>2, <2>3, <2>5 DEF Phase, Unfinished
    <2>10. Sync(e)' /\ Pass(e)'
      BY <1>2, <1>3, <1>5, <2>2, <2>3, <2>5, <2>6 DEF Sync, Pass, Held
    <2>11. Cover(e)'
      BY <1>3, <2>1, <2>5, CoverOf
    <2> QED BY <2>5, <2>7, <2>8, <2>9, <2>10, <2>11 DEF ExecInv
  <1> QED BY <1>7, <1>8 DEF begin

\* The head of the queue is skipped.
LEMMA SkipStep ==
    ASSUME IInv, NEW e \in Execs, skip(e)
    PROVE  Preserves(e)
  <1>0. Known(e)
    BY Parts
  <1>1. TypeOK /\ obj[e] \in Execution /\ loop[e] \in Loop
    BY <1>0 DEF Known
  <1>2. loop[e].pc = "run" /\ alive /\ loop[e].queue # <<>>
    BY DEF skip, Turn, More
  <1>3. UNCHANGED <<alive, wf, file, obj, inMem, row, created, owed, starts, crashes, edits, deletes, faults>>
    BY DEF skip, history, bounds
  <1>4. PICK l \in Loop : /\ loop' = [loop EXCEPT ![e] = l]
                          /\ l.pc = "run" /\ loop[e].visited \subseteq l.visited
                          /\ edits = 0 => /\ l.visited = loop[e].visited /\ l.count = loop[e].count
                                          /\ Head(loop[e].queue) \in loop[e].visited
                                          /\ l.queue = Tail(loop[e].queue)
    <2> DEFINE n == Head(loop[e].queue)
               q == Tail(loop[e].queue)
               u == [loop[e] EXCEPT !.queue = Tail(@)]
    <2>1. n \in Nodes /\ q \in Seq(Nodes)
      BY <1>0, <1>2 DEF Known
    <2>2. /\ u \in Loop /\ u.pc = "run" /\ u.visited = loop[e].visited
          /\ u.queue = q /\ u.count = loop[e].count
      BY <1>1, <1>2, <2>1 DEF Loop
    <2>3. \/ loop' = [loop EXCEPT ![e] = u] /\ n \in loop[e].visited
          \/ loop' = [loop EXCEPT ![e] = Dropping(loop[e], n, q)] /\ n \notin wf.nodes
      BY DEF skip, Dropping
    <2> HIDE DEF n, q, u
    <2>4. /\ Dropping(loop[e], n, q) \in Loop /\ Dropping(loop[e], n, q).pc = "run"
          /\ Dropping(loop[e], n, q).visited = loop[e].visited \cup {n}
      <3>1. loop[e] \in Loop /\ loop[e].pc = "run"
        BY <1>1, <1>2
      <3> QED BY <2>1, <3>1, LoopTakes
    <2>5. CASE loop' = [loop EXCEPT ![e] = u] /\ n \in loop[e].visited
      BY <2>2, <2>5 DEF n, q
    <2>6. CASE loop' = [loop EXCEPT ![e] = Dropping(loop[e], n, q)] /\ n \notin wf.nodes
      <3>1. edits # 0
        BY <1>0, <2>1, <2>6 DEF Known, WfInv, Original
      <3> QED BY <2>4, <2>6, <3>1
    <2> QED BY <2>3, <2>5, <2>6
  <1>5. obj' = [obj EXCEPT ![e] = obj[e]]
    BY <1>1, <1>3 DEF TypeOK
  <1>6. Touches(e, obj[e], l)
    BY <1>1, <1>3, <1>4, <1>5, Unchanging DEF Touches
  <1>7. obj'[e] = obj[e] /\ loop'[e] = l /\ (ExecInv(e)' => Preserves(e))
    BY <1>1, <1>4, <1>6, StepOf
  <1>8. Completed(obj[e])' = Completed(obj[e]) /\ Completed(row[e])' = Completed(row[e])
    BY <1>3 DEF Completed
  <1>9. Fresh(e)' /\ Shape(e)'
    BY <1>0, <1>2, <1>3, <1>4, <1>7, <1>8 DEF Known, Fresh, Shape, NoLoop
  <1>10. Phase(e)'
    BY <1>0, <1>2, <1>3, <1>4, <1>7 DEF Known, Phase
  <1>11. Sync(e)' /\ Pass(e)'
    BY <1>0, <1>2, <1>3, <1>4, <1>7, <1>8 DEF Known, Sync, Pass, Held
  <1>12. Cover(e)'
    <2> DEFINE done == Completed(obj[e])
    <2>1. ASSUME SettledWorkflow, edits' = 0 PROVE Covering(e, obj[e], row[e], l, owed[e])
      <3>1. /\ Walks(done, loop[e]) /\ edits = 0
        BY <1>0, <1>2, <1>3, <2>1 DEF Known, Cover
      <3>2. Elems(loop[e].queue) = {Head(loop[e].queue)} \cup Elems(l.queue)
        BY <1>0, <1>2, <1>4, <3>1, ElemsOf DEF Known
      <3>3. Walks(done, l)
        BY <1>2, <1>4, <3>1, <3>2 DEF Walks, Ahead, Awaited
      <3> QED BY <1>0, <1>2, <1>3, <1>4, <2>1, <3>1, <3>3 DEF Known, Cover, Covering
    <2> QED BY <1>3, <1>7, <2>1, CoverOf
  <1> QED BY <1>7, <1>9, <1>10, <1>11, <1>12 DEF ExecInv

\* The head of the queue is started: it was not completed, so the completed nodes
\* stay the same, and it was not started by this walk.
LEMMA VisitStep ==
    ASSUME IInv, NEW e \in Execs, visit(e)
    PROVE  Preserves(e)
  <1> DEFINE n == Head(loop[e].queue)
             q == Tail(loop[e].queue)
             x == WithStep(obj[e], n, "running")
             l == Starting(loop[e], n, q)
  <1>0. Known(e)
    BY Parts
  <1>1. TypeOK /\ obj[e] \in Execution /\ loop[e] \in Loop
    BY <1>0 DEF Known
  <1>2. loop[e].pc = "run" /\ alive /\ loop[e].queue # <<>>
    BY DEF visit, Turn, More
  <1>3. /\ UNCHANGED <<alive, wf, file, inMem, row, created, crashes, edits, deletes, faults>>
        /\ owed' = [owed EXCEPT ![e] = @ \cup {n}]
        /\ starts' = [starts EXCEPT ![e][n] = @ + 1]
    BY DEF visit, bounds
  <1>4. obj' = [obj EXCEPT ![e] = x] /\ loop' = [loop EXCEPT ![e] = l]
    BY DEF visit, WithStep, Starting
  <1>head. n \in Nodes /\ n \notin loop[e].visited /\ q \in Seq(Nodes)
    BY <1>0, <1>2 DEF visit, Known
  <1> HIDE DEF n, q
  <1>5. l \in Loop /\ l.pc = "await" /\ l.node = n /\ l.visited = loop[e].visited \cup {n}
    BY <1>1, <1>head, LoopTakes
  <1>6. /\ x \in Execution /\ x.status = obj[e].status /\ x.resumes = obj[e].resumes
        /\ x.steps[n] = "running" /\ Completed(x) = Completed(obj[e]) \ {n}
    <2>1. "running" \in StepStatus /\ "running" # "success" /\ obj[e] \in Execution /\ n \in Nodes
      BY <1>1, <1>head DEF StepStatus
    <2> QED BY <2>1, StepSet
  <1>7. Completed(x) = Completed(obj[e])
    BY <1>0, <1>2, <1>3, <1>head, <1>6 DEF Known, Shape
  <1> HIDE DEF x, l
  <1>8. owed' \in [Execs -> SUBSET Nodes] /\ \A d \in Execs : d # e => owed'[d] = owed[d]
    BY <1>1, <1>3, <1>head DEF TypeOK
  <1>9. /\ starts' \in [Execs -> [Nodes -> Nat]] /\ \A d \in Execs : d # e => starts'[d] = starts[d]
        /\ starts'[e][n] = starts[e][n] + 1
        /\ \A m \in Nodes : m # n => starts'[e][m] = starts[e][m]
    BY <1>1, <1>3, <1>head DEF TypeOK
  <1>10. Touches(e, x, l)
    BY <1>1, <1>3, <1>head, <1>4, <1>8, <1>9, Unchanging DEF Touches
  <1>11. obj'[e] = x /\ loop'[e] = l /\ (ExecInv(e)' => Preserves(e))
    BY <1>5, <1>6, <1>10, StepOf
  <1>12. Completed(obj[e])' = Completed(obj[e]) /\ Completed(row[e])' = Completed(row[e])
    BY <1>3, <1>head, <1>7, <1>11 DEF Completed
  <1>13. Fresh(e)'
    BY <1>0, <1>2, <1>3, <1>head DEF Known, Fresh, NoLoop
  <1>14. Shape(e)'
    BY <1>0, <1>2, <1>3, <1>head, <1>5, <1>6, <1>11, <1>12 DEF Known, Shape
  <1>15. Phase(e)'
    BY <1>0, <1>2, <1>3, <1>head, <1>5, <1>6, <1>11 DEF Known, Phase
  <1>16. Sync(e)'
    BY <1>0, <1>2, <1>3, <1>head, <1>5, <1>6, <1>11, <1>12 DEF Known, Sync, Held
  <1>17. Pass(e)'
    BY <1>0, <1>2, <1>3, <1>head, <1>5, <1>9, <1>11 DEF Known, Pass
  <1>18. Cover(e)'
    <2> DEFINE done == Completed(obj[e])
    <2>1. l.queue = q /\ l.count = loop[e].count + 1 /\ owed'[e] = owed[e] \cup {n}
      BY <1>1, <1>3, <1>head, LoopTakes DEF l, TypeOK
    <2>2. ASSUME SettledWorkflow, edits' = 0 PROVE Covering(e, x, row[e], l, owed'[e])
      <3>1. Walks(done, loop[e]) /\ edits = 0
        BY <1>0, <1>2, <1>3, <2>2 DEF Known, Cover
      <3>2. Elems(loop[e].queue) = {n} \cup Elems(q)
        BY <1>0, <1>2, ElemsOf DEF Known, n, q
      <3>3. loop[e].visited = done /\ Ahead(loop[e]) = {n} \cup Elems(q)
        BY <1>2, <3>1, <3>2 DEF Walks, Ahead, Awaited
      <3>4. Awaited(l) = {n} /\ Ahead(l) = {n} \cup Elems(q)
        BY <1>5, <2>1 DEF Ahead, Awaited
      <3>5. l.count <= Cardinality(l.visited)
        <4>1. IsFiniteSet(loop[e].visited)
          BY <1>0, GraphAssumption, FS_Subset DEF Known
        <4>2. Cardinality(loop[e].visited \cup {n}) = Cardinality(loop[e].visited) + 1
          BY <1>head, <4>1, FS_AddElement
        <4>3. loop[e].count <= Cardinality(loop[e].visited) /\ Cardinality(loop[e].visited) \in Nat
          BY <3>1, <4>1, FS_CardinalityType DEF Walks
        <4> QED BY <1>0, <1>5, <2>1, <4>2, <4>3 DEF Known
      <3>6. Due(done) \subseteq done \cup Ahead(l) /\ Ahead(l) \subseteq Due(done)
        BY <3>1, <3>3, <3>4 DEF Walks
      <3>7. Walks(done, l)
        BY <1>5, <3>3, <3>4, <3>5, <3>6 DEF Walks
      <3>8. /\ n \in Due(done) \ done
            /\ faults = 0 => Owes(owed[e], done)
            /\ faults = 0 /\ row[e].status # "absent" => Completed(row[e]) = done
        BY <1>0, <1>2, <1>head, <2>2, <3>1, <3>3, <3>4, <3>6 DEF Known, Cover, Sync, Held
      <3>9. Rooted(done) /\ Rooted(Completed(row[e])) /\ row[e].status # "success"
        BY <1>0, <1>2, <2>2, <3>1 DEF Known, Cover, Phase
      <3>10. faults = 0 => Owes(owed'[e], done)
        BY <2>1, <3>8 DEF Owes
      <3> QED BY <1>3, <1>7, <3>7, <3>8, <3>9, <3>10 DEF Covering
    <2> QED BY <1>3, <1>11, <2>2, CoverOf
  <1> QED BY <1>11, <1>13, <1>14, <1>15, <1>16, <1>17, <1>18 DEF ExecInv

\* The awaited node returns: it is completed in the object, and in the row unless
\* the write is lost.
LEMMA SuccessStep ==
    ASSUME IInv, NEW e \in Execs, node_succeeds(e)
    PROVE  Preserves(e)
  <1> DEFINE n == loop[e].node
             x == WithStep(obj[e], n, "success")
  <1>0. Known(e)
    BY Parts
  <1>1. TypeOK /\ obj[e] \in Execution /\ loop[e] \in Loop
    BY <1>0 DEF Known
  <1>2. loop[e].pc = "await" /\ alive
    BY DEF node_succeeds, Turn
  <1>3. UNCHANGED <<alive, wf, file, inMem, created, starts, crashes, edits, deletes>>
    BY DEF node_succeeds
  <1>4. n \in Nodes
    BY <1>0, <1>2 DEF Known, Shape
  <1>5. /\ obj' = [obj EXCEPT ![e] = x] /\ Save(e, x)
        /\ owed' = [owed EXCEPT ![e] = @ \ {n}]
    BY DEF node_succeeds, WithStep
  <1>6. PICK next \in Outgoing(n, Completed(x)) :
           loop' = [loop EXCEPT ![e] = Returning(loop[e], loop[e].queue \o next)]
    BY DEF node_succeeds, WithStep, Returning
  <1> DEFINE l == Returning(loop[e], loop[e].queue \o next)
  <1> HIDE DEF n
  <1>7. /\ x \in Execution /\ x.status = obj[e].status /\ x.resumes = obj[e].resumes
        /\ x.steps[n] = "success" /\ Completed(x) = Completed(obj[e]) \cup {n}
    <2>1. "success" \in StepStatus /\ obj[e] \in Execution /\ n \in Nodes
      BY <1>1, <1>4 DEF StepStatus
    <2> QED BY <2>1, StepSet
  <1> HIDE DEF x
  <1>8. loop[e].queue \o next \in Seq(Nodes)
    <2>1. next \in Seq(Nodes)
      BY <1>1, <1>4, <1>6, OutgoingType
    <2> QED BY <1>0, <2>1 DEF Known
  <1>9. l \in Loop /\ l.pc = "run" /\ l.visited = loop[e].visited
    BY <1>1, <1>8, LoopReturns
  <1> HIDE DEF l
  <1>10. owed' \in [Execs -> SUBSET Nodes] /\ \A d \in Execs : d # e => owed'[d] = owed[d]
    BY <1>1, <1>5 DEF TypeOK
  <1>11. /\ row' \in [Execs -> Execution] /\ faults' \in Nat
         /\ \A d \in Execs : d # e => row'[d] = row[d]
         /\ \/ faults' = faults /\ row'[e] = x
            \/ faults' = faults + 1 /\ row'[e] = row[e]
    BY <1>1, <1>5, <1>7, SaveRow
  <1>12. faults \in Nat /\ faults' >= faults
    BY <1>0, <1>11 DEF Known
  <1>13. Touches(e, x, l)
    BY <1>1, <1>3, <1>5, <1>6, <1>10, <1>11, <1>12, Unchanging DEF Touches, l
  <1>14. obj'[e] = x /\ loop'[e] = l /\ (ExecInv(e)' => Preserves(e))
    BY <1>7, <1>9, <1>13, StepOf
  <1>15. /\ Completed(obj[e])' = Completed(x)
         /\ Completed(row[e])' = IF faults' = faults THEN Completed(x) ELSE Completed(row[e])
    BY <1>11, <1>12, <1>14 DEF Completed
  <1>16. Fresh(e)'
    BY <1>0, <1>2, <1>3 DEF Known, Fresh, NoLoop
  <1>17. Shape(e)'
    BY <1>0, <1>2, <1>3, <1>4, <1>7, <1>9, <1>14, <1>15 DEF Known, Shape, n
  <1>18. Phase(e)'
    BY <1>0, <1>2, <1>3, <1>7, <1>9, <1>11, <1>12, <1>14 DEF Known, Phase, RESUMABLE_STATES
  <1>19. Sync(e)'
    BY <1>0, <1>2, <1>3, <1>7, <1>9, <1>11, <1>12, <1>14, <1>15 DEF Known, Sync, Phase, Held
  <1>20. Pass(e)'
    BY <1>0, <1>2, <1>3, <1>7, <1>9, <1>11, <1>12, <1>14 DEF Known, Pass, Sync, Held
  <1>21. Cover(e)'
    <2> DEFINE done == Completed(obj[e])
    <2>1. /\ l.queue = loop[e].queue \o next /\ l.count = loop[e].count
          /\ owed'[e] = owed[e] \ {n} /\ next \in Seq(Nodes)
          /\ Elems(next) = {wf.edges[i].to : i \in Open(n, Completed(x))}
      <3>1. l.queue = loop[e].queue \o next /\ l.count = loop[e].count
        BY <1>1, <1>8, LoopReturns DEF l
      <3>2. next \in Seq(Nodes) /\ Elems(next) = {wf.edges[i].to : i \in Open(n, Completed(x))}
        BY <1>1, <1>4, <1>6, OutgoingType DEF Elems
      <3> QED BY <1>1, <1>5, <3>1, <3>2 DEF TypeOK
    <2>2. ASSUME SettledWorkflow, edits' = 0 PROVE Covering(e, x, row'[e], l, owed'[e])
      <3>1. /\ Walks(done, loop[e]) /\ edits = 0 /\ wf = Original
            /\ faults = 0 => Owes(owed[e], done)
            /\ Rooted(done) /\ Rooted(Completed(row[e])) /\ row[e].status # "success"
        BY <1>0, <1>2, <1>3, <2>2 DEF Known, Cover, WfInv, Phase
      <3>2. loop[e].visited = done \cup {n} /\ Ahead(loop[e]) = Elems(loop[e].queue) \cup {n}
        BY <1>2, <3>1 DEF Walks, Ahead, Awaited, n
      <3>3. Awaited(l) = {} /\ Ahead(l) = Elems(loop[e].queue) \cup Elems(next)
        <4>1. Elems(l.queue) = Elems(loop[e].queue) \cup Elems(next)
          BY <1>0, <2>1, ElemsOf DEF Known
        <4> QED BY <1>9, <4>1 DEF Ahead, Awaited
      <3>4. done \in SUBSET Nodes
        BY DEF Completed
      <3>5. /\ Due(done) \subseteq Due(Completed(x))
            /\ Due(Completed(x)) = Due(done) \cup Elems(next)
        <4> HIDE DEF done
        <4>1. /\ Due(done) \subseteq Due(done \cup {n})
              /\ Due(done \cup {n}) = Due(done) \cup {wf.edges[i].to : i \in Open(n, done \cup {n})}
          BY <1>4, <2>2, <3>1, <3>4, DueGrows
        <4>2. Completed(x) = done \cup {n}
          BY <1>7 DEF done
        <4> QED BY <2>1, <4>1, <4>2
      <3>6. Walks(Completed(x), l)
        BY <1>7, <1>9, <2>1, <3>1, <3>2, <3>3, <3>5 DEF Walks
      <3>7. Rooted(Completed(x))
        <4>1. CASE done # {}
          BY <1>7, <3>1, <4>1 DEF Rooted
        <4>2. CASE done = {}
          <5>1. n \in Triggers
            BY <3>1, <3>2, <4>2, DueFirst DEF Walks
          <5> QED BY <1>7, <2>2, <5>1 DEF Rooted, SettledWorkflow
        <4> QED BY <4>1, <4>2
      <3>8. faults' = 0 => Owes(owed'[e], Completed(x))
        <4>1. faults' = 0 => faults = 0
          BY <1>11, <1>12
        <4> QED BY <1>7, <2>1, <3>1, <3>5, <4>1 DEF Owes
      <3>9. /\ row'[e] = row[e] \/ row'[e] = x
            /\ faults' = 0 => row'[e] = x
            /\ row'[e].status # "success"
        BY <1>0, <1>2, <1>7, <1>11, <1>12, <3>1 DEF Known, Phase
      <3> QED BY <3>1, <3>6, <3>7, <3>8, <3>9 DEF Covering
    <2> QED BY <1>14, <2>2, CoverOf
  <1> QED BY <1>14, <1>16, <1>17, <1>18, <1>19, <1>20, <1>21 DEF ExecInv

\* The awaited node raises: the completed nodes stay, the coroutine ends.
LEMMA FailStep ==
    ASSUME IInv, NEW e \in Execs, node_fails(e)
    PROVE  Preserves(e)
  <1> DEFINE n == loop[e].node
             y == WithStep(obj[e], n, "failed")
             x == WithStatus(y, "failed")
  <1>0. Known(e)
    BY Parts
  <1>1. TypeOK /\ obj[e] \in Execution
    BY <1>0 DEF Known
  <1>2. loop[e].pc = "await" /\ alive
    BY DEF node_fails, Turn
  <1>3. UNCHANGED <<alive, wf, file, inMem, created, owed, starts, crashes, edits, deletes>>
    BY DEF node_fails, history
  <1>4. n \in Nodes /\ obj[e].steps[n] = "running"
    BY <1>0, <1>2 DEF Known, Shape
  <1>5. [obj[e] EXCEPT !.status = "failed", !.steps[n] = "failed"] = x
    BY <1>1, <1>4 DEF Execution, WithStep, WithStatus
  <1>6. obj' = [obj EXCEPT ![e] = x] /\ Save(e, x) /\ loop' = [loop EXCEPT ![e] = NoLoop]
    BY <1>5 DEF node_fails
  <1> HIDE DEF n
  <1>7. /\ x \in Execution /\ x.status = "failed" /\ x.resumes = obj[e].resumes
        /\ Completed(x) = Completed(obj[e]) \ {n}
    <2>1. "failed" \in StepStatus /\ "failed" # "success" /\ obj[e] \in Execution /\ n \in Nodes
      BY <1>1, <1>4 DEF StepStatus
    <2>2. y \in Execution /\ y.resumes = obj[e].resumes /\ Completed(y) = Completed(obj[e]) \ {n}
      BY <2>1, StepSet
    <2> HIDE DEF y
    <2> QED BY <2>2, StatusSet DEF ExecutionStatus
  <1> HIDE DEF x
  <1>8. Completed(x) = Completed(obj[e])
    BY <1>4, <1>7 DEF Completed
  <1>9. NoLoop \in Loop /\ NoLoop.pc = "none"
    BY EmptyTypes DEF NoLoop
  <1>10. /\ row' \in [Execs -> Execution] /\ faults' \in Nat
         /\ \A d \in Execs : d # e => row'[d] = row[d]
         /\ \/ faults' = faults /\ row'[e] = x
            \/ faults' = faults + 1 /\ row'[e] = row[e]
    BY <1>1, <1>6, <1>7, SaveRow
  <1>11. faults \in Nat /\ faults' >= faults
    BY <1>0, <1>10 DEF Known
  <1>12. Touches(e, x, NoLoop)
    BY <1>1, <1>3, <1>6, <1>10, <1>11, Unchanging DEF Touches
  <1>13. obj'[e] = x /\ loop'[e] = NoLoop /\ (ExecInv(e)' => Preserves(e))
    BY <1>7, <1>9, <1>12, StepOf
  <1>14. /\ Completed(obj[e])' = Completed(x)
         /\ Completed(row[e])' = IF faults' = faults THEN Completed(x) ELSE Completed(row[e])
    BY <1>10, <1>11, <1>13 DEF Completed
  <1>15. Fresh(e)'
    BY <1>0, <1>2, <1>3 DEF Known, Fresh, NoLoop
  <1>16. Shape(e)'
    BY <1>0, <1>2, <1>3, <1>9, <1>13 DEF Known, Shape
  <1>17. Phase(e)'
    BY <1>0, <1>2, <1>3, <1>7, <1>9, <1>10, <1>11, <1>13 DEF Known, Phase, Unfinished
  <1>18. Sync(e)'
    BY <1>0, <1>2, <1>3, <1>7, <1>8, <1>10, <1>11, <1>13, <1>14 DEF Known, Sync, Held
  <1>19. Pass(e)'
    BY <1>0, <1>2, <1>3, <1>7, <1>9, <1>10, <1>11, <1>13 DEF Known, Pass, Sync, Held
  <1>20. Cover(e)'
    <2>1. ASSUME SettledWorkflow, edits' = 0 PROVE Covering(e, x, row'[e], NoLoop, owed[e])
      <3>1. /\ faults = 0 => Owes(owed[e], Completed(x))
            /\ Rooted(Completed(x)) /\ Rooted(Completed(row[e])) /\ row[e].status # "success"
        BY <1>0, <1>2, <1>3, <1>8, <2>1 DEF Known, Cover, Phase
      <3>2. /\ row'[e] = row[e] \/ row'[e] = x
            /\ faults' = 0 => faults = 0 /\ row'[e] = x
            /\ row'[e].status # "success"
        BY <1>7, <1>10, <1>11, <3>1
      <3> QED BY <1>9, <3>1, <3>2 DEF Covering
    <2> QED BY <1>3, <1>13, <2>1, CoverOf
  <1> QED BY <1>13, <1>15, <1>16, <1>17, <1>18, <1>19, <1>20 DEF ExecInv

\* The walk is over: a success, and the dictionary is trimmed.
LEMMA FinishStep ==
    ASSUME IInv, NEW e \in Execs, finish(e)
    PROVE  Preserves(e)
  <1> DEFINE x == WithStatus(obj[e], "success")
  <1>0. Known(e)
    BY Parts
  <1>1. TypeOK /\ obj[e] \in Execution
    BY <1>0 DEF Known
  <1>2. loop[e].pc = "run" /\ alive
    BY DEF finish, Turn
  <1>3. UNCHANGED <<alive, wf, file, created, owed, starts, crashes, edits, deletes>>
    BY DEF finish, history
  <1>4. inMem' \in SUBSET Execs /\ inMem' \subseteq inMem
    BY <1>1 DEF finish, Newest, TypeOK
  <1>5. [obj[e] EXCEPT !.status = IF @ = "failed" THEN @ ELSE "success"] = x
    BY <1>0, <1>2 DEF Known, Phase, WithStatus
  <1>6. obj' = [obj EXCEPT ![e] = x] /\ Save(e, x) /\ loop' = [loop EXCEPT ![e] = NoLoop]
    BY <1>5 DEF finish
  <1>7. /\ x \in Execution /\ x.status = "success" /\ x.resumes = obj[e].resumes
        /\ Completed(x) = Completed(obj[e])
    BY <1>1, StatusSet DEF ExecutionStatus
  <1> HIDE DEF x
  <1>8. NoLoop \in Loop /\ NoLoop.pc = "none"
    BY EmptyTypes DEF NoLoop
  <1>9. /\ row' \in [Execs -> Execution] /\ faults' \in Nat
        /\ \A d \in Execs : d # e => row'[d] = row[d]
        /\ \/ faults' = faults /\ row'[e] = x
           \/ faults' = faults + 1 /\ row'[e] = row[e]
    BY <1>1, <1>6, <1>7, SaveRow
  <1>10. faults \in Nat /\ faults' >= faults
    BY <1>0, <1>9 DEF Known
  <1>11. Touches(e, x, NoLoop)
    BY <1>1, <1>3, <1>4, <1>6, <1>9, <1>10, Unchanging DEF Touches
  <1>12. obj'[e] = x /\ loop'[e] = NoLoop /\ (ExecInv(e)' => Preserves(e))
    BY <1>7, <1>8, <1>11, StepOf
  <1>13. /\ Completed(obj[e])' = Completed(x)
         /\ Completed(row[e])' = IF faults' = faults THEN Completed(x) ELSE Completed(row[e])
    BY <1>9, <1>10, <1>12 DEF Completed
  <1>14. Fresh(e)'
    BY <1>0, <1>2, <1>3 DEF Known, Fresh, NoLoop
  <1>15. Shape(e)'
    BY <1>0, <1>2, <1>3, <1>8, <1>12 DEF Known, Shape
  <1>16. Phase(e)'
    BY <1>0, <1>2, <1>3, <1>7, <1>8, <1>9, <1>10, <1>12 DEF Known, Phase, Unfinished
  <1>17. Sync(e)'
    BY <1>0, <1>2, <1>3, <1>7, <1>8, <1>9, <1>10, <1>12, <1>13 DEF Known, Sync, Held
  <1>18. Pass(e)'
    BY <1>0, <1>2, <1>3, <1>7, <1>8, <1>9, <1>10, <1>12 DEF Known, Pass, Sync, Held
  <1>19. Cover(e)'
    <2> DEFINE done == Completed(obj[e])
    <2>1. ASSUME SettledWorkflow, edits' = 0 PROVE Covering(e, x, row'[e], NoLoop, owed[e])
      <3>1. /\ Walks(done, loop[e])
            /\ faults = 0 => Owes(owed[e], done)
            /\ Rooted(done) /\ Rooted(Completed(row[e])) /\ row[e].status # "success"
        BY <1>0, <1>2, <1>3, <2>1 DEF Known, Cover, Phase
      <3>2. loop[e].visited = done /\ Ahead(loop[e]) = Elems(loop[e].queue)
        BY <1>2, <3>1 DEF Walks, Ahead, Awaited
      <3>3. Due(done) \subseteq done
        <4>1. CASE loop[e].queue = <<>>
          <5>1. Elems(loop[e].queue) = {}
            BY <4>1, <1>0, ElemsOf DEF Known
          <5> QED BY <3>1, <3>2, <5>1 DEF Walks
        <4>2. CASE loop[e].queue # <<>>
          <5>1. done \in SUBSET Nodes /\ IsFiniteSet(Nodes) /\ MaxSteps \in Nat
            BY GraphAssumption DEF Completed
          <5>2. ~(loop[e].count < MaxSteps) /\ loop[e].count \in Nat
            BY <1>0, <4>2 DEF finish, More, Known
          <5>3. loop[e].count <= Cardinality(done) /\ Cardinality(Nodes) <= MaxSteps
            BY <2>1, <3>1, <3>2 DEF Walks, SettledWorkflow
          <5>4. Cardinality(done) \in Nat /\ Cardinality(Nodes) \in Nat
            BY <5>1, FS_Subset, FS_CardinalityType
          <5>5. Cardinality(Nodes) <= Cardinality(done)
            BY <5>1, <5>2, <5>3, <5>4
          <5>6. done = Nodes
            <6>1. /\ Cardinality(done) <= Cardinality(Nodes)
                  /\ Cardinality(Nodes) = Cardinality(done) => Nodes = done
              BY <5>1, FS_Subset
            <6> QED BY <5>4, <5>5, <6>1
          <5> QED BY <5>6, GraphAssumption DEF Due, Targets
        <4> QED BY <4>1, <4>2
      <3>4. faults = 0 => owed[e] = {}
        BY <3>1, <3>3 DEF Owes
      <3>5. /\ row'[e] = row[e] \/ row'[e] = x
            /\ faults' = 0 => faults = 0 /\ row'[e] = x
        BY <1>9, <1>10
      <3> QED BY <1>7, <1>8, <3>1, <3>3, <3>4, <3>5 DEF Covering
    <2> QED BY <1>3, <1>12, <2>1, CoverOf
  <1> QED BY <1>12, <1>14, <1>15, <1>16, <1>17, <1>18, <1>19 DEF ExecInv

-----------------------------------------------------------------------------
(* What a resume makes of an execution.                                    *)

\* The object of the resumed execution: the steps that are no success are dropped.
Replayed(x) ==
    [Resumed(x) EXCEPT !.steps =
        [n \in Nodes |-> IF n \in Completed(Resumed(x)) THEN "success" ELSE "none"]]

LEMMA ResumedType ==
    ASSUME NEW x \in Execution
    PROVE  /\ Resumed(x) \in Execution /\ Replayed(x) \in Execution
           /\ Resumed(x).status = "running" /\ Replayed(x).status = "running"
           /\ Resumed(x).resumes = x.resumes + 1 /\ Replayed(x).resumes = x.resumes + 1
           /\ Completed(Resumed(x)) = Completed(x) /\ Completed(Replayed(x)) = Completed(x)
  <1>1. x.steps \in [Nodes -> StepStatus] /\ x.resumes \in Nat
    BY DEF Execution
  <1>2. Resumed(x) = [status |-> "running", steps |-> x.steps, resumes |-> x.resumes + 1]
    <2> DEFINE y == Resumed(x)
    <2>1. y = [x EXCEPT !.status = "running", !.resumes = @ + 1]
      BY DEF Resumed
    <2> HIDE DEF y
    <2>2. y = [status |-> "running", steps |-> x.steps, resumes |-> x.resumes + 1]
      BY <2>1 DEF Execution
    <2> QED BY <2>2 DEF y
  <1>3. /\ Resumed(x) \in Execution /\ Resumed(x).status = "running"
        /\ Resumed(x).resumes = x.resumes + 1 /\ Completed(Resumed(x)) = Completed(x)
    BY <1>1, <1>2 DEF Execution, ExecutionStatus, Completed
  <1> DEFINE s == [n \in Nodes |-> IF n \in Completed(x) THEN "success" ELSE "none"]
  <1>4. s \in [Nodes -> StepStatus] /\ {n \in Nodes : s[n] = "success"} = Completed(x)
    BY DEF StepStatus, Completed
  <1>5. Replayed(x) = [status |-> "running", steps |-> s, resumes |-> x.resumes + 1]
    BY <1>2, <1>3 DEF Replayed
  <1> HIDE DEF s
  <1>6. /\ Replayed(x) \in Execution /\ Replayed(x).status = "running"
        /\ Replayed(x).resumes = x.resumes + 1 /\ Replayed(x).steps = s
    BY <1>1, <1>4, <1>5 DEF Execution, ExecutionStatus
  <1>7. Completed(Replayed(x)) = Completed(x)
    BY <1>4, <1>6 DEF Completed
  <1> QED BY <1>3, <1>6, <1>7

\* The frontier of a resumed walk.
Frontier(done) ==
    {t \in Nodes \ done : \E n \in done : \E i \in Open(n, done) : wf.edges[i].to = t}

\* A resumed walk starts at the frontier, or at the triggers.
LEMMA ResumeWalkType ==
    ASSUME TypeOK, NEW done \in SUBSET Nodes, NEW w \in resume_walk(done)
    PROVE  \E q \in Seq(Nodes) :
              /\ w = Walk(q, done)
              /\ {q[i] : i \in 1..Len(q)} =
                    IF Frontier(done) # {} THEN Frontier(done) ELSE wf.nodes \cap Triggers
  <1> DEFINE S == IF Frontier(done) # {} THEN Frontier(done) ELSE wf.nodes \cap Triggers
  <1>1. PICK q \in Listings(S) : w = Walk(q, done)
    BY DEF resume_walk, Frontier
  <1>2. S \subseteq Nodes
    BY GraphAssumption DEF Frontier
  <1> HIDE DEF S
  <1>3. IsFiniteSet(S)
    BY <1>2, GraphAssumption, FS_Subset
  <1>4. q \in Seq(S) /\ {q[i] : i \in 1..Len(q)} = S
    BY <1>1, <1>3, ListingsType
  <1>5. q \in Seq(Nodes)
    BY <1>2, <1>4
  <1> QED BY <1>1, <1>4, <1>5 DEF S

\* A resumed walk has before it what is due and not done.
LEMMA ResumeWalks ==
    ASSUME TypeOK, wf = Original, NEW done \in SUBSET Nodes, Rooted(done),
           NEW w \in resume_walk(done)
    PROVE  Walks(done, w)
  <1>1. PICK q \in Seq(Nodes) :
           /\ w = Walk(q, done)
           /\ {q[i] : i \in 1..Len(q)} =
                 IF Frontier(done) # {} THEN Frontier(done) ELSE wf.nodes \cap Triggers
    BY ResumeWalkType
  <1>2. w.pc = "run" /\ w.queue = q /\ w.visited = done /\ w.count = 0
    BY <1>1, WalkType
  <1>3. wf.nodes \cap Triggers = Triggers /\ wf.edges = Edges
    BY GraphAssumption DEF Original
  <1>4. Frontier(done) = Targets(done) \ done
    BY <1>3 DEF Frontier, Targets, Open
  <1>5. Awaited(w) = {} /\ Ahead(w) = IF Frontier(done) # {} THEN Frontier(done) ELSE Triggers
    BY <1>1, <1>2, <1>3 DEF Ahead, Awaited, Elems
  <1>6. Frontier(done) # {} => Triggers \subseteq done
    BY DEF Frontier, Rooted
  <1>7. Due(done) \subseteq done \cup Ahead(w) /\ Ahead(w) \subseteq Due(done)
    BY <1>4, <1>5, <1>6 DEF Due
  <1>8. w.count <= Cardinality(w.visited)
    <2>1. IsFiniteSet(done)
      BY GraphAssumption, FS_Subset
    <2> QED BY <1>2, <2>1, FS_CardinalityType
  <1> QED BY <1>2, <1>5, <1>7, <1>8 DEF Walks

-----------------------------------------------------------------------------
(* Requests.                                                               *)

\* A new execution with its first checkpoint, whether its walk is left to a task
\* (l.pc = "ready") or starts at once.
LEMMA CreateStep ==
    ASSUME IInv, NEW e \in Execs, Create(e), NEW x \in Execution, NEW l \in Loop,
           obj' = [obj EXCEPT ![e] = x], loop' = [loop EXCEPT ![e] = l],
           x.resumes = 0, Completed(x) = {}, l.visited = {},
           \/ l.pc = "ready" /\ x.status = "pending"
           \/ l.pc = "run" /\ x.status = "running",
           l.pc = "run" /\ wf = Original => Walks({}, l)
    PROVE  Preserves(e)
  <1>0. Known(e)
    BY Parts
  <1>1. TypeOK
    BY <1>0 DEF Known
  <1>2. /\ alive /\ wf.nodes \cap Triggers # {} /\ e = created + 1 /\ created' = e
        /\ inMem' = inMem \cup {e} /\ Save(e, NewExecution)
        /\ UNCHANGED <<alive, wf, file, owed, starts, crashes, edits, deletes>>
    BY DEF Create, Quiet, validate_dag
  <1>3. created < e
    BY <1>0, <1>2 DEF Known
  <1>4. row[e] = NoExecution /\ starts[e] = [n \in Nodes |-> 0]
    BY <1>0, <1>3 DEF Known, Fresh
  <1>5. /\ row' \in [Execs -> Execution] /\ faults' \in Nat
        /\ \A d \in Execs : d # e => row'[d] = row[d]
        /\ \/ faults' = faults /\ row'[e] = NewExecution
           \/ faults' = faults + 1 /\ row'[e] = row[e]
    BY <1>1, <1>2, SaveRow, EmptyTypes
  <1>6. faults \in Nat /\ faults' >= faults
    BY <1>0, <1>5 DEF Known
  <1>7. inMem' \in SUBSET Execs /\ inMem' \subseteq inMem \cup {e}
    BY <1>1, <1>2 DEF TypeOK
  <1>8. Touches(e, x, l)
    BY <1>1, <1>2, <1>3, <1>5, <1>6, <1>7, Unchanging DEF Touches
  <1>9. obj'[e] = x /\ loop'[e] = l /\ (ExecInv(e)' => Preserves(e))
    BY <1>8, StepOf
  <1>10. /\ row'[e].status \in {"pending", "absent"} /\ row'[e].resumes = 0
         /\ faults' = 0 => row'[e].status = "pending"
    BY <1>4, <1>5, <1>6, EmptyTypes
  <1>11. Completed(obj[e])' = {} /\ Completed(row[e])' = {}
    BY <1>4, <1>5, <1>9, EmptyTypes DEF Completed
  <1>12. \A n \in Nodes : starts'[e][n] = 0
    BY <1>2, <1>4
  <1>13. Fresh(e)'
    BY <1>0, <1>2 DEF Known, Fresh
  <1>14. Shape(e)'
    BY <1>0, <1>2, <1>9, <1>11 DEF Known, Shape
  <1>15. Phase(e)'
    BY <1>0, <1>9, <1>10 DEF Known, Phase, Unfinished, RESUMABLE_STATES
  <1>16. Sync(e)'
    BY <1>0, <1>9, <1>10, <1>11 DEF Known, Sync
  <1>17. Pass(e)'
    BY <1>0, <1>10, <1>12 DEF Known, Pass
  <1>18. Cover(e)'
    <2>1. ASSUME SettledWorkflow, edits' = 0 PROVE Covering(e, x, row'[e], l, {})
      <3>1. Completed(row'[e]) = {} /\ Completed(x) = {}
        BY <1>4, <1>5, EmptyTypes
      <3>2. l.pc \in {"run", "await"} => Walks({}, l)
        BY <1>0, <1>2, <2>1 DEF Known, WfInv
      <3> QED BY <1>10, <3>1, <3>2, DueFirst DEF Covering
    <2>2. owed'[e] = {}
      BY <1>0, <1>2, <1>3 DEF Known, Fresh
    <2> QED BY <1>9, <2>1, <2>2, CoverOf
  <1> QED BY <1>9, <1>13, <1>14, <1>15, <1>16, <1>17, <1>18 DEF ExecInv

LEMMA ExecuteStep ==
    ASSUME IInv, NEW e \in Execs, execute(e)
    PROVE  Preserves(e)
  <1> DEFINE l == [NoLoop EXCEPT !.pc = "ready"]
  <1>1. l \in Loop /\ l.pc = "ready" /\ l.visited = {}
    <2>1. l = [pc |-> "ready", queue |-> <<>>, visited |-> {}, node |-> NoNode, count |-> 0]
      BY DEF NoLoop
    <2> HIDE DEF l
    <2>2. <<>> \in Seq(Nodes)
      OBVIOUS
    <2> QED BY <2>1, <2>2 DEF Loop
  <1>2. Create(e) /\ obj' = [obj EXCEPT ![e] = NewExecution] /\ loop' = [loop EXCEPT ![e] = l]
    BY DEF execute
  <1> QED BY <1>1, <1>2, EmptyTypes, CreateStep

LEMMA ExecuteAsyncStep ==
    ASSUME IInv, NEW e \in Execs, execute_async(e)
    PROVE  Preserves(e)
  <1> DEFINE x == WithStatus(NewExecution, "running")
  <1>1. x \in Execution /\ x.status = "running" /\ x.resumes = 0 /\ Completed(x) = {}
    BY EmptyTypes, StatusSet DEF ExecutionStatus
  <1>2. PICK q \in Listings(wf.nodes \cap Triggers) : loop' = [loop EXCEPT ![e] = Walk(q, {})]
    BY DEF execute_async
  <1>3. q \in Seq(Nodes)
    BY <1>2, TriggerList DEF IInv
  <1>4. Walk(q, {}) \in Loop /\ Walk(q, {}).pc = "run" /\ Walk(q, {}).visited = {}
    BY <1>3, WalkType
  <1>5. Create(e) /\ obj' = [obj EXCEPT ![e] = x]
    BY DEF execute_async, WithStatus
  <1>6. wf = Original => Walks({}, Walk(q, {}))
    BY <1>2, WalkFirst DEF IInv
  <1> HIDE DEF x
  <1> QED BY <1>1, <1>2, <1>4, <1>5, <1>6, CreateStep

\* An execution that is cancelled: its coroutine goes on.
LEMMA CancelStep ==
    ASSUME IInv, NEW e \in Execs, cancel_execution(e)
    PROVE  Preserves(e)
  <1> DEFINE x == WithStatus(obj[e], "cancelled")
  <1>0. Known(e)
    BY Parts
  <1>1. TypeOK /\ obj[e] \in Execution /\ loop[e] \in Loop
    BY <1>0 DEF Known
  <1>2. alive /\ e \in inMem /\ loop[e].pc # "none"
    BY <1>0 DEF cancel_execution, Quiet, Known, Phase
  <1>3. UNCHANGED <<alive, wf, file, inMem, loop, created, owed, starts, crashes, edits, deletes>>
    BY DEF cancel_execution, history
  <1>4. obj' = [obj EXCEPT ![e] = x] /\ Save(e, x)
    BY DEF cancel_execution, WithStatus
  <1>5. /\ x \in Execution /\ x.status = "cancelled" /\ x.resumes = obj[e].resumes
        /\ x.steps = obj[e].steps /\ Completed(x) = Completed(obj[e])
    BY <1>1, StatusSet DEF ExecutionStatus
  <1> HIDE DEF x
  <1>6. /\ row' \in [Execs -> Execution] /\ faults' \in Nat
        /\ \A d \in Execs : d # e => row'[d] = row[d]
        /\ \/ faults' = faults /\ row'[e] = x
           \/ faults' = faults + 1 /\ row'[e] = row[e]
    BY <1>1, <1>4, <1>5, SaveRow
  <1>7. faults \in Nat /\ faults' >= faults
    BY <1>0, <1>6 DEF Known
  <1>8. loop' = [loop EXCEPT ![e] = loop[e]]
    BY <1>1, <1>3 DEF TypeOK
  <1>9. Touches(e, x, loop[e])
    BY <1>1, <1>3, <1>4, <1>6, <1>7, <1>8, Unchanging DEF Touches
  <1>10. obj'[e] = x /\ loop'[e] = loop[e] /\ (ExecInv(e)' => Preserves(e))
    BY <1>1, <1>5, <1>9, StepOf
  <1>11. /\ Completed(obj[e])' = Completed(obj[e])
         /\ Completed(row[e])' = IF faults' = faults THEN Completed(x) ELSE Completed(row[e])
    BY <1>5, <1>6, <1>7, <1>10 DEF Completed
  <1>12. Fresh(e)'
    BY <1>0, <1>2, <1>3 DEF Known, Fresh, NoLoop
  <1>13. Shape(e)'
    BY <1>0, <1>3, <1>5, <1>10, <1>11 DEF Known, Shape
  <1>14. Phase(e)'
    BY <1>0, <1>2, <1>3, <1>5, <1>6, <1>7, <1>10 DEF Known, Phase, Unfinished, RESUMABLE_STATES
  <1>15. Sync(e)'
    BY <1>0, <1>2, <1>3, <1>5, <1>6, <1>7, <1>10, <1>11 DEF Known, Sync, Held
  <1>16. Pass(e)'
    BY <1>0, <1>2, <1>3, <1>5, <1>6, <1>7, <1>10 DEF Known, Pass, Sync, Held
  <1>17. Cover(e)'
    <2>1. ASSUME SettledWorkflow, edits' = 0 PROVE Covering(e, x, row'[e], loop[e], owed[e])
      <3>1. row[e].status # "success"
        BY <1>0, <1>2 DEF Known, Phase
      <3>2. /\ row'[e] = row[e] \/ row'[e] = x
            /\ faults' = 0 => faults = 0 /\ row'[e] = x
        BY <1>6, <1>7
      <3> QED BY <1>0, <1>2, <1>3, <1>5, <2>1, <3>1, <3>2 DEF Known, Cover, Covering
    <2> QED BY <1>3, <1>10, <2>1, CoverOf
  <1> QED BY <1>10, <1>12, <1>13, <1>14, <1>15, <1>16, <1>17 DEF ExecInv

\* The dictionary entry and the row are deleted.
LEMMA DeleteStep ==
    ASSUME IInv, NEW e \in Execs, delete_checkpoint(e)
    PROVE  Preserves(e)
  <1>0. Known(e)
    BY Parts
  <1>1. TypeOK /\ obj[e] \in Execution /\ loop[e] \in Loop
    BY <1>0 DEF Known
  <1>2. /\ alive /\ inMem' = inMem \ {e} /\ row' = [row EXCEPT ![e] = NoExecution]
        /\ deletes' = deletes + 1
        /\ UNCHANGED <<alive, wf, file, obj, loop, created, owed, starts, crashes, edits, faults>>
    BY DEF delete_checkpoint, Quiet, history
  <1>3. /\ row' \in [Execs -> Execution] /\ \A d \in Execs : d # e => row'[d] = row[d]
        /\ row'[e] = NoExecution
    BY <1>1, <1>2, EmptyTypes DEF TypeOK
  <1>4. deletes \in Nat /\ deletes' \in Nat /\ deletes' >= deletes /\ deletes' # 0
    BY <1>0, <1>2 DEF Known
  <1>5. inMem' \in SUBSET Execs /\ inMem' \subseteq inMem /\ e \notin inMem'
    BY <1>1, <1>2 DEF TypeOK
  <1>6. obj' = [obj EXCEPT ![e] = obj[e]] /\ loop' = [loop EXCEPT ![e] = loop[e]]
    BY <1>1, <1>2 DEF TypeOK
  <1>7. Touches(e, obj[e], loop[e])
    BY <1>1, <1>2, <1>3, <1>4, <1>5, <1>6, Unchanging DEF Touches
  <1>8. obj'[e] = obj[e] /\ loop'[e] = loop[e] /\ (ExecInv(e)' => Preserves(e))
    BY <1>1, <1>7, StepOf
  <1>9. Completed(obj[e])' = Completed(obj[e]) /\ Completed(row[e])' = {}
    BY <1>2, <1>3, EmptyTypes DEF Completed
  <1>10. row'[e].status = "absent"
    BY <1>3, EmptyTypes
  <1>11. Fresh(e)'
    BY <1>0, <1>2, <1>3, <1>5 DEF Known, Fresh
  <1>12. Shape(e)'
    BY <1>0, <1>2, <1>9 DEF Known, Shape
  <1>13. Phase(e)'
    BY <1>0, <1>2, <1>10 DEF Known, Phase, Unfinished, RESUMABLE_STATES
  <1>14. Sync(e)' /\ Pass(e)'
    BY <1>0, <1>4, <1>9, <1>10 DEF Known, Sync, Pass
  <1>15. Cover(e)'
    <2>1. ASSUME SettledWorkflow, edits' = 0 PROVE Covering(e, obj[e], NoExecution, loop[e], owed[e])
      BY <1>0, <1>2, <1>5, <2>1, EmptyTypes, DueFirst DEF Known, Cover, Covering
    <2> QED BY <1>2, <1>3, <1>8, <2>1, CoverOf
  <1> QED BY <1>8, <1>11, <1>12, <1>13, <1>14, <1>15 DEF ExecInv

\* A refused resume: the row is written again from the object.
LEMMA RefusedStep ==
    ASSUME IInv, NEW e \in Execs, resume_refused(e)
    PROVE  Preserves(e)
  <1>0. Known(e)
    BY Parts
  <1>1. TypeOK /\ obj[e] \in Execution /\ loop[e] \in Loop
    BY <1>0 DEF Known
  <1>2. /\ alive /\ e \in inMem /\ obj[e].status \in RESUMABLE_STATES /\ Save(e, obj[e])
        /\ UNCHANGED <<alive, wf, file, obj, inMem, loop, created, owed, starts, crashes, edits, deletes>>
    BY DEF resume_refused, Quiet, history, Stored
  <1>3. loop[e].pc = "none"
    BY <1>0, <1>2 DEF Known, Phase, RESUMABLE_STATES
  <1>4. /\ row' \in [Execs -> Execution] /\ faults' \in Nat
        /\ \A d \in Execs : d # e => row'[d] = row[d]
        /\ \/ faults' = faults /\ row'[e] = obj[e]
           \/ faults' = faults + 1 /\ row'[e] = row[e]
    BY <1>1, <1>2, SaveRow
  <1>5. faults \in Nat /\ faults' >= faults
    BY <1>0, <1>4 DEF Known
  <1>6. obj' = [obj EXCEPT ![e] = obj[e]] /\ loop' = [loop EXCEPT ![e] = loop[e]]
    BY <1>1, <1>2 DEF TypeOK
  <1>7. Touches(e, obj[e], loop[e])
    BY <1>1, <1>2, <1>4, <1>5, <1>6, Unchanging DEF Touches
  <1>8. obj'[e] = obj[e] /\ loop'[e] = loop[e] /\ (ExecInv(e)' => Preserves(e))
    BY <1>1, <1>7, StepOf
  <1>9. /\ Completed(obj[e])' = Completed(obj[e])
        /\ Completed(row[e])' = IF faults' = faults THEN Completed(obj[e]) ELSE Completed(row[e])
    BY <1>2, <1>4, <1>5 DEF Completed
  <1>10. Fresh(e)'
    BY <1>0, <1>2 DEF Known, Fresh
  <1>11. Shape(e)'
    BY <1>0, <1>2, <1>3 DEF Known, Shape
  <1>12. Phase(e)'
    BY <1>0, <1>2, <1>3, <1>4, <1>5 DEF Known, Phase, Unfinished, RESUMABLE_STATES
  <1>13. Sync(e)'
    BY <1>0, <1>2, <1>3, <1>4, <1>5, <1>9 DEF Known, Sync, Held, RESUMABLE_STATES
  <1>14. Pass(e)'
    BY <1>0, <1>2, <1>3, <1>4, <1>5 DEF Known, Pass, Sync, Held
  <1>15. Cover(e)'
    <2>1. ASSUME SettledWorkflow, edits' = 0 PROVE Covering(e, obj[e], row'[e], loop[e], owed[e])
      <3>1. /\ \/ row'[e] = row[e]
               \/ row'[e] = obj[e] /\ obj[e].status # "success"
            /\ faults' = 0 => faults = 0 /\ row'[e] = obj[e]
        BY <1>2, <1>4, <1>5 DEF RESUMABLE_STATES
      <3> QED BY <1>0, <1>2, <1>3, <2>1, <3>1 DEF Known, Cover, Covering
    <2> QED BY <1>2, <1>8, <2>1, CoverOf
  <1> QED BY <1>8, <1>10, <1>11, <1>12, <1>13, <1>14, <1>15 DEF ExecInv

\* What get_execution returns is an execution, and when it is resumable the row is
\* no success.
LEMMA StoredType ==
    ASSUME IInv, NEW e \in Execs, Stored(e).status \in RESUMABLE_STATES, loop[e].pc = "none"
    PROVE  /\ Stored(e) \in Execution /\ Stored(e).resumes \in Nat
           /\ e <= created /\ row[e].status # "success"
           /\ Completed(row[e]) \subseteq Completed(Stored(e))
           /\ faults = 0 /\ deletes = 0 => row[e].resumes = Stored(e).resumes
  <1>0. Known(e)
    BY Parts
  <1>1. Stored(e) \in Execution /\ Stored(e).resumes \in Nat
    BY <1>0 DEF Known, Stored
  <1>2. e <= created
    BY <1>0, EmptyTypes DEF Known, Fresh, Stored, RESUMABLE_STATES
  <1>3. CASE e \in inMem
    BY <1>0, <1>1, <1>2, <1>3 DEF Known, Stored, RESUMABLE_STATES, Phase, Sync, Held
  <1>4. CASE e \notin inMem
    BY <1>0, <1>1, <1>2, <1>4 DEF Known, Stored, RESUMABLE_STATES
  <1> QED BY <1>3, <1>4

\* A resumed execution: the row counts the resume before the walk goes on, and the
\* walk knows the completed nodes.
LEMMA ResumeStep ==
    ASSUME IInv, NEW e \in Execs, resume_execution(e)
    PROVE  Preserves(e)
  <1> DEFINE s == Stored(e)
             y == Resumed(s)
             x == Replayed(s)
             done == Completed(y)
  <1>0. Known(e)
    BY Parts
  <1>1. TypeOK /\ faults \in Nat
    BY <1>0 DEF Known
  <1>2. /\ alive /\ loop[e].pc = "none" /\ s.status \in RESUMABLE_STATES
        /\ inMem' = inMem \cup {e}
        /\ UNCHANGED <<alive, wf, file, created, owed, starts, crashes, edits, deletes>>
    BY DEF resume_execution, Quiet, history
  <1>3. Save(e, y) /\ obj' = [obj EXCEPT ![e] = x]
    BY DEF resume_execution, Replayed
  <1>4. PICK w \in resume_walk(done) : loop' = [loop EXCEPT ![e] = w]
    BY DEF resume_execution
  <1>5. /\ s \in Execution /\ s.resumes \in Nat /\ e <= created /\ row[e].status # "success"
        /\ Completed(row[e]) \subseteq Completed(s)
        /\ faults = 0 /\ deletes = 0 => row[e].resumes = s.resumes
    BY <1>2, StoredType
  <1> HIDE DEF s
  <1>6. /\ y \in Execution /\ x \in Execution /\ y.status = "running" /\ x.status = "running"
        /\ y.resumes = s.resumes + 1 /\ x.resumes = s.resumes + 1
        /\ Completed(y) = Completed(s) /\ Completed(x) = Completed(s)
    BY <1>5, ResumedType
  <1> HIDE DEF x, y
  <1>7. w \in Loop /\ w.pc = "run" /\ w.visited = Completed(s)
    <2>1. done = Completed(s) /\ done \in SUBSET Nodes
      BY <1>6 DEF Completed
    <2> HIDE DEF done
    <2>2. PICK q \in Seq(Nodes) : w = Walk(q, done)
      BY <1>1, <1>4, <2>1, ResumeWalkType
    <2> QED BY <2>1, <2>2, WalkType
  <1>8. /\ row' \in [Execs -> Execution] /\ faults' \in Nat
        /\ \A d \in Execs : d # e => row'[d] = row[d]
        /\ \/ faults' = faults /\ row'[e] = y
           \/ faults' = faults + 1 /\ row'[e] = row[e]
    BY <1>1, <1>3, <1>6, SaveRow
  <1>9. faults' >= faults /\ (faults' = 0 => faults = 0 /\ row'[e] = y)
    BY <1>1, <1>8
  <1>10. inMem' \in SUBSET Execs /\ inMem' \subseteq inMem \cup {e}
    BY <1>1, <1>2 DEF TypeOK
  <1>11. Touches(e, x, w)
    BY <1>1, <1>2, <1>3, <1>4, <1>8, <1>9, <1>10, Unchanging DEF Touches
  <1>12. obj'[e] = x /\ loop'[e] = w /\ (ExecInv(e)' => Preserves(e))
    BY <1>6, <1>7, <1>11, StepOf
  <1>13. /\ Completed(obj[e])' = Completed(s)
         /\ Completed(row[e])' \subseteq Completed(s)
         /\ faults' = 0 => Completed(row[e])' = Completed(s)
    <2>1. Completed(obj[e])' = Completed(x) /\ Completed(row[e])' = Completed(row'[e])
      BY <1>12 DEF Completed
    <2> QED BY <1>5, <1>6, <1>8, <1>9, <2>1
  <1>14. Fresh(e)'
    BY <1>0, <1>2, <1>5 DEF Known, Fresh
  <1>15. Shape(e)'
    BY <1>2, <1>7, <1>12, <1>13 DEF Shape
  <1>16. Phase(e)'
    BY <1>5, <1>6, <1>7, <1>8, <1>9, <1>12 DEF Phase, Unfinished, RESUMABLE_STATES
  <1>17. Sync(e)'
    BY <1>6, <1>9, <1>12, <1>13 DEF Sync
  <1>18. Pass(e)'
    <2> SUFFICES ASSUME faults' = 0, deletes' = 0, NEW n \in Nodes
                 PROVE  starts'[e][n] <= row'[e].resumes /\ row'[e].resumes \in Nat
                                                         /\ starts'[e][n] \in Nat
      BY DEF Pass
    <2>1. faults = 0 /\ deletes = 0 /\ starts'[e][n] = starts[e][n]
      BY <1>2, <1>9
    <2>2. starts[e][n] <= 1 + row[e].resumes /\ starts[e][n] \in Nat
      BY <1>0, <2>1 DEF Known, Pass
    <2> QED BY <1>5, <1>6, <1>9, <2>1, <2>2
  <1>19. Cover(e)'
    <2>1. ASSUME SettledWorkflow, edits' = 0 PROVE Covering(e, x, row'[e], w, owed[e])
      <3>1. wf = Original
        BY <1>0, <1>2, <2>1 DEF Known, WfInv
      <3>2. Rooted(Completed(s)) /\ Rooted(Completed(row[e])) /\ (faults = 0 => Owes(owed[e], Completed(s)))
        BY <1>0, <1>2, <2>1 DEF Known, Cover, s, Stored, RESUMABLE_STATES
      <3>3. Walks(Completed(s), w)
        <4>1. w \in resume_walk(Completed(s)) /\ Completed(s) \in SUBSET Nodes
          BY <1>4, <1>6 DEF Completed
        <4> QED BY <1>1, <3>1, <3>2, <4>1, ResumeWalks
      <3>4. /\ row'[e] = row[e] \/ row'[e] = y
            /\ row'[e].status # "success"
        BY <1>5, <1>6, <1>8
      <3> QED BY <1>6, <1>9, <3>2, <3>3, <3>4 DEF Covering
    <2> QED BY <1>2, <1>12, <2>1, CoverOf
  <1> QED BY <1>12, <1>14, <1>15, <1>16, <1>17, <1>18, <1>19 DEF ExecInv

-----------------------------------------------------------------------------
(* Steps about all executions.                                             *)

\* An execution loses its row.
LEMMA PrunedRow ==
    ASSUME IInv, NEW e \in Execs, Onward, TypeOK', deletes' = deletes + 1,
           row'[e] \in {row[e], NoExecution},
           UNCHANGED <<alive, obj, inMem, loop, created, owed, starts, edits, faults>>
    PROVE  ExecInv(e)'
  <1>0. Known(e)
    BY Parts
  <1>1. CASE row'[e] = row[e]
    <2>1. Kept(e)
      BY <1>1 DEF Kept
    <2> QED BY <2>1, Frame DEF IInv
  <1>2. CASE row'[e] = NoExecution
    <2>1. row'[e].status = "absent" /\ row'[e].resumes = 0 /\ deletes' # 0
      BY <1>0, <1>2, EmptyTypes DEF Known
    <2>2. Completed(obj[e])' = Completed(obj[e]) /\ Completed(row[e])' = {}
      BY <1>2, EmptyTypes DEF Completed
    <2>3. Fresh(e)' /\ Shape(e)'
      BY <1>0, <1>2, <2>2 DEF Known, Fresh, Shape
    <2>4. Phase(e)'
      BY <1>0, <2>1 DEF Known, Phase, Unfinished, RESUMABLE_STATES
    <2>5. Sync(e)' /\ Pass(e)'
      BY <2>1, <2>2 DEF Sync, Pass
    <2>6. Cover(e)'
      <3>1. ASSUME SettledWorkflow, edits' = 0
            PROVE  Covering(e, obj[e], NoExecution, loop[e], owed[e])
        BY <1>0, <3>1, EmptyTypes, DueFirst DEF Known, Cover, Covering
      <3> QED BY <1>2, <3>1, CoverOf
    <2> QED BY <2>3, <2>4, <2>5, <2>6 DEF ExecInv
  <1> QED BY <1>1, <1>2

LEMMA PruneStep ==
    ASSUME IInv, NEW keep \in Nat, prune(keep)
    PROVE  IInv'
  <1>1. TypeOK /\ WfInv
    BY DEF IInv
  <1>2. PICK old \in SUBSET Execs :
           row' = [e \in Execs |-> IF e \in old THEN NoExecution ELSE row[e]]
    BY DEF prune
  <1>3. /\ deletes' = deletes + 1
        /\ UNCHANGED <<alive, wf, file, obj, inMem, loop, created, owed, starts, crashes, edits, faults>>
    BY DEF prune, history
  <1>4. row' \in [Execs -> Execution] /\ \A e \in Execs : row'[e] \in {row[e], NoExecution}
    BY <1>1, <1>2, EmptyTypes DEF TypeOK
  <1>5. deletes' \in Nat /\ deletes' >= deletes
    BY <1>1, <1>3 DEF TypeOK
  <1>6. TypeOK' /\ WfInv' /\ Onward
    BY <1>1, <1>3, <1>4, <1>5 DEF TypeOK, WfInv, Onward
  <1>7. \A e \in Execs : ExecInv(e)'
    BY <1>3, <1>4, <1>6, PrunedRow
  <1> QED BY <1>6, <1>7 DEF IInv

\* The types of a workflow.
WorkflowType == [there : {"yes", "no", "lost"}, nodes : SUBSET Nodes, edges : Seq(Edge)]

\* A change of the workflow leaves the executions alone.
LEMMA EditStep ==
    ASSUME IInv, NEW w \in WorkflowType, Edit(w), file' \in {file, wf'}
    PROVE  IInv'
  <1>1. TypeOK
    BY DEF IInv
  <1>2. /\ wf' = w /\ edits' = edits + 1
        /\ UNCHANGED <<alive, obj, inMem, row, loop, created, owed, starts, crashes, deletes, faults>>
    BY DEF Edit, history
  <1>3. edits' \in Nat /\ edits' >= edits /\ edits' # 0
    BY <1>1, <1>2 DEF TypeOK
  <1>4. {wf', file'} \subseteq WorkflowType
    BY <1>1, <1>2 DEF TypeOK, WorkflowType
  <1>5. TypeOK'
    BY <1>1, <1>2, <1>3, <1>4 DEF TypeOK, WorkflowType
  <1>6. WfInv' /\ Onward
    BY <1>1, <1>2, <1>3 DEF WfInv, Onward, TypeOK
  <1>7. \A e \in Execs : Kept(e)
    BY <1>2 DEF Kept
  <1>8. \A e \in Execs : ExecInv(e)'
    BY <1>1, <1>5, <1>6, <1>7, Frame DEF IInv
  <1> QED BY <1>5, <1>6, <1>8 DEF IInv

LEMMA EditingStep ==
    ASSUME IInv, Editing
    PROVE  IInv'
  <1>1. /\ wf \in WorkflowType /\ wf.there \in {"yes", "no", "lost"}
        /\ wf.nodes \in SUBSET Nodes /\ wf.edges \in Seq(Edge)
    BY DEF IInv, TypeOK, WorkflowType
  <1>3. ASSUME NEW n \in wf.nodes, remove_node(n) PROVE IInv'
    <2> DEFINE I == {i \in 1..Len(wf.edges) : n \notin {wf.edges[i].from, wf.edges[i].to}}
    <2>1. PICK kept \in Selected(wf.edges, I) :
             Edit([wf EXCEPT !.nodes = @ \ {n}, !.edges = kept]) /\ file' = wf'
      BY <1>3 DEF remove_node
    <2>2. I \in SUBSET (1..Len(wf.edges))
      OBVIOUS
    <2> HIDE DEF I
    <2>3. kept \in Seq(Edge)
      BY <1>1, <2>1, <2>2, SelectedType
    <2>4. [wf EXCEPT !.nodes = @ \ {n}, !.edges = kept] \in WorkflowType
      BY <1>1, <2>3 DEF WorkflowType
    <2> QED BY <2>1, <2>4, EditStep
  <1>4. ASSUME NEW d \in NewEdges, add_edge(d) PROVE IInv'
    <2>1. Append(wf.edges, d) \in Seq(Edge)
      BY <1>1, GraphAssumption
    <2>2. [wf EXCEPT !.edges = Append(@, d)] \in WorkflowType
      BY <1>1, <2>1 DEF WorkflowType
    <2>3. Edit([wf EXCEPT !.edges = Append(@, d)]) /\ file' = wf'
      BY <1>4 DEF add_edge
    <2> QED BY <2>2, <2>3, EditStep
  <1>5. ASSUME NEW i \in 1..Len(wf.edges), remove_edge(i) PROVE IInv'
    <2> DEFINE q == SubSeq(wf.edges, 1, i - 1) \o SubSeq(wf.edges, i + 1, Len(wf.edges))
    <2>1. q \in Seq(Edge)
      BY <1>1
    <2>2. Edit([wf EXCEPT !.edges = q]) /\ file' = file
      BY <1>5 DEF remove_edge
    <2> HIDE DEF q
    <2>3. [wf EXCEPT !.edges = q] \in WorkflowType
      BY <1>1, <2>1 DEF WorkflowType
    <2> QED BY <2>2, <2>3, EditStep
  <1>6. ASSUME delete_workflow PROVE IInv'
    <2>1. [wf EXCEPT !.there = "no"] \in WorkflowType
      BY <1>1 DEF WorkflowType
    <2>2. Edit([wf EXCEPT !.there = "no"]) /\ file' = wf'
      BY <1>6 DEF delete_workflow
    <2> QED BY <2>1, <2>2, EditStep
  <1> QED BY <1>3, <1>4, <1>5, <1>6 DEF Editing

\* The process dies: nothing is left of the objects and the coroutines.
LEMMA CrashedExec ==
    ASSUME IInv, NEW e \in Execs, alive' = FALSE, TypeOK',
           obj'[e] = NoExecution, inMem' = {}, loop'[e] = NoLoop,
           edits' >= edits, UNCHANGED <<row, created, owed, starts, deletes, faults>>
    PROVE  ExecInv(e)'
  <1>0. Known(e)
    BY Parts
  <1>1. /\ obj'[e].status = "absent" /\ loop'[e].pc = "none" /\ ~alive'
        /\ Completed(row[e])' = Completed(row[e])
    BY EmptyTypes DEF NoLoop, Completed
  <1>2. Fresh(e)'
    BY <1>0 DEF Known, Fresh
  <1>3. Shape(e)' /\ Phase(e)'
    BY <1>1 DEF Shape, Phase, Unfinished
  <1>4. Sync(e)' /\ Pass(e)'
    BY <1>0, <1>1 DEF Known, Sync, Pass, Held
  <1>5. Cover(e)'
    <2>1. ASSUME SettledWorkflow, edits' = 0
          PROVE  Covering(e, NoExecution, row[e], NoLoop, owed[e])
      <3>1. edits = 0
        BY <1>0, <2>1 DEF Known, TypeOK
      <3> QED BY <1>0, <1>1, <2>1, <3>1, EmptyTypes, DueFirst DEF Known, Cover, Covering
    <2> QED BY <2>1, CoverOf
  <1> QED BY <1>2, <1>3, <1>4, <1>5 DEF ExecInv

LEMMA CrashStep ==
    ASSUME IInv, Crash \/ CrashInSave
    PROVE  IInv'
  <1>1. TypeOK /\ WfInv
    BY DEF IInv
  <1>2. /\ alive' = FALSE /\ inMem' = {}
        /\ obj' = [e \in Execs |-> NoExecution] /\ loop' = [e \in Execs |-> NoLoop]
        /\ UNCHANGED <<wf, row, created, owed, starts, deletes, faults>>
        /\ crashes' = crashes + 1
        /\ \/ edits' = edits /\ file' = file
           \/ edits' = edits + 1 /\ file' = [wf EXCEPT !.there = "lost"]
    BY DEF Crash, CrashInSave, history
  <1>3. crashes' \in Nat /\ edits \in Nat /\ edits' \in Nat /\ edits' >= edits
    BY <1>1, <1>2 DEF TypeOK
  <1>4. /\ obj' \in [Execs -> Execution] /\ loop' \in [Execs -> Loop]
        /\ \A e \in Execs : obj'[e] = NoExecution /\ loop'[e] = NoLoop
    BY <1>2, EmptyTypes
  <1>5. {wf', file'} \subseteq [there : {"yes", "no", "lost"}, nodes : SUBSET Nodes, edges : Seq(Edge)]
    BY <1>1, <1>2 DEF TypeOK
  <1>6. TypeOK'
    BY <1>1, <1>2, <1>3, <1>4, <1>5 DEF TypeOK
  <1>7. WfInv'
    BY <1>1, <1>2, <1>3 DEF WfInv
  <1>8. \A e \in Execs : ExecInv(e)'
    BY <1>2, <1>3, <1>4, <1>6, CrashedExec
  <1> QED BY <1>6, <1>7, <1>8 DEF IInv

\* What recovery makes of a row.
LEMMA RecoveredType ==
    ASSUME NEW x \in Execution
    PROVE  /\ Recovered(x) \in Execution /\ Recovered(x).status \notin Unfinished
           /\ Recovered(x).resumes = x.resumes /\ Completed(Recovered(x)) = Completed(x)
           /\ Recovered(x).status \in {x.status, "waiting"}
           /\ Recovered(x).status = "absent" <=> x.status = "absent"
           /\ Recovered(x).status = "success" <=> x.status = "success"
  <1>1. CASE x.status \in Unfinished
    <2> DEFINE y == [x EXCEPT !.status = "waiting"]
    <2>1. Recovered(x) = y
      BY <1>1 DEF Recovered
    <2>2. y \in Execution /\ y.status = "waiting" /\ y.resumes = x.resumes /\ y.steps = x.steps
      BY DEF Execution, ExecutionStatus
    <2> HIDE DEF y
    <2> QED BY <1>1, <2>1, <2>2 DEF Completed, Unfinished
  <1>2. CASE x.status \notin Unfinished
    BY <1>2 DEF Recovered
  <1> QED BY <1>1, <1>2

\* A new process reads the rows and marks interrupted executions.
LEMMA RestartStep ==
    ASSUME IInv, Restart
    PROVE  IInv'
  <1> DEFINE stored == {e \in Execs : row[e].status # "absent"}
             read == Newest(stored, RecoverLimit)
  <1>1. TypeOK /\ WfInv
    BY DEF IInv
  <1>2. /\ ~alive /\ alive' = TRUE /\ wf' = file /\ inMem' = read
        /\ obj' = [e \in Execs |-> IF e \in read THEN Recovered(row[e]) ELSE NoExecution]
        /\ UNCHANGED <<file, loop, created, owed, starts, crashes, edits, deletes>>
    BY DEF Restart, history
  <1>3. PICK unsaved \in SUBSET {e \in read : Recovered(row[e]) # row[e]} :
           /\ faults' = faults + Cardinality(unsaved)
           /\ row' = [e \in Execs |-> IF e \in read \ unsaved THEN Recovered(row[e]) ELSE row[e]]
    BY DEF Restart
  <1>4. read \subseteq stored /\ stored \subseteq Execs
    BY DEF Newest
  <1>5. created <= RecoverLimit => read = stored
    <2> SUFFICES ASSUME created <= RecoverLimit PROVE read = stored
      OBVIOUS
    <2>1. created \in Nat /\ RecoverLimit \in Nat
      BY <1>1, GraphAssumption DEF TypeOK
    <2>2. stored \in SUBSET (1..created)
      <3> SUFFICES ASSUME NEW e \in Execs, row[e].status # "absent" PROVE e \in 1..created
        OBVIOUS
      <3>1. Known(e)
        BY Parts
      <3>2. ~(e > created)
        BY <3>1, EmptyTypes DEF Known, Fresh
      <3> QED BY <2>1, <3>2 DEF Execs
    <2> HIDE DEF stored
    <2> QED BY <2>1, <2>2, NewestAll
  <1> HIDE DEF read, stored
  <1>6. IsFiniteSet(unsaved) /\ Cardinality(unsaved) \in Nat
    <2>1. IsFiniteSet(Execs)
      BY FS_Interval, GraphAssumption DEF Execs
    <2> QED BY <1>3, <1>4, <2>1, FS_Subset, FS_CardinalityType
  <1>7. faults \in Nat /\ faults' \in Nat /\ (faults' = 0 => faults = 0 /\ unsaved = {})
    BY <1>1, <1>3, <1>6, FS_EmptySet DEF TypeOK
  <1>8. \A e \in Execs : row[e] \in Execution
    BY <1>1 DEF TypeOK
  <1>9. obj' \in [Execs -> Execution] /\ row' \in [Execs -> Execution] /\ inMem' \in SUBSET Execs
    BY <1>2, <1>3, <1>4, <1>8, EmptyTypes, RecoveredType
  <1>10. TypeOK'
    BY <1>1, <1>2, <1>7, <1>9 DEF TypeOK
  <1>11. WfInv'
    BY <1>1, <1>2 DEF WfInv
  <1>12. ASSUME NEW e \in Execs PROVE ExecInv(e)'
    <2>0. Known(e)
      BY Parts
    <2>1. loop'[e] = loop[e] /\ loop[e].pc = "none"
      BY <1>2, <2>0 DEF Known, Shape
    <2>2. CASE e \in read
      <3>1. /\ obj'[e] = Recovered(row[e]) /\ e \in inMem' /\ row[e].status # "absent"
            /\ row'[e] \in {row[e], Recovered(row[e])}
            /\ faults' = 0 => row'[e] = Recovered(row[e])
        BY <1>2, <1>3, <1>4, <1>7, <2>2 DEF stored
      <3>2. /\ Recovered(row[e]).status \notin Unfinished
            /\ Recovered(row[e]).resumes = row[e].resumes
            /\ Completed(Recovered(row[e])) = Completed(row[e])
            /\ Recovered(row[e]).status # "absent"
            /\ Recovered(row[e]).status = "success" <=> row[e].status = "success"
        BY <1>8, <3>1, RecoveredType
      <3>3. row'[e].resumes = row[e].resumes /\ obj'[e].resumes = row[e].resumes
        BY <3>1, <3>2
      <3>4. Completed(row[e])' = Completed(row[e]) /\ Completed(obj[e])' = Completed(row[e])
        <4>1. Completed(row[e])' = Completed(row'[e]) /\ Completed(obj[e])' = Completed(obj'[e])
          BY DEF Completed
        <4> QED BY <3>1, <3>2, <4>1
      <3>5. Fresh(e)'
        BY <1>2, <2>0, <3>1, EmptyTypes DEF Known, Fresh
      <3>6. Shape(e)'
        BY <2>1 DEF Shape
      <3>7. Phase(e)'
        BY <2>1, <3>1, <3>2 DEF Phase
      <3>8. Sync(e)'
        BY <3>1, <3>2, <3>3, <3>4 DEF Sync
      <3>9. Pass(e)'
        BY <1>2, <1>7, <2>0, <2>1, <3>3 DEF Known, Pass
      <3>10. Cover(e)'
        <4>1. ASSUME SettledWorkflow, edits' = 0
              PROVE  Covering(e, obj'[e], row'[e], loop[e], owed[e])
          <5>1. /\ Completed(obj'[e]) = Completed(row[e]) /\ Completed(row'[e]) = Completed(row[e])
                /\ row'[e].status = "success" => row[e].status = "success"
            BY <3>1, <3>2
          <5> QED BY <1>2, <1>7, <2>0, <2>1, <3>1, <4>1, <5>1 DEF Known, Cover, Covering
        <4> QED BY <1>2, <2>1, <4>1, CoverOf
      <3> QED BY <3>5, <3>6, <3>7, <3>8, <3>9, <3>10 DEF ExecInv
    <2>3. CASE e \notin read
      <3>1. obj'[e] = NoExecution /\ e \notin inMem' /\ row'[e] = row[e]
        BY <1>2, <1>3, <2>3
      <3>2. created <= RecoverLimit => row[e].status = "absent"
        BY <1>5, <2>3 DEF stored
      <3>3. Fresh(e)'
        BY <1>2, <2>0, <3>1 DEF Known, Fresh
      <3>4. Shape(e)'
        BY <2>1 DEF Shape
      <3>5. Phase(e)'
        BY <1>2, <2>1, <3>1, <3>2, EmptyTypes DEF Phase, Unfinished
      <3>6. Sync(e)'
        BY <2>1, <3>1 DEF Sync, Held
      <3>7. Pass(e)'
        BY <1>2, <1>7, <2>0, <2>1, <3>1 DEF Known, Pass
      <3>8. Cover(e)'
        <4>1. ASSUME SettledWorkflow, edits' = 0
              PROVE  Covering(e, NoExecution, row[e], loop[e], owed[e])
          BY <1>2, <1>7, <2>0, <2>1, <3>1, <4>1, EmptyTypes, DueFirst DEF Known, Cover, Covering
        <4> QED BY <1>2, <2>1, <3>1, <4>1, CoverOf
      <3> QED BY <3>3, <3>4, <3>5, <3>6, <3>7, <3>8 DEF ExecInv
    <2> QED BY <2>2, <2>3
  <1> QED BY <1>10, <1>11, <1>12 DEF IInv

-----------------------------------------------------------------------------
(* The inductive invariant.                                                *)

\* It holds at first.
LEMMA InitInv == Init => IInv
  <1> SUFFICES ASSUME Init PROVE IInv
    OBVIOUS
  <1> USE DEF Init
  <1>1. wf = Original /\ file = Original
    BY DEF Original
  <1>2. Original \in [there : {"yes", "no", "lost"}, nodes : SUBSET Nodes, edges : Seq(Edge)]
    BY GraphAssumption DEF Original
  <1>3. TypeOK
    BY <1>1, <1>2, EmptyTypes, GraphAssumption DEF TypeOK
  <1>4. WfInv
    BY <1>1 DEF WfInv
  <1>5. ASSUME NEW e \in Execs PROVE ExecInv(e)
    <2>1. /\ obj[e] = NoExecution /\ row[e] = NoExecution /\ loop[e].pc = "none" /\ e \notin inMem
          /\ loop[e] = NoLoop
      BY DEF NoLoop
    <2>2. Fresh(e)
      BY <2>1 DEF Fresh
    <2>3. Shape(e)
      BY <2>1 DEF Shape
    <2>4. Phase(e)
      BY <2>1, EmptyTypes DEF Phase, Unfinished
    <2>5. Sync(e) /\ Pass(e)
      BY <2>1, EmptyTypes DEF Sync, Pass, Held
    <2>6. Cover(e)
      BY <2>1, EmptyTypes, DueFirst DEF Cover
    <2> QED BY <2>2, <2>3, <2>4, <2>5, <2>6 DEF ExecInv
  <1> QED BY <1>3, <1>4, <1>5 DEF IInv

\* Every step keeps it.
LEMMA NextInv == IInv /\ [Next]_vars => IInv'
  <1> SUFFICES ASSUME IInv, [Next]_vars PROVE IInv'
    OBVIOUS
  <1>1. ASSUME NEW e \in Execs, Step(e) PROVE IInv'
    <2>1. Preserves(e)
      BY <1>1, BeginStep, SkipStep, VisitStep, SuccessStep, FailStep, FinishStep DEF Step
    <2> QED BY <2>1, Joined
  <1>2. ASSUME NEW e \in Execs, Request(e) PROVE IInv'
    <2>1. Preserves(e)
      BY <1>2, ExecuteStep, ExecuteAsyncStep, ResumeStep, RefusedStep, CancelStep, DeleteStep DEF Request
    <2> QED BY <2>1, Joined
  <1>3. ASSUME NEW keep \in {0, 1}, prune(keep) PROVE IInv'
    BY <1>3, PruneStep
  <1>4. CASE UNCHANGED vars
    <2>1. UNCHANGED <<alive, wf, file, obj, inMem, row, loop, created, owed, starts,
                      crashes, edits, deletes, faults>>
      BY <1>4 DEF vars, history, bounds
    <2>2. TypeOK' /\ WfInv' /\ Onward /\ \A e \in Execs : Kept(e)
      BY <2>1 DEF IInv, TypeOK, WfInv, Onward, Kept
    <2> QED BY <2>2, Frame DEF IInv
  <1> QED BY <1>1, <1>2, <1>3, <1>4, EditingStep, CrashStep, RestartStep DEF Next

LEMMA Inductive == Spec => []IInv
  BY InitInv, NextInv, PTL DEF Spec

-----------------------------------------------------------------------------
(* Theorems.                                                               *)

\* The variables keep their types, for every workflow.
THEOREM TypeCorrect == Spec => []TypeOK
  BY Inductive, PTL DEF IInv

\* A walk never awaits a node that is a success on disk, whatever the graph leads
\* back to, and however often the process died or writes were lost.
THEOREM NeverReplays == Spec => []NoReplay
  <1>1. IInv => NoReplay
    <2> SUFFICES ASSUME IInv, NEW e \in Execs, loop[e].pc = "await"
                 PROVE  row[e].steps[loop[e].node] # "success"
      BY DEF NoReplay
    <2>1. Known(e)
      BY Parts
    <2>2. loop[e].node \in Nodes /\ obj[e].steps[loop[e].node] = "running"
      BY <2>1 DEF Known, Shape
    <2>3. Completed(row[e]) \subseteq Completed(obj[e])
      BY <2>1 DEF Known, Sync, Held
    <2> QED BY <2>2, <2>3 DEF Completed
  <1> QED BY <1>1, Inductive, PTL

\* While a node is awaited, the row knows every node that the object has completed,
\* unless a write was lost or a row was deleted.
THEOREM CheckpointsCurrent == Spec => []CheckpointCurrent
  <1>1. IInv => CheckpointCurrent
    BY Parts DEF CheckpointCurrent, Known, Sync, Held
  <1> QED BY <1>1, Inductive, PTL

\* No node is started more often than the first run and the counted resumes allow.
THEOREM OnePass == Spec => []OnePassPerResume
  <1>1. IInv => OnePassPerResume
    BY Parts DEF OnePassPerResume, Known, Pass
  <1> QED BY <1>1, Inductive, PTL

\* An execution that resume_execution accepts has no coroutine left.
THEOREM LoopsExclusive == Spec => []LoopExclusive
  <1>1. IInv => LoopExclusive
    <2> SUFFICES ASSUME IInv, NEW e \in Execs, e \in inMem \/ faults = 0,
                        Stored(e).status \in RESUMABLE_STATES
                 PROVE  loop[e].pc = "none"
      BY DEF LoopExclusive
    <2>1. Known(e)
      BY Parts
    <2> QED BY <2>1 DEF Known, Phase, Stored, RESUMABLE_STATES
  <1> QED BY <1>1, Inductive, PTL

\* An execution that is shown as pending or running has a coroutine.
THEOREM NothingStuck == Spec => []NoStuckExecution
  <1>1. IInv => NoStuckExecution
    BY Parts DEF NoStuckExecution, Known, Phase
  <1> QED BY <1>1, Inductive, PTL

\* A success on disk stays one until its row is deleted.
THEOREM SuccessStays == Spec => SuccessIsFinal
  <1> DEFINE Stays == \A e \in Execs : row[e].status = "success" => row'[e].status \in {"success", "absent"}
  <1>1. IInv /\ [Next]_vars => [Stays]_vars
    <2> SUFFICES ASSUME IInv, [Next]_vars, NEW e \in Execs, row[e].status = "success"
                 PROVE  row'[e].status \in {"success", "absent"}
      OBVIOUS
    <2>0. Known(e)
      BY Parts
    <2>1. loop[e].pc = "none" /\ (e \in inMem => obj[e].status = "success")
      BY <2>0 DEF Known, Phase
    <2>2. Stored(e).status = "success"
      BY <2>1 DEF Stored
    <2>3. e <= created
      BY <2>0, EmptyTypes DEF Known, Fresh
    <2>4. ASSUME NEW d \in Execs, Step(d) PROVE row'[e] = row[e]
      <3>1. loop[d].pc # "none" => d # e
        BY <2>1
      <3>2. row' = row \/ \E x : Save(d, x) /\ d # e
        BY <2>4, <3>1 DEF Step, begin, skip, visit, node_succeeds, node_fails, finish
      <3> QED BY <2>0, <3>2 DEF Save, Known, TypeOK
    <2>5. ASSUME NEW d \in Execs, Request(d) PROVE row'[e].status \in {"success", "absent"}
      <3>1. CASE delete_checkpoint(d)
        BY <2>0, <3>1, EmptyTypes DEF delete_checkpoint, Known, TypeOK
      <3>2. CASE execute(d) \/ execute_async(d)
        <4>1. d # e /\ \E x : Save(d, x)
          BY <2>0, <2>3, <3>2 DEF execute, execute_async, Create, Known
        <4> QED BY <2>0, <4>1 DEF Save, Known, TypeOK
      <3>3. CASE resume_execution(d) \/ resume_refused(d) \/ cancel_execution(d)
        <4>1. d # e /\ \E x : Save(d, x)
          BY <2>1, <2>2, <3>3
             DEF resume_execution, resume_refused, cancel_execution, RESUMABLE_STATES, Unfinished
        <4> QED BY <2>0, <4>1 DEF Save, Known, TypeOK
      <3> QED BY <2>5, <3>1, <3>2, <3>3 DEF Request
    <2>6. ASSUME NEW keep \in {0, 1}, prune(keep) PROVE row'[e].status \in {"success", "absent"}
      BY <2>6, EmptyTypes DEF prune
    <2>7. CASE Restart
      <3>1. row'[e] \in {row[e], Recovered(row[e])}
        BY <2>7 DEF Restart
      <3> QED BY <2>0, <3>1, RecoveredType DEF Known
    <2>8. CASE Editing \/ Crash \/ CrashInSave \/ UNCHANGED vars
      BY <2>8 DEF Editing, remove_node, add_edge, remove_edge, delete_workflow, Edit, Crash, CrashInSave, vars
    <2> QED BY <2>4, <2>5, <2>6, <2>7, <2>8 DEF Next
  <1>2. Spec => [][Stays]_vars
    BY <1>1, Inductive, PTL DEF Spec
  <1> QED BY <1>2 DEF SuccessIsFinal

\* In a settled workflow an execution that ends as a success has replayed every step
\* that failed or was interrupted, through any crashes and resumes.
THEOREM EveryFailureReplayed == SettledWorkflow => (Spec => []FailedNodesReplayed)
  <1>1. SettledWorkflow /\ IInv => FailedNodesReplayed
    BY Parts DEF FailedNodesReplayed, Known, Cover
  <1>2. SettledWorkflow => SettledWorkflow'
    BY DEF SettledWorkflow
  <1>3. SettledWorkflow /\ Spec => []SettledWorkflow
    BY <1>2, PTL DEF Spec
  <1> QED BY <1>1, <1>3, Inductive, PTL

\* In a settled workflow a success on disk covers the workflow.
THEOREM SuccessIsComplete == SettledWorkflow => (Spec => []SuccessCoversWorkflow)
  <1>1. SettledWorkflow /\ IInv => SuccessCoversWorkflow
    <2> SUFFICES ASSUME SettledWorkflow, IInv, edits = 0, NEW e \in Execs,
                        row[e].status = "success"
                 PROVE  LET done == Completed(row[e])
                        IN  /\ Triggers \subseteq done
                            /\ \A i \in 1..Len(Edges) :
                                  Edges[i].from \in done /\ done \in Edges[i].open => Edges[i].to \in done
      BY DEF SuccessCoversWorkflow
    <2>1. Due(Completed(row[e])) \subseteq Completed(row[e])
      BY Parts DEF Known, Cover
    <2>2. \A i \in 1..Len(Edges) : Edges[i].to \in Nodes
      <3>1. \A i \in 1..Len(Edges) : Edges[i] \in Edge
        BY GraphAssumption
      <3> QED BY <3>1 DEF Edge
    <2> QED BY <2>1, <2>2 DEF Due, Targets
  <1>2. SettledWorkflow => SettledWorkflow'
    BY DEF SettledWorkflow
  <1>3. SettledWorkflow /\ Spec => []SettledWorkflow
    BY <1>2, PTL DEF Spec
  <1> QED BY <1>1, <1>3, Inductive, PTL
=============================================================================
