-------------------------- MODULE GoalRunnerProofs --------------------------
(***************************************************************************)
(* What GoalRunner guarantees for any number of goals, sessions, events    *)
(* and restarts.  The rules of _evaluate_state look at counters that       *)
(* record_event updates in every state of a goal, also while the goal is   *)
(* paused, so the invariant must say how the counters are related:         *)
(* without success and block the run of failures is all there is.          *)
(***************************************************************************)
EXTENDS GoalRunner, TLAPS

CountOK(c) == c \in Counters /\ (c.success = 0 /\ c.blocked = 0 => c.streak = c.failure)

\* What holds of a single goal, in memory and in the file.
Sound(g) ==
    /\ g \in Goal /\ CountOK(g.count)
    /\ g.state = "active" /\ g.reviewed # "yes" =>
          g.count.blocked = 0 /\ g.count.streak < FailStop
    /\ g.state = "completed" => g.count.success > 0
    /\ g.why # "no progress"

\* The inductive invariant.  The file must be sound too, for the restart.
IInv ==
    /\ goals \in [Goals -> Goal] /\ file \in [Goals -> Goal]
    /\ crashes \in Nat /\ faults \in Nat
    /\ \A i \in Goals : Sound(goals[i]) /\ Sound(file[i])

-----------------------------------------------------------------------------
(* The functions on one goal.                                              *)

\* A goal that does not exist is sound, and so is a new one (create_goal).
LEMMA NewGoals ==
    /\ Sound(NoGoal)
    /\ \A s \in Sessions, max \in Loops :
          Sound([state |-> "active", why |-> "none", reviewed |-> "no", session |-> s,
                 count |-> NoCount, loops |-> 0, max |-> max])
<1>1. (CHOOSE x \in Sessions : TRUE) \in Sessions
    BY ConstantAssumption
<1>2. CountOK(NoCount) /\ NoCount.blocked = 0 /\ NoCount.streak = 0
    BY DEF CountOK, NoCount, Counters
<1>3. NoCount \in Counters
    BY DEF NoCount, Counters
<1> HIDE DEF NoCount
<1>4. Sound(NoGoal)
    BY <1>1, <1>2, <1>3 DEF Sound, NoGoal, Goal, GoalState, Reason
<1>5. ASSUME NEW s \in Sessions, NEW max \in Loops
      PROVE  Sound([state |-> "active", why |-> "none", reviewed |-> "no", session |-> s,
                    count |-> NoCount, loops |-> 0, max |-> max])
    BY <1>2, <1>3, ConstantAssumption DEF Sound, Goal, GoalState, Reason
<1> QED
    BY <1>4, <1>5

\* _transition keeps a goal sound when it does not complete it without success.
LEMMA TransitionSound ==
    ASSUME NEW g, Sound(g), NEW st \in GoalState, NEW why \in Reason,
           why # "no progress", st = "completed" => g.count.success > 0
    PROVE  Sound(Transition(g, st, why))
BY DEF Sound, Transition, Goal, GoalState, Reason

\* Every tool event has one of the four outcomes (classify_tool_outcome).
LEMMA Classified ==
    \A tool \in Tools, result \in Results : classify_tool_outcome(tool, result) \in GoalOutcome
BY DEF classify_tool_outcome, GoalOutcome

\* Counting an event keeps the counters related (record_event).
LEMMA CountedOK ==
    ASSUME NEW c, CountOK(c), NEW o \in GoalOutcome
    PROVE  CountOK(Counted(c, o))
BY DEF CountOK, Counted, Counters, GoalOutcome

\* The rules put an active goal back in order whatever its counters have become;
\* the fourth one never applies.
LEMMA EvaluateSound ==
    ASSUME NEW g, Sound(g), NEW c, CountOK(c), c.success >= g.count.success, NEW n \in Nat
    PROVE  Sound(Evaluate(Advanced(g, c, n)))
<1> SUFFICES ASSUME NEW h, h = Advanced(g, c, n)
             PROVE  Sound(Evaluate(h))
    OBVIOUS
<1>1. /\ h \in Goal /\ h.state = g.state /\ h.count = c /\ h.why = g.why
      /\ h.reviewed # "yes"
    BY DEF Sound, Advanced, Goal, GoalState, Reason, CountOK
<1>2. h.state = "completed" => h.count.success > 0
  <2>1. g.count.success \in Nat /\ c.success \in Nat
      BY DEF Sound, CountOK, Counters
  <2>2. g.state = "completed" => g.count.success > 0
      BY DEF Sound
  <2> QED
      BY <1>1, <2>1, <2>2
<1>3. h.why # "no progress"
    BY <1>1 DEF Sound
<1>4. CASE h.state # "active"
    BY <1>1, <1>2, <1>3, <1>4 DEF Evaluate, Sound
<1>5. ASSUME h.state = "active", NEW st \in {"blocked", "paused", "failed"},
             NEW why \in {"blocked event", "fail-stop", "max loops"}
      PROVE  Sound(Transition(h, st, why))
    BY <1>1, <1>3, <1>5 DEF Sound, Transition, Goal, GoalState, Reason
<1>6. CASE h.state = "active"
  <2>1. CASE c.blocked > 0
      BY <1>1, <1>5, <1>6, <2>1 DEF Evaluate
  <2>2. CASE c.blocked = 0 /\ c.streak >= FailStop
      BY <1>1, <1>5, <1>6, <2>2 DEF Evaluate
  <2>3. CASE c.blocked = 0 /\ c.streak < FailStop /\ h.loops >= h.max
    <3>1. ~(c.streak >= FailStop) /\ ~(c.blocked > 0)
        BY <2>3, ConstantAssumption DEF CountOK, Counters
    <3> QED
        BY <1>1, <1>5, <1>6, <2>3, <3>1 DEF Evaluate
  <2>4. CASE c.blocked = 0 /\ c.streak < FailStop /\ ~(h.loops >= h.max)
    <3>1. ~(c.streak >= FailStop) /\ ~(c.blocked > 0)
        BY <2>4, ConstantAssumption DEF CountOK, Counters
    <3>2. ~(Scored(c) >= NoProgress /\ c.success = 0)
        BY <2>4, ConstantAssumption DEF Scored, CountOK, Counters
    <3>3. Evaluate(h) = h
        BY <1>1, <1>6, <2>4, <3>1, <3>2 DEF Evaluate
    <3> QED
        BY <1>1, <1>2, <1>3, <2>4, <3>3 DEF Sound
  <2> QED
      BY <2>1, <2>2, <2>3, <2>4, ConstantAssumption DEF CountOK, Counters
<1> QED
    BY <1>4, <1>6

\* A report keeps a goal sound (goal_report).
LEMMA ReportedSound ==
    ASSUME NEW g, Sound(g), NEW status \in {"complete", "blocked", "other"}
    PROVE  Sound(Reported(g, status))
<1>1. g.count.success \in Nat /\ g.count.failure \in Nat
    BY DEF Sound, CountOK, Counters
<1>2. CASE status = "complete"
  <2>1. CASE g.count.success > 0
    <3>1. Reported(g, status) = Transition(g, "completed", "report")
        BY <1>2, <2>1 DEF Reported
    <3> QED
        BY <2>1, <3>1, TransitionSound DEF GoalState, Reason
  <2>2. CASE ~(g.count.success > 0)
    <3>1. ~(g.count.success > g.count.failure)
        BY <1>1, <2>2
    <3>2. Reported(g, status) = Transition(g, "paused", "report")
        BY <1>2, <2>2, <3>1 DEF Reported
    <3> QED
        BY <3>2, TransitionSound DEF GoalState, Reason
  <2> QED
      BY <2>1, <2>2
<1>3. CASE status = "blocked"
  <2>1. Reported(g, status) = Transition(g, "blocked", "report")
      BY <1>3 DEF Reported
  <2> QED
      BY <2>1, TransitionSound DEF GoalState, Reason
<1>4. CASE status = "other"
    BY <1>4 DEF Reported
<1> QED
    BY <1>2, <1>3, <1>4

-----------------------------------------------------------------------------
(* The steps.                                                              *)

\* A handler that stores a sound goal and saves preserves the invariant.
LEMMA PutIInv ==
    ASSUME IInv, NEW i \in Goals, NEW g, Sound(g), Put(i, g)
    PROVE  IInv'
<1>1. g \in Goal
    BY DEF Sound
<1>2. goals' = [goals EXCEPT ![i] = g] /\ goals' \in [Goals -> Goal]
    BY <1>1 DEF IInv, Put
<1>3. \A k \in Goals : goals'[k] = IF k = i THEN g ELSE goals[k]
    BY <1>2 DEF IInv
<1>4. \A k \in Goals : Sound(goals'[k])
    BY <1>3 DEF IInv
<1>5. CASE file' = goals' /\ faults' = faults
  <2>1. crashes' = crashes
      BY DEF Put
  <2>2. file' \in [Goals -> Goal] /\ crashes' \in Nat /\ faults' \in Nat
      BY <1>2, <1>5, <2>1 DEF IInv
  <2>3. \A k \in Goals : Sound(file'[k])
      BY <1>4, <1>5
  <2> QED
      BY <1>2, <1>4, <2>2, <2>3 DEF IInv, Sound
<1>6. CASE faults' = faults + 1 /\ file' = file
  <2>1. crashes' = crashes
      BY DEF Put
  <2>2. file' \in [Goals -> Goal] /\ crashes' \in Nat /\ faults' \in Nat
      BY <1>6, <2>1 DEF IInv
  <2>3. \A k \in Goals : Sound(file'[k])
      BY <1>6 DEF IInv
  <2> QED
      BY <1>2, <1>4, <2>2, <2>3 DEF IInv, Sound
<1> QED
    BY <1>5, <1>6 DEF Put

\* In the initial state no goal exists.
LEMMA InitIInv == Init => IInv
<1> SUFFICES ASSUME Init PROVE IInv
    OBVIOUS
<1>1. Sound(NoGoal)
    BY NewGoals
<1>2. NoGoal \in Goal
    BY <1>1 DEF Sound
<1>3. goals \in [Goals -> Goal] /\ file \in [Goals -> Goal]
    BY <1>2 DEF Init
<1>4. \A i \in Goals : goals[i] = NoGoal /\ file[i] = NoGoal
    BY DEF Init
<1> QED
    BY <1>1, <1>3, <1>4 DEF Init, IInv

\* Every handler and every restart preserves the invariant.
LEMMA NextIInv == IInv /\ [Next]_vars => IInv'
<1> SUFFICES ASSUME IInv, [Next]_vars PROVE IInv'
    OBVIOUS
<1>1. ASSUME NEW i \in Goals, NEW s \in Sessions, NEW max \in Loops, create_goal(i, s, max)
      PROVE  IInv'
    BY <1>1, NewGoals, PutIInv DEF create_goal
<1>2. ASSUME NEW i \in Goals, delete_goal(i) PROVE IInv'
    BY <1>2, NewGoals, PutIInv DEF delete_goal
<1>3. ASSUME NEW i \in Goals, NEW o \in GoalOutcome, record_event(i, o) PROVE IInv'
  <2>1. Sound(goals[i])
      BY DEF IInv
  <2>2. CountOK(goals[i].count) /\ goals[i].loops \in Nat
      BY <2>1 DEF Sound, Goal
  <2>3. CountOK(Counted(goals[i].count, o))
      BY <2>2, CountedOK
  <2>4. Counted(goals[i].count, o).success >= goals[i].count.success
      BY <2>2 DEF Counted, CountOK, Counters
  <2>5. Sound(Evaluate(Advanced(goals[i], Counted(goals[i].count, o), goals[i].loops)))
      BY <2>1, <2>2, <2>3, <2>4, EvaluateSound
  <2> QED
      BY <1>3, <2>5, PutIInv DEF record_event
<1>4. ASSUME NEW i \in Goals, NEW status \in {"complete", "blocked", "other"},
             goal_report(i, status)
      PROVE  IInv'
  <2>1. Sound(Reported(goals[i], status))
      BY ReportedSound DEF IInv
  <2> QED
      BY <1>4, <2>1, PutIInv DEF goal_report
<1>5. ASSUME NEW i \in Goals, NEW st \in {"paused", "active", "failed"},
             Put(i, Transition(goals[i], st, "user"))
      PROVE  IInv'
  <2>1. Sound(Transition(goals[i], st, "user"))
      BY TransitionSound DEF IInv, GoalState, Reason
  <2> QED
      BY <1>5, <2>1, PutIInv
<1>6. ASSUME NEW i \in Goals, pause_goal(i) \/ resume_goal(i) \/ cancel_goal(i) PROVE IInv'
  <2>1. Put(i, goals[i]) => IInv'
      BY PutIInv DEF IInv
  <2> QED
      BY <1>5, <1>6, <2>1 DEF pause_goal, resume_goal, cancel_goal
<1>7. ASSUME NEW i \in Goals, record_loop(i) PROVE IInv'
  <2>1. Sound(goals[i])
      BY DEF IInv
  <2>2. CountOK(goals[i].count) /\ goals[i].loops + 1 \in Nat
    <3>1. CountOK(goals[i].count) /\ goals[i].loops \in Nat
        BY <2>1 DEF Sound, Goal
    <3> QED
        BY <3>1
  <2>3. goals[i].count.success >= goals[i].count.success
      BY <2>2 DEF CountOK, Counters
  <2>4. Sound(Evaluate(Advanced(goals[i], goals[i].count, goals[i].loops + 1)))
      BY <2>1, <2>2, <2>3, EvaluateSound
  <2> QED
      BY <1>7, <2>4, PutIInv DEF record_loop
<1>8. ASSUME Restart PROVE IInv'
  <2>1. goals' = file /\ file' = file /\ crashes' = crashes + 1 /\ faults' = faults
      BY <1>8 DEF Restart
  <2>2. \A i \in Goals : Sound(goals'[i]) /\ Sound(file'[i])
      BY <2>1 DEF IInv
  <2>3. goals' \in [Goals -> Goal] /\ file' \in [Goals -> Goal]
      BY <2>1 DEF IInv
  <2>4. crashes' \in Nat /\ faults' \in Nat
      BY <2>1 DEF IInv
  <2> QED
      BY <2>2, <2>3, <2>4 DEF IInv, Sound
<1>9. ASSUME CrashInSave PROVE IInv'
  <2>1. Sound(NoGoal)
      BY NewGoals
  <2>2. NoGoal \in Goal
      BY <2>1 DEF Sound
  <2>3. goals' = [i \in Goals |-> NoGoal] /\ file' = [i \in Goals |-> NoGoal]
      BY <1>9 DEF CrashInSave
  <2>4. goals' \in [Goals -> Goal] /\ file' \in [Goals -> Goal]
      BY <2>2, <2>3
  <2>5. \A i \in Goals : goals'[i] = NoGoal /\ file'[i] = NoGoal
      BY <2>3
  <2>6. crashes' \in Nat /\ faults' \in Nat
      BY <1>9 DEF CrashInSave, IInv
  <2> QED
      BY <2>1, <2>4, <2>5, <2>6 DEF IInv, Sound
<1>10. CASE UNCHANGED vars
    BY <1>10 DEF vars, IInv, Sound
<1> QED
    BY <1>1, <1>2, <1>3, <1>4, <1>6, <1>7, <1>8, <1>9, <1>10, Classified DEF Next, Handler

\* The invariant contains the properties.
LEMMA InvIInv == IInv => /\ TypeOK /\ FailureStops
                         /\ NoProgressRuleIsDead /\ CompletedHasEvidence
BY DEF IInv, Sound, TypeOK, FailureStops, NoProgressRuleIsDead, CompletedHasEvidence

-----------------------------------------------------------------------------
(* The theorems.                                                           *)

\* The variables always have their types.
THEOREM TypeCorrect == Spec => []TypeOK
BY InitIInv, NextIInv, InvIInv, PTL DEF Spec

\* An active goal whose user has not just resumed it has no blocked event and
\* fewer than FailStop failures in a row (_evaluate_state).
THEOREM GoalsFailStop == Spec => []FailureStops
BY InitIInv, NextIInv, InvIInv, PTL DEF Spec

\* Rule 4 of _evaluate_state never decides, if FailStop <= NoProgress as in the
\* code (3 and 20).
THEOREM RuleFourIsDead == Spec => []NoProgressRuleIsDead
BY InitIInv, NextIInv, InvIInv, PTL DEF Spec

\* A completed goal has a successful event (goal_report).
THEOREM CompletionNeedsEvidence == Spec => []CompletedHasEvidence
BY InitIInv, NextIInv, InvIInv, PTL DEF Spec

-----------------------------------------------------------------------------
(* The file.                                                               *)

\* A goal that is over is stored only as it is, or to delete it.
Keeps(i, g) == goals[i].state \in Terminal => g = goals[i] \/ g.state = "absent"

\* Every step is a restart or stores one goal of the dictionary, and keeps it if
\* it is over.
LEMMA StepShape ==
    ASSUME Next
    PROVE  \/ Restart \/ CrashInSave
           \/ \E i \in Goals : \E g :
                 Put(i, g) /\ Keeps(i, g)
<1>1. ASSUME NEW i \in Goals, NEW s \in Sessions, NEW max \in Loops, create_goal(i, s, max)
      PROVE  \E g : Put(i, g) /\ Keeps(i, g)
    BY <1>1 DEF create_goal, Keeps, Terminal
<1>2. ASSUME NEW i \in Goals, delete_goal(i)
      PROVE  \E g : Put(i, g) /\ Keeps(i, g)
  <2>1. NoGoal.state = "absent"
      BY DEF NoGoal
  <2> QED
      BY <1>2, <2>1 DEF delete_goal, Keeps
<1>3. ASSUME NEW i \in Goals, NEW o \in GoalOutcome, record_event(i, o)
      PROVE  \E g : Put(i, g) /\ Keeps(i, g)
    BY <1>3 DEF record_event, Keeps, Terminal, Unsettled
<1>4. ASSUME NEW i \in Goals, NEW status \in {"complete", "blocked", "other"},
             goal_report(i, status)
      PROVE  \E g : Put(i, g) /\ Keeps(i, g)
    BY <1>4 DEF goal_report, Keeps, Terminal, Unsettled
<1>5. ASSUME NEW i \in Goals,
             pause_goal(i) \/ resume_goal(i) \/ cancel_goal(i) \/ record_loop(i)
      PROVE  \E g : Put(i, g) /\ Keeps(i, g)
    BY <1>5 DEF pause_goal, resume_goal, cancel_goal, record_loop, Keeps, Terminal, Unsettled
<1> QED
    BY <1>1, <1>2, <1>3, <1>4, <1>5, Classified DEF Next, Handler

\* Without write errors the file is what the runner has in memory, so a restart
\* loses nothing.
THEOREM FileCurrent == Spec => []FileIsCurrent
<1>1. Init => FileIsCurrent
    BY DEF Init, FileIsCurrent
<1>2. IInv /\ FileIsCurrent /\ [Next]_vars => FileIsCurrent'
  <2> SUFFICES ASSUME IInv, FileIsCurrent, [Next]_vars, faults' = 0
               PROVE  file' = goals'
      BY DEF FileIsCurrent
  <2>1. CASE Restart \/ CrashInSave
      BY <2>1 DEF Restart, CrashInSave
  <2>2. ASSUME NEW i \in Goals, NEW g, Put(i, g) PROVE file' = goals'
      BY <2>2 DEF Put, IInv
  <2>3. CASE UNCHANGED vars
      BY <2>3 DEF vars, FileIsCurrent
  <2>4. CASE Next
    <3>1. \/ Restart \/ CrashInSave
          \/ \E i \in Goals : \E g :
                Put(i, g) /\ Keeps(i, g)
        BY <2>4, StepShape
    <3> QED
        BY <2>1, <2>2, <3>1
  <2> QED
      BY <2>3, <2>4
<1> QED
    BY <1>1, <1>2, InitIInv, NextIInv, PTL DEF Spec

\* A goal that is over is not changed by any later event, report, loop or
\* restart; it can only be deleted.
THEOREM OverIsOver == Spec => TerminalIsFinal
<1>1. ASSUME IInv, FileIsCurrent, [Next]_vars
      PROVE  [\A i \in Goals : faults = 0 /\ goals[i].state \in Terminal =>
                 goals'[i] = goals[i] \/ goals'[i].state = "absent"]_vars
  <2>1. CASE Restart \/ CrashInSave
    <3>1. NoGoal.state = "absent"
        BY DEF NoGoal
    <3>2. CASE Restart
        BY <1>1, <3>2 DEF Restart, FileIsCurrent
    <3>3. CASE CrashInSave
        BY <3>1, <3>3 DEF CrashInSave
    <3> QED
        BY <2>1, <3>2, <3>3
  <2>2. ASSUME NEW i \in Goals, NEW g, Put(i, g), Keeps(i, g)
        PROVE  \A k \in Goals : goals[k].state \in Terminal =>
                   goals'[k] = goals[k] \/ goals'[k].state = "absent"
      BY <1>1, <2>2 DEF Put, Keeps, IInv
  <2>3. CASE UNCHANGED vars
      BY <2>3
  <2>4. CASE Next
    <3>1. \/ Restart \/ CrashInSave
          \/ \E i \in Goals : \E g :
                Put(i, g) /\ Keeps(i, g)
        BY <2>4, StepShape
    <3> QED
        BY <2>1, <2>2, <3>1
  <2> QED
      BY <1>1, <2>3, <2>4
<1> QED
    BY <1>1, InitIInv, NextIInv, FileCurrent, PTL DEF Spec, TerminalIsFinal

-----------------------------------------------------------------------------
(* Admission.                                                              *)

\* A goal that works without ever having been resumed, and a table of goals in which
\* no two of one session do.
Fresh(g) == g.state = "active" /\ g.reviewed = "no"

Admitted(f) ==
    \A i, j \in Goals :
        /\ i # j /\ f[i].session = f[j].session
        /\ f[i].state = "active" /\ f[j].state = "active"
        => ~Fresh(f[i]) \/ ~Fresh(f[j])

\* A handler stores a goal that admit lets in, or one that is fresh only if it was.
Enters(i, g) ==
    \/ \A k \in Goals : goals[k].session = g.session => goals[k].state # "active"
    \/ g.state = "active" =>
          /\ g.session = goals[i].session
          /\ Fresh(g) => Fresh(goals[i])

\* The state rules make no goal active, and none fresh.
LEMMA EvaluateEnters ==
    ASSUME NEW i \in Goals, NEW c, NEW n
    PROVE  Enters(i, Evaluate(Advanced(goals[i], c, n)))
<1> SUFFICES ASSUME NEW h, h = Advanced(goals[i], c, n)
             PROVE  Enters(i, Evaluate(h))
    OBVIOUS
<1>1. /\ h.state = goals[i].state /\ h.session = goals[i].session
      /\ h.reviewed = "no" => goals[i].reviewed = "no"
    BY DEF Advanced
<1>2. Evaluate(h) = h \/ Evaluate(h).state # "active"
    BY DEF Evaluate, Transition
<1> QED
    BY <1>1, <1>2 DEF Enters, Fresh

\* A transition is to another state or by the user, who has then reviewed the goal.
LEMMA TransitionEnters ==
    ASSUME NEW i \in Goals, NEW st, NEW why
    PROVE  Enters(i, Transition(goals[i], st, why))
BY DEF Enters, Fresh, Transition

\* Every handler stores a goal that enters.
LEMMA HandlerEnters ==
    ASSUME IInv, NEW i \in Goals, Handler(i)
    PROVE  \E g : Put(i, g) /\ Enters(i, g)
<1>1. ASSUME NEW s \in Sessions, NEW max \in Loops, create_goal(i, s, max)
      PROVE  \E g : Put(i, g) /\ Enters(i, g)
    BY <1>1 DEF create_goal, Admit, Enters
<1>2. ASSUME delete_goal(i) PROVE \E g : Put(i, g) /\ Enters(i, g)
  <2>1. NoGoal.state = "absent"
      BY DEF NoGoal
  <2> QED
      BY <1>2, <2>1 DEF delete_goal, Enters
<1>3. ASSUME NEW o, record_event(i, o) PROVE \E g : Put(i, g) /\ Enters(i, g)
    BY <1>3, EvaluateEnters DEF record_event
<1>4. Enters(i, goals[i])
    BY DEF Enters
<1>5. ASSUME NEW status \in {"complete", "blocked", "other"}, goal_report(i, status)
      PROVE  \E g : Put(i, g) /\ Enters(i, g)
  <2>1. Enters(i, Reported(goals[i], status))
      BY <1>4, TransitionEnters DEF Reported
  <2> QED
      BY <1>5, <2>1 DEF goal_report
<1>6. ASSUME pause_goal(i) \/ resume_goal(i) \/ cancel_goal(i)
      PROVE  \E g : Put(i, g) /\ Enters(i, g)
    BY <1>4, <1>6, TransitionEnters DEF pause_goal, resume_goal, cancel_goal
<1>7. ASSUME record_loop(i) PROVE \E g : Put(i, g) /\ Enters(i, g)
    BY <1>7, EvaluateEnters DEF record_loop
<1> QED
    BY <1>1, <1>2, <1>3, <1>5, <1>6, <1>7 DEF Handler

\* Two goals of one session work together only if a user resumed one of them; the
\* file says the same, so restarts on an old file do not break it.
THEOREM AdmissionHolds == Spec => []OnlyResumeBreaksAdmission
<1>1. Init => Admitted(goals) /\ Admitted(file)
    BY DEF Init, Admitted, NoGoal
<1>2. IInv /\ Admitted(goals) /\ Admitted(file) /\ [Next]_vars => (Admitted(goals) /\ Admitted(file))'
  <2> SUFFICES ASSUME IInv, Admitted(goals), Admitted(file), [Next]_vars
               PROVE  Admitted(goals') /\ Admitted(file')
      OBVIOUS
  <2>1. CASE Restart
      BY <2>1 DEF Restart
  <2>2. CASE CrashInSave
    <3>1. \A i \in Goals : goals'[i].state = "absent" /\ file'[i].state = "absent"
        BY <2>2 DEF CrashInSave, NoGoal
    <3> QED
        BY <3>1 DEF Admitted
  <2>3. ASSUME NEW i \in Goals, Handler(i) PROVE Admitted(goals') /\ Admitted(file')
    <3>1. PICK g : Put(i, g) /\ Enters(i, g)
        BY <2>3, HandlerEnters
    <3>2. \A k \in Goals : goals'[k] = IF k = i THEN g ELSE goals[k]
        BY <3>1 DEF Put, IInv
    <3>3. Admitted(goals')
        BY <3>1, <3>2 DEF Admitted, Enters, Fresh
    <3> QED
        BY <3>1, <3>3 DEF Put
  <2>4. CASE UNCHANGED vars
      BY <2>4 DEF vars
  <2> QED
      BY <2>1, <2>2, <2>3, <2>4 DEF Next
<1>3. Admitted(goals) => OnlyResumeBreaksAdmission
    BY DEF Admitted, Fresh, OnlyResumeBreaksAdmission
<1> QED
    BY <1>1, <1>2, <1>3, InitIInv, NextIInv, PTL DEF Spec
=============================================================================
