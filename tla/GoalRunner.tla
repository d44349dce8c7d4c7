----------------------------- MODULE GoalRunner -----------------------------
(***************************************************************************)
(* The autonomous goals of the will organ (src/src/will/goal_runner.py).   *)
(*                                                                         *)
(* A goal is a state machine driven by the tool events an agent records,   *)
(* by the agent's own report on the goal, and by its user; every change    *)
(* rewrites one JSON file with all goals.  The handlers do not await, so   *)
(* each is one action.  Of the events a goal remembers only the counters   *)
(* and the number of failures at the end of the list decide anything.      *)
(***************************************************************************)
EXTENDS Naturals

CONSTANTS
    Goals,         \* goal ids; uuid4 never repeats one
    Sessions,      \* session ids
    FailStop,      \* failures in a row that pause a goal (3)
    NoProgress,    \* scored events without success that pause a goal (20)
    Loops,         \* the values of max_loops
    MaxEvents,     \* bound: scored events of a goal
    MaxLoops,      \* bound: loop_count
    MaxCrashes,    \* bound: restarts of the process
    MaxFaults      \* bound: writes of the file that fail and are ignored

ASSUME ConstantAssumption ==
    /\ Sessions # {}
    /\ FailStop \in Nat \ {0} /\ NoProgress \in Nat /\ FailStop <= NoProgress
    /\ Loops \subseteq Nat
    /\ MaxEvents \in Nat /\ MaxLoops \in Nat /\ MaxCrashes \in Nat /\ MaxFaults \in Nat

VARIABLES
    goals,     \* self._goals
    file,      \* will_goals.json
    crashes, faults

vars == <<goals, file, crashes, faults>>

\* A goal that does not exist is "absent".
GoalState   == {"active", "paused", "blocked", "completed", "failed", "absent"}
Terminal    == {"completed", "failed"}
GoalOutcome == {"success", "failed", "blocked", "none"}

\* Mutant: only failed goals are terminal.
UnsettledCompleted == {"active", "paused", "blocked", "completed"}

\* Not is_terminal.
Unsettled == {"active", "paused", "blocked"}

\* why is the reason of the last state_history entry; reviewed is history: "yes"
\* from a resume to the next event or loop, then "once".
Reason == {"none", "user", "report", "blocked event", "fail-stop", "max loops", "no progress"}
Counters == [success : Nat, failure : Nat, blocked : Nat, streak : Nat]
Goal     == [state : GoalState, why : Reason, reviewed : {"no", "yes", "once"},
             session : Sessions, count : Counters, loops : Nat, max : Nat]

NoCount == [success |-> 0, failure |-> 0, blocked |-> 0, streak |-> 0]
NoGoal  == [state |-> "absent", why |-> "none", reviewed |-> "no",
            session |-> CHOOSE s \in Sessions : TRUE, count |-> NoCount, loops |-> 0, max |-> 0]

-----------------------------------------------------------------------------
(* The rules.                                                              *)

\* _transition: the new state and its reason; only a user makes a goal active.
Transition(g, state, why) ==
    [state |-> state, why |-> why,
     reviewed |-> IF state = "active" THEN "yes" ELSE g.reviewed,
     session |-> g.session, count |-> g.count, loops |-> g.loops, max |-> g.max]

\* The goal goes on with new counters: the user's review is over.
Advanced(g, count, loops) ==
    [state |-> g.state, why |-> g.why,
     reviewed |-> IF g.reviewed = "yes" THEN "once" ELSE g.reviewed,
     session |-> g.session, count |-> count, loops |-> loops, max |-> g.max]

\* The number of scored events.
Scored(c) == c.success + c.failure + c.blocked

\* Mutant: rule 1 is left out, so that a blocked event only ends the run of failures.
EvaluateUnblocked(g) ==
    IF g.state # "active" THEN g
    ELSE IF g.count.streak >= FailStop THEN Transition(g, "paused", "fail-stop")
    ELSE IF g.loops >= g.max THEN Transition(g, "failed", "max loops")
    ELSE IF Scored(g.count) >= NoProgress /\ g.count.success = 0
         THEN Transition(g, "paused", "no progress")
    ELSE g

\* Mutant: the rules 2 and 4 in the other order.
EvaluateSwapped(g) ==
    IF g.state # "active" THEN g
    ELSE IF g.count.blocked > 0 THEN Transition(g, "blocked", "blocked event")
    ELSE IF Scored(g.count) >= NoProgress /\ g.count.success = 0
         THEN Transition(g, "paused", "no progress")
    ELSE IF g.count.streak >= FailStop THEN Transition(g, "paused", "fail-stop")
    ELSE IF g.loops >= g.max THEN Transition(g, "failed", "max loops")
    ELSE g

\* _evaluate_state: the rules 1 to 4, the first that applies.
Evaluate(g) ==
    IF g.state # "active" THEN g
    ELSE IF g.count.blocked > 0 THEN Transition(g, "blocked", "blocked event")
    ELSE IF g.count.streak >= FailStop THEN Transition(g, "paused", "fail-stop")
    ELSE IF g.loops >= g.max THEN Transition(g, "failed", "max loops")
    ELSE IF Scored(g.count) >= NoProgress /\ g.count.success = 0
         THEN Transition(g, "paused", "no progress")
    ELSE g

\* What kind of tool was run, and how it ended (exit code, or error field).
Tools   == {"question", "plan_exit", "bash", "general"}
Results == {"ok", "error"}

\* The score of a tool event: questions, notes and the like are not scored, a
\* plan exit or a denied permission blocks, anything else succeeds or fails.
classify_tool_outcome(tool, result) ==
    IF tool = "question" THEN "none"
    ELSE IF tool = "plan_exit" THEN "blocked"
    ELSE IF result = "error" THEN "failed" ELSE "success"

\* record_event counts the event; one with the outcome "none" is not scored.
Counted(c, o) ==
    [success |-> IF o = "success" THEN c.success + 1 ELSE c.success,
     failure |-> IF o = "failed" THEN c.failure + 1 ELSE c.failure,
     blocked |-> IF o = "blocked" THEN c.blocked + 1 ELSE c.blocked,
     streak  |-> IF o = "failed" THEN c.streak + 1 ELSE IF o = "none" THEN c.streak ELSE 0]

\* Mutant: a report is believed without any successful event.
ReportedBelieved(g, status) ==
    CASE status = "complete" -> Transition(g, "completed", "report")
      [] status = "blocked" -> Transition(g, "blocked", "report")
      [] OTHER -> g

\* Mutant: the reported status becomes the state of the goal.
ReportedRaw(g, status) ==
    IF status = "complete"
    THEN Transition(g, IF g.count.success > 0 THEN "completed" ELSE "paused", "report")
    ELSE Transition(g, status, "report")

\* goal_report: "complete" counts only if some event was a success, and pauses
\* the goal otherwise; a status that is neither only is recorded.
Reported(g, status) ==
    CASE status = "complete" ->
             Transition(g, IF g.count.success > g.count.failure \/ g.count.success > 0
                           THEN "completed" ELSE "paused", "report")
      [] status = "blocked" -> Transition(g, "blocked", "report")
      [] OTHER -> g

\* Mutant: only blocked goals keep a session from getting a new goal.
AdmitActive(s) == \A i \in Goals : goals[i].session = s => goals[i].state # "blocked"

\* admit: no goal of the session is active or blocked.
Admit(s) == \A i \in Goals : goals[i].session = s => goals[i].state \notin {"active", "blocked"}

\* The assignment and the _save that ends a handler; errors are ignored.
Put(i, g) ==
    /\ goals' = [goals EXCEPT ![i] = g]
    /\ \/ file' = goals' /\ UNCHANGED faults
       \/ faults < MaxFaults /\ faults' = faults + 1 /\ UNCHANGED file
    /\ UNCHANGED crashes

-----------------------------------------------------------------------------
(* The handlers.                                                           *)

create_goal(i, s, max) ==
    /\ goals[i].state = "absent" /\ Admit(s)
    /\ Put(i, [state |-> "active", why |-> "none", reviewed |-> "no", session |-> s,
              count |-> NoCount, loops |-> 0, max |-> max])

delete_goal(i) ==
    /\ goals[i].state # "absent"
    /\ Put(i, NoGoal)

record_event(i, o) ==
    /\ goals[i].state \in Unsettled
    /\ o = "none" \/ Scored(goals[i].count) < MaxEvents
    /\ Put(i, Evaluate(Advanced(goals[i], Counted(goals[i].count, o), goals[i].loops)))

goal_report(i, status) ==
    /\ goals[i].state \in Unsettled
    /\ Put(i, Reported(goals[i], status))

\* pause_goal and resume_goal save a goal they do not change as well.
pause_goal(i) ==
    \/ goals[i].state = "active" /\ Put(i, Transition(goals[i], "paused", "user"))
    \/ goals[i].state \in {"paused", "blocked"} /\ Put(i, goals[i])

\* Only a paused goal is resumed; for a blocked one resume_goal returns at once.
resume_goal(i) ==
    \/ goals[i].state = "paused" /\ Put(i, Transition(goals[i], "active", "user"))
    \/ goals[i].state = "active" /\ Put(i, goals[i])

cancel_goal(i) ==
    \/ goals[i].state \in Unsettled /\ Put(i, Transition(goals[i], "failed", "user"))
    \/ goals[i].state \in Terminal /\ Put(i, goals[i])

\* Mutant: the loop is counted but not saved.
record_loop_unsaved(i) ==
    /\ goals[i].state = "active" /\ goals[i].loops < MaxLoops
    /\ goals' = [goals EXCEPT ![i] =
          Evaluate(Advanced(goals[i], goals[i].count, goals[i].loops + 1))]
    /\ UNCHANGED <<file, crashes, faults>>

record_loop(i) ==
    /\ goals[i].state = "active" /\ goals[i].loops < MaxLoops
    /\ Put(i, Evaluate(Advanced(goals[i], goals[i].count, goals[i].loops + 1)))

\* The process is restarted and reads the file.
Restart ==
    /\ crashes < MaxCrashes
    /\ crashes' = crashes + 1
    /\ goals' = file
    /\ UNCHANGED <<file, faults>>

\* The process dies while _save rewrites the file in place: the file that is left
\* does not parse, _load ignores the error and the runner knows no goal.
CrashInSave ==
    /\ crashes < MaxCrashes
    /\ crashes' = crashes + 1
    /\ goals' = [i \in Goals |-> NoGoal]
    /\ file' = [i \in Goals |-> NoGoal]
    /\ UNCHANGED faults

-----------------------------------------------------------------------------
Init ==
    /\ goals = [i \in Goals |-> NoGoal]
    /\ file = goals
    /\ crashes = 0 /\ faults = 0

Handler(i) ==
    \/ \E s \in Sessions, max \in Loops : create_goal(i, s, max)
    \/ delete_goal(i)
    \/ \E tool \in Tools, result \in Results : record_event(i, classify_tool_outcome(tool, result))
    \/ \E status \in {"complete", "blocked", "other"} : goal_report(i, status)
    \/ pause_goal(i) \/ resume_goal(i) \/ cancel_goal(i) \/ record_loop(i)

Next == (\E i \in Goals : Handler(i)) \/ Restart \/ CrashInSave

Spec == Init /\ [][Next]_vars

-----------------------------------------------------------------------------
(* Properties.                                                             *)

\* The types of the variables, those of Goal in the code.
TypeOK ==
    /\ goals \in [Goals -> Goal] /\ file \in [Goals -> Goal]
    /\ crashes \in Nat /\ faults \in Nat

\* "Fail-stop": no goal goes on working after a blocked event or after FailStop
\* failures in a row, whenever the events came in, unless its user has resumed
\* it since.
FailureStops ==
    \A i \in Goals : goals[i].state = "active" /\ goals[i].reviewed # "yes" =>
        goals[i].count.blocked = 0 /\ goals[i].count.streak < FailStop

\* Rule 4 of _evaluate_state never decides: twenty scored events without success
\* or block end in a row of failures, so rule 2 has paused the goal before.
NoProgressRuleIsDead == \A i \in Goals : goals[i].why # "no progress"

\* "Completion is not what the model says but what the events show": a completed
\* goal has a successful event, also after restarts with a stale file.
CompletedHasEvidence == \A i \in Goals : goals[i].state = "completed" => goals[i].count.success > 0

\* Every handler that changed a goal has written it: without write errors a
\* restart at any moment loses nothing.
FileIsCurrent == faults = 0 => file = goals

\* admit: "the session has no other active goal (only one runs at a time)".
OneActivePerSession ==
    \A i, j \in Goals : i # j /\ goals[i].state = "active" /\ goals[j].state = "active" =>
        goals[i].session # goals[j].session

\* What is left of that: admit decides for the whole session, so two goals of
\* one session are active together only if one of them was resumed.
OnlyResumeBreaksAdmission ==
    \A i, j \in Goals :
        /\ i # j /\ goals[i].session = goals[j].session
        /\ goals[i].state = "active" /\ goals[j].state = "active"
        => goals[i].reviewed # "no" \/ goals[j].reviewed # "no"

\* A goal that is over stays as it is until it is deleted, whatever events,
\* reports or loops of its agent still come in.
TerminalIsFinal ==
    [][\A i \in Goals : faults = 0 /\ goals[i].state \in Terminal =>
          goals'[i] = goals[i] \/ goals'[i].state = "absent"]_vars
=============================================================================
