-------------------------- MODULE MCWorkflowEngine --------------------------
(* Small workflows for WorkflowEngine. *)
EXTENDS WorkflowEngine

CONSTANTS t1, n1, n2, n3

Unconditional(a, b) == [from |-> a, to |-> b, open |-> SUBSET Nodes]

\* t1 leads to n1 and n2, n2 back to n1, n1 to n3: when n2 fails, n1 is already
\* done and the resumed walk meets it again.
JoinEdges ==
    <<Unconditional(t1, n1), Unconditional(t1, n2), Unconditional(n2, n1), Unconditional(n1, n3)>>

\* Two condition nodes n1 and n2 write the same variable "condition_result": the
\* edge from n1 to n3 is open until n2 has overwritten it.
SharedVariableEdges ==
    <<Unconditional(t1, n1), Unconditional(t1, n2), [from |-> n1, to |-> n3, open |-> {{t1, n1}}]>>

\* Two actions after the trigger.
ForkEdges == <<Unconditional(t1, n1), Unconditional(t1, n2)>>

\* One action after the trigger, and an edge that would close a cycle.
ShortEdges == <<Unconditional(t1, n1)>>
LoopEdge   == {Unconditional(n1, t1)}
NoEdges    == {}

\* The hypothesis of the theorems on resumed walks holds of every workflow here but
\* the one with the shared variable.
ASSUME SettledHypothesis == SettledWorkflow <=> Edges # SharedVariableEdges
=============================================================================
