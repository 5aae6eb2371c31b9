-------------------------- MODULE MCWorkflowNotifier --------------------------
(* Finite instances of WorkflowNotifier: the values the .cfg files give to   *)
(* its constants.                                                            *)
EXTENDS WorkflowNotifier

CONSTANTS wf1, pod1, pod2

OneName == {wf1}
OnePod == {pod1}
TwoPods == {pod1, pod2}

\* A workflow runs once and succeeds or fails.
RunOnce == {<<"Unknown", "Running">>, <<"Running", "Succeeded">>, <<"Running", "Failed">>}

\* The shortest life of a workflow: Argo rejects the spec before anything runs.
FailAtOnce == {<<"Unknown", "Error">>}

\* `argo retry` puts a failed workflow back to Running.
WithRetry == RunOnce \cup {<<"Failed", "Running">>}

AllFaults == FaultKinds
NoFaults == {}
PodFaults == {"crash", "lease"}
===============================================================================
