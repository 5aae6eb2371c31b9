--------------------------- MODULE ReleaseContract ---------------------------
(***************************************************************************)
(* What a run of the orders-api pipeline may do to the outside world, on    *)
(* any of the platforms: the milestones it reaches, each once and only      *)
(* after the ones it depends on.  The order and the two gates are those of  *)
(* the Jenkinsfile the other pipelines were migrated from; Gates names the  *)
(* gates the platform of a run really has.                                  *)
(***************************************************************************)

CONSTANTS
    Runs,          \* the runs of the pipeline
    Gates(_)       \* of a request: which of "branch" and "approval" guard its run

VARIABLES
    request,       \* of every run: its parameters [branch, environment, skipTests, ...]
    done           \* of every run: the milestones it has reached

vars == <<request, done>>

Milestones == {"built", "tested", "pushed", "staged", "approved", "promoted"}

Init == done = [n \in Runs |-> {}]

MayReach(n, milestone) ==
    CASE milestone = "built" -> TRUE
      [] milestone = "tested" -> "built" \in done[n]
      [] milestone = "pushed" ->
            "built" \in done[n] /\ ("tested" \in done[n] \/ request[n].skipTests)
      [] milestone = "staged" ->
            "pushed" \in done[n] /\ ("branch" \in Gates(request[n]) => request[n].branch = "main")
      [] milestone = "approved" -> "staged" \in done[n]
      [] milestone = "promoted" ->
            /\ "staged" \in done[n]
            /\ request[n].environment = "production"
            /\ "approval" \in Gates(request[n]) => "approved" \in done[n]

Reach(n, milestone) ==
    /\ milestone \notin done[n]
    /\ MayReach(n, milestone)
    /\ done' = [done EXCEPT ![n] = @ \cup {milestone}]
    /\ UNCHANGED request

Next == \E n \in Runs : \E milestone \in Milestones : Reach(n, milestone)

Spec == Init /\ [][Next]_vars
==============================================================================
