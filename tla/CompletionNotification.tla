------------------------- MODULE CompletionNotification -------------------------
(***************************************************************************)
(* What the controller promises, without caches, queues or processes:       *)
(* workflows complete; completions that occurred are delivered, in any      *)
(* order and at least once; a phase is recorded on a workflow only after a  *)
(* completion of that name with that phase was delivered.                   *)
(***************************************************************************)

CONSTANTS Names, Phases, NoNote

VARIABLES
    occurred,   \* the completions that happened: [name, uid, phase]
    delivered,  \* the completions the webhook accepted
    recorded    \* the annotation of every name, NoNote when there is none

vars == <<occurred, delivered, recorded>>

Init ==
    /\ occurred = {} /\ delivered = {}
    /\ recorded = [n \in Names |-> NoNote]

Occur ==
    /\ occurred \subseteq occurred'
    /\ UNCHANGED <<delivered, recorded>>

Deliver(e) ==
    /\ e \in occurred
    /\ delivered' = delivered \cup {e}
    /\ UNCHANGED <<occurred, recorded>>

Record(n, phase) ==
    /\ \E e \in delivered : e.name = n /\ e.phase = phase
    /\ recorded' = [recorded EXCEPT ![n] = phase]
    /\ UNCHANGED <<occurred, delivered>>

\* The workflow is deleted, and its annotation with it.
Forget(n) ==
    /\ recorded' = [recorded EXCEPT ![n] = NoNote]
    /\ UNCHANGED <<occurred, delivered>>

Next ==
    \/ Occur
    \/ \E e \in occurred : Deliver(e)
    \/ \E n \in Names : Forget(n) \/ \E phase \in Phases : Record(n, phase)

Spec == Init /\ [][Next]_vars
=================================================================================
