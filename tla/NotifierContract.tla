---------------------------- MODULE NotifierContract ----------------------------
(***************************************************************************)
(* What the reconciler relies on when it calls notify.Notifier: one call    *)
(* of Notify returns nil only if the receiver has accepted the event, may   *)
(* return an error whether or not it has, and always returns.  A request    *)
(* whose answer was given up on may still be accepted after the return.     *)
(***************************************************************************)

VARIABLES
    call,       \* "idle", "running", "nil" or "error": the state of the call
    accepted    \* the requests of this call that the receiver has accepted

vars == <<call, accepted>>

Init == call = "idle" /\ accepted = {}

\* A call may also fail before it has sent anything.
Begin == call = "idle" /\ call' \in {"running", "error"} /\ UNCHANGED accepted

Accept ==
    /\ call # "idle"
    /\ accepted \subseteq accepted'
    /\ UNCHANGED call

ReturnNil ==
    /\ call = "running"
    /\ accepted # {}
    /\ call' = "nil"
    /\ UNCHANGED accepted

ReturnError == call = "running" /\ call' = "error" /\ UNCHANGED accepted

Return == ReturnNil \/ ReturnError

Next == Begin \/ Accept \/ Return

Spec == Init /\ [][Next]_vars /\ WF_vars(Return)
=================================================================================
