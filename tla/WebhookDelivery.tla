---------------------------- MODULE WebhookDelivery ----------------------------
(***************************************************************************)
(* One call of Webhook.Notify: the retry loop, its backoff, the             *)
(* cancellation of its context, and the receiver at the other end of an     *)
(* unreliable network.  A request the client has given up on may still be   *)
(* processed later, so the receiver can accept one event several times.     *)
(***************************************************************************)
EXTENDS Integers

CONSTANT Settings      \* the values --webhook-retries is started with

ASSUME SettingsAssumption == Settings \subseteq Int

VARIABLES
    maxRetries,  \* Webhook.MaxRetries
    urlParses,   \* Webhook.URL is one a request can be made for
    cancelled,   \* the context of the reconcile is done (shutdown)
    pc,          \* "idle", "backoff", "post", "await" or "done"
    attempt,     \* the loop variable
    last,        \* the outcome of the latest attempt, Notify's last
    result,      \* what Notify returned: "none" until it does
    sent,        \* the attempts whose request was handed to the http.Client
    network,     \* the requests the receiver has not processed yet
    accepted,    \* the requests the receiver answered with a 2xx
    refused,     \* and those it answered with a 4xx other than 429
    reply        \* the status on its way back to the awaited request

settings == <<maxRetries, urlParses>>
call == <<pc, attempt, last, result>>
receiver == <<network, accepted, refused, reply>>
vars == <<settings, cancelled, call, sent, receiver>>

\* 2xx; 4xx other than 429; 429; everything else (3xx, 5xx).
Statuses == {"success", "clientError", "tooManyRequests", "other"}

\* Mutated form of Permanent: 429 is a 4xx like the others.
PermanentEvery4xx(status) == status \in {"clientError", "tooManyRequests"}

Permanent(status) == status = "clientError"

Init ==
    /\ maxRetries \in Settings
    /\ urlParses \in BOOLEAN
    /\ cancelled = FALSE
    /\ pc = "idle" /\ attempt = 0 /\ last = "none" /\ result = "none"
    /\ sent = {} /\ network = {} /\ accepted = {} /\ refused = {}
    /\ reply = "none"

\* Mutated form of Retries: the zero value is taken as it is.
RetriesAsSet == maxRetries

Retries == IF maxRetries = 0 THEN 2 ELSE maxRetries

Finish(outcome) == pc' = "done" /\ result' = outcome /\ UNCHANGED attempt

\* Mutated form of Attempt: the loop variable is not advanced.
AttemptUncounted(a) ==
    \/ /\ a <= Retries
       /\ pc' = IF a > 0 THEN "backoff" ELSE "post"
       /\ UNCHANGED <<attempt, result>>
    \/ a > Retries /\ Finish("exhausted")

\* The head of the loop: attempt number a is made if the bound allows it.
Attempt(a) ==
    \/ /\ a <= Retries
       /\ pc' = IF a > 0 THEN "backoff" ELSE "post"
       /\ attempt' = a
       /\ UNCHANGED result
    \/ a > Retries /\ Finish("exhausted")

Notify ==
    /\ pc = "idle"
    /\ Attempt(0)
    /\ UNCHANGED <<settings, cancelled, last, sent, receiver>>

BackoffElapsed ==
    /\ pc = "backoff"
    /\ pc' = "post"
    /\ UNCHANGED <<settings, cancelled, attempt, last, result, sent, receiver>>

ContextDone ==
    /\ pc = "backoff"
    /\ cancelled
    /\ Finish("cancelled")
    /\ UNCHANGED <<settings, cancelled, last, sent, receiver>>

\* Without a URL that parses there is no request, and client.Do refuses one whose context is
\* already done: the attempt fails and counts, and nothing is sent.
Post ==
    /\ pc = "post"
    /\ \/ /\ urlParses /\ ~cancelled
          /\ pc' = "await"
          /\ sent' = sent \cup {attempt}
          /\ network' = network \cup {attempt}
          /\ reply' = "none"
          /\ UNCHANGED <<attempt, last, result>>
       \/ /\ ~urlParses \/ cancelled
          /\ last' = IF urlParses THEN "network" ELSE "request"
          /\ Attempt(attempt + 1)
          /\ UNCHANGED <<sent, network, reply>>
    /\ UNCHANGED <<settings, cancelled, accepted, refused>>

\* Mutated form of Answered: only 5xx and permanent answers are errors.
AnsweredLeniently ==
    /\ pc = "await"
    /\ reply # "none"
    /\ last' = reply
    /\ \/ reply \in {"success", "tooManyRequests"} /\ Finish("nil")
       \/ Permanent(reply) /\ Finish("permanent")
       \/ reply = "other" /\ Attempt(attempt + 1)
    /\ UNCHANGED <<settings, cancelled, sent, receiver>>

\* The answer arrives and post classifies its status.
Answered ==
    /\ pc = "await"
    /\ reply # "none"
    /\ last' = reply
    /\ \/ reply = "success" /\ Finish("nil")
       \/ Permanent(reply) /\ Finish("permanent")
       \/ reply # "success" /\ ~Permanent(reply) /\ Attempt(attempt + 1)
    /\ UNCHANGED <<settings, cancelled, sent, receiver>>

\* client.Do fails (timeout, reset, cancelled context), whatever the receiver did.
NetworkError ==
    /\ pc = "await"
    /\ last' = "network"
    /\ Attempt(attempt + 1)
    /\ UNCHANGED <<settings, cancelled, sent, receiver>>

--------------------------------------------------------------------------------
(* The environment: the manager's shutdown, the network and the receiver.     *)

Cancel ==
    /\ ~cancelled
    /\ cancelled' = TRUE
    /\ UNCHANGED <<settings, call, sent, receiver>>

Process(a, status) ==
    /\ a \in network
    /\ network' = network \ {a}
    /\ accepted' = IF status = "success" THEN accepted \cup {a} ELSE accepted
    /\ refused' = IF status = "clientError" THEN refused \cup {a} ELSE refused
    /\ reply' = IF pc = "await" /\ a = attempt THEN status ELSE reply
    /\ UNCHANGED <<settings, cancelled, call, sent>>

Lose(a) ==
    /\ a \in network
    /\ network' = network \ {a}
    /\ UNCHANGED <<settings, cancelled, call, sent, accepted, refused, reply>>

--------------------------------------------------------------------------------
Caller == Notify \/ BackoffElapsed \/ ContextDone \/ Post \/ Answered \/ NetworkError

Next ==
    \/ Caller
    \/ Cancel
    \/ \E a \in network : \E status \in Statuses : Process(a, status)
    \/ \E a \in network : Lose(a)

\* The http.Client has a timeout and the backoff a timer, so the caller is never stuck.
Spec == Init /\ [][Next]_vars /\ WF_vars(Caller)

--------------------------------------------------------------------------------
TypeOK ==
    /\ maxRetries \in Settings
    /\ urlParses \in BOOLEAN /\ cancelled \in BOOLEAN
    /\ pc \in {"idle", "backoff", "post", "await", "done"}
    /\ attempt \in Nat
    /\ last \in Statuses \cup {"none", "request", "network"}
    /\ result \in {"none", "nil", "permanent", "exhausted", "cancelled"}
    /\ sent \subseteq Nat /\ network \subseteq sent /\ accepted \subseteq sent /\ refused \subseteq sent
    /\ reply \in Statuses \cup {"none"}

\* Notify returns nil only after the receiver accepted the request of the last
\* attempt: what lets Reconcile write the annotation after it (notify.go:79-82).
NilMeansAccepted == result = "nil" => attempt \in accepted

\* The attempts a setting stands for: "attempts beyond the first; default 2" (notify.go:41).
Allowed == IF maxRetries = 0 THEN 0 .. 2 ELSE 0 .. maxRetries

\* A call never posts more often than its setting says, and "after N attempt(s)" is true: it
\* gives up only when the last attempt allowed was made, and then each of them was posted, unless
\* the context was cancelled on the way or the URL is none (notify.go:61-88, 92-95).
ExhaustedMeansAllSent ==
    /\ sent \subseteq Allowed
    /\ result = "exhausted" =>
         /\ attempt + 1 \notin Allowed
         /\ IF urlParses THEN sent = Allowed \/ cancelled ELSE sent = {}

\* "a delivery failure that will not succeed on retry" (notify.go:45): the call gives up for good
\* only if the receiver refused the attempt it was waiting for, so neither because it was
\* throttled nor because of the answer to an attempt given up before.
PermanentMeansRefused == result = "permanent" => attempt \in refused \ accepted

\* The loop implements the contract the reconciler is written against; that it always returns,
\* whatever receiver and network do, is the contract's fairness (notify.go:56-89).
Contract == INSTANCE NotifierContract WITH
    call <- IF pc = "idle" THEN "idle"
            ELSE IF pc # "done" THEN "running"
            ELSE IF result = "nil" THEN "nil" ELSE "error",
    accepted <- accepted
ImplementsContract == Contract!Spec
=================================================================================
