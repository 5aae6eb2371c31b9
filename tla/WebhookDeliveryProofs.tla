------------------------- MODULE WebhookDeliveryProofs -------------------------
(***************************************************************************)
(* Theorems about one call of Webhook.Notify, for every value of the retry  *)
(* setting and every behaviour of the network and the receiver.             *)
(***************************************************************************)
EXTENDS WebhookDelivery, TLAPS

\* The awaited request has no answer before the receiver has processed it, and its answer says
\* what the receiver did with it.
Awaited ==
    pc = "await" =>
        /\ attempt \in sent
        /\ attempt \in network => reply = "none"
        /\ attempt \in accepted <=> reply = "success"
        /\ attempt \in refused <=> reply = "clientError"

\* An attempt is sent once, after the ones before it, and every one is unless the call is cancelled
\* or has no URL to send it to.
Counted ==
    /\ sent \subseteq 0 .. attempt
    /\ pc = "idle" => attempt = 0 /\ sent = {} /\ result = "none"
    /\ pc \in {"backoff", "post"} => attempt \notin sent
    /\ pc \in {"backoff", "post", "await"} => attempt <= Retries /\ result = "none"
    /\ ~cancelled /\ urlParses /\ pc \in {"backoff", "post"} => sent = 0 .. attempt - 1
    /\ ~cancelled /\ pc = "await" => sent = 0 .. attempt
    /\ ~urlParses => sent = {} /\ pc # "await"

\* What a finished call returned.
Verdict ==
    /\ result # "none" => pc = "done"
    /\ NilMeansAccepted
    /\ ExhaustedMeansAllSent
    /\ PermanentMeansRefused
    /\ result = "permanent" => attempt \in sent /\ attempt \notin network

IInv == TypeOK /\ Awaited /\ Counted /\ Verdict

LEMMA RetriesIsInt == TypeOK => Retries \in Int
  BY SettingsAssumption DEF TypeOK, Retries

\* The bound of the loop is what the setting stands for.
LEMMA AllowedAre == Allowed = 0 .. Retries
  BY DEF Allowed, Retries

\* The head of the loop at the first attempt, or at the next one when the awaited or refused
\* attempt has failed.
LEMMA AttemptKeeps ==
  ASSUME IInv, NEW a \in Nat, Attempt(a),
         UNCHANGED <<settings, cancelled, sent, receiver>>,
         last' \in Statuses \cup {"none", "request", "network"},
         \/ pc = "idle" /\ a = 0
         \/ /\ pc \in {"post", "await"} /\ a = attempt + 1
            /\ pc = "post" => cancelled \/ ~urlParses
  PROVE  IInv'
<1> USE RetriesIsInt, AllowedAre DEF IInv, settings, receiver
<1>1. Retries' = Retries /\ Allowed' = Allowed /\ Retries \in Int /\ attempt \in Nat
      /\ pc # "done" /\ result = "none"
  BY DEF TypeOK, Retries, Allowed, Counted
<1>2. sent \subseteq 0 .. a /\ a \notin sent
  BY <1>1 DEF Counted, TypeOK
<1>3. ~cancelled /\ urlParses => sent = 0 .. a - 1
  <2>1. CASE pc = "idle" /\ a = 0
    <3>1. sent = {} /\ 0 .. a - 1 = {}
      BY <2>1 DEF Counted
    <3> QED BY <3>1
  <2>2. CASE pc = "await" /\ a = attempt + 1
    <3>1. a - 1 = attempt
      BY <1>1, <2>2
    <3>2. ~cancelled => sent = 0 .. attempt
      BY <2>2 DEF Counted
    <3> QED BY <3>1, <3>2
  <2> QED BY <2>1, <2>2
<1>4. CASE a <= Retries /\ pc' = (IF a > 0 THEN "backoff" ELSE "post") /\ attempt' = a /\ UNCHANGED result
  <2>1. TypeOK'
    BY <1>4 DEF TypeOK
  <2>2. Awaited'
    BY <1>4 DEF Awaited
  <2>3. Counted'
    BY <1>1, <1>2, <1>3, <1>4 DEF Counted
  <2>4. Verdict'
    BY <1>1, <1>4 DEF Verdict, NilMeansAccepted, ExhaustedMeansAllSent, PermanentMeansRefused
  <2> QED BY <2>1, <2>2, <2>3, <2>4
<1>5. CASE a > Retries /\ Finish("exhausted")
  <2>1. TypeOK'
    BY <1>5 DEF TypeOK, Finish
  <2>2. Awaited'
    BY <1>5 DEF Awaited, Finish
  <2>3. Counted'
    BY <1>1, <1>5 DEF Counted, Finish
  <2>4. (urlParses => sent = Allowed \/ cancelled) /\ attempt + 1 \notin Allowed
    <3>1. CASE a = 0
      <4>1. 0 .. a - 1 = {} /\ 0 .. Retries = {}
        BY <1>1, <1>5, <3>1
      <4> QED BY <1>3, <4>1
    <3>2. CASE a # 0
      <4>1. attempt <= Retries /\ a = attempt + 1
        BY <3>2 DEF Counted
      <4>2. a - 1 = Retries
        BY <1>1, <1>5, <4>1
      <4>3. a \notin 0 .. Retries
        BY <1>1, <1>5
      <4> QED BY <1>3, <4>1, <4>2, <4>3
    <3> QED BY <3>1, <3>2
  <2>5. ~urlParses => sent = {}
    BY DEF Counted
  <2>6. Verdict'
    BY <1>1, <1>5, <2>4, <2>5 DEF Verdict, NilMeansAccepted, ExhaustedMeansAllSent,
                                  PermanentMeansRefused, Finish
  <2> QED BY <2>1, <2>2, <2>3, <2>6
<1> QED BY <1>4, <1>5 DEF Attempt

LEMMA Initially == Init => IInv
<1> SUFFICES ASSUME Init PROVE IInv
  OBVIOUS
<1>1. TypeOK
  BY DEF Init, TypeOK
<1>2. Awaited /\ Counted
  BY DEF Init, Awaited, Counted
<1>3. Verdict
  BY DEF Init, Verdict, NilMeansAccepted, ExhaustedMeansAllSent, PermanentMeansRefused
<1> QED BY <1>1, <1>2, <1>3 DEF IInv

\* Every return of the awaited request ends the call or goes on to the next attempt.
LEMMA FinishKeeps ==
  ASSUME IInv, NEW outcome \in {"nil", "permanent", "cancelled"}, Finish(outcome),
         UNCHANGED <<settings, cancelled, sent, receiver>>,
         last' \in Statuses \cup {"none", "request", "network"},
         outcome = "nil" => attempt \in accepted,
         outcome = "permanent" =>
           attempt \in sent /\ attempt \notin network /\ attempt \in refused \ accepted
  PROVE  IInv'
<1> USE DEF settings, receiver
<1>1. TypeOK'
  BY DEF IInv, TypeOK, Finish
<1>2. Awaited' /\ Counted'
  BY DEF IInv, Awaited, Counted, Finish
<1>3. Allowed' = Allowed
  BY DEF Allowed
<1>4. Verdict'
  BY <1>3 DEF IInv, Verdict, NilMeansAccepted, ExhaustedMeansAllSent, PermanentMeansRefused, Finish
<1> QED BY <1>1, <1>2, <1>4 DEF IInv

LEMMA PostKeeps == IInv /\ Post => IInv'
<1> SUFFICES ASSUME IInv, Post PROVE IInv'
  OBVIOUS
<1> USE DEF settings, receiver
<1>1. CASE cancelled \/ ~urlParses
  <2>1. Attempt(attempt + 1) /\ UNCHANGED <<settings, cancelled, sent, receiver>>
        /\ last' \in {"network", "request"} /\ pc = "post" /\ attempt + 1 \in Nat
    BY <1>1 DEF Post, IInv, TypeOK
  <2> QED BY <1>1, <2>1, AttemptKeeps
<1>2. CASE ~cancelled /\ urlParses
  <2>1. /\ pc = "post" /\ pc' = "await" /\ sent' = sent \cup {attempt}
        /\ network' = network \cup {attempt} /\ reply' = "none"
        /\ UNCHANGED <<settings, cancelled, attempt, last, result, accepted, refused>>
    BY <1>2 DEF Post
  <2>2. attempt \in Nat /\ attempt \notin sent /\ attempt \notin accepted /\ attempt \notin refused
    BY <2>1 DEF IInv, TypeOK, Counted
  <2>3. TypeOK'
    BY <2>1, <2>2 DEF IInv, TypeOK
  <2>4. Awaited'
    BY <2>1, <2>2 DEF Awaited
  <2>5. Counted'
    BY <1>2, <2>1, <2>2 DEF IInv, Counted, Retries
  <2>6. attempt \in Allowed /\ Allowed' = Allowed
    <3>1. attempt \in 0 .. Retries
      BY <2>1, <2>2, RetriesIsInt DEF IInv, Counted
    <3>2. Allowed' = Allowed
      BY <2>1 DEF Allowed
    <3> QED BY <3>1, <3>2, AllowedAre
  <2>7. Verdict'
    BY <2>1, <2>6 DEF IInv, Verdict, Counted, NilMeansAccepted, ExhaustedMeansAllSent,
                      PermanentMeansRefused
  <2> QED BY <2>3, <2>4, <2>5, <2>7 DEF IInv
<1> QED BY <1>1, <1>2

LEMMA AnsweredKeeps == IInv /\ Answered => IInv'
<1> SUFFICES ASSUME IInv, Answered PROVE IInv'
  OBVIOUS
<1>1. /\ pc = "await" /\ reply # "none" /\ last' = reply
      /\ UNCHANGED <<settings, cancelled, sent, receiver>>
  BY DEF Answered
<1>2. /\ attempt \in Nat /\ reply \in Statuses /\ attempt \in sent /\ attempt \notin network
      /\ attempt \in accepted <=> reply = "success"
      /\ attempt \in refused <=> reply = "clientError"
  BY <1>1 DEF IInv, TypeOK, Awaited
<1>3. CASE reply = "success" /\ Finish("nil")
  BY <1>1, <1>2, <1>3, FinishKeeps
<1>4. CASE Permanent(reply) /\ Finish("permanent")
  BY <1>1, <1>2, <1>4, FinishKeeps DEF Permanent
<1>5. CASE reply # "success" /\ ~Permanent(reply) /\ Attempt(attempt + 1)
  BY <1>1, <1>2, <1>5, AttemptKeeps
<1> QED BY <1>3, <1>4, <1>5 DEF Answered

\* The environment: only the awaited request's own answer reaches the caller.
LEMMA ProcessKeeps ==
  ASSUME IInv, NEW a \in network, NEW status \in Statuses, Process(a, status)
  PROVE  IInv'
<1> USE DEF Process, call, settings
<1>1. TypeOK'
  BY DEF IInv, TypeOK
<1>2. Awaited'
  <2>1. status \in Statuses /\ status # "none"
    BY DEF Statuses
  <2> QED BY <2>1 DEF IInv, Awaited
<1>3. Counted'
  BY DEF IInv, Counted, Retries
<1>4. Verdict'
  BY DEF IInv, Verdict, NilMeansAccepted, ExhaustedMeansAllSent, PermanentMeansRefused, Retries, Allowed
<1> QED BY <1>1, <1>2, <1>3, <1>4 DEF IInv

LEMMA Inductive == IInv /\ [Next]_vars => IInv'
<1> SUFFICES ASSUME IInv, [Next]_vars PROVE IInv'
  OBVIOUS
<1> USE DEF settings, receiver
<1>1. CASE Notify
  BY <1>1, AttemptKeeps DEF Notify, IInv, TypeOK
<1>2. CASE BackoffElapsed
  BY <1>2 DEF BackoffElapsed, IInv, TypeOK, Awaited, Counted, Verdict, NilMeansAccepted,
              ExhaustedMeansAllSent, PermanentMeansRefused, Retries, Allowed
<1>3. CASE ContextDone
  BY <1>3, FinishKeeps DEF ContextDone, IInv, TypeOK
<1>4. CASE Post
  BY <1>4, PostKeeps
<1>5. CASE Answered
  BY <1>5, AnsweredKeeps
<1>6. CASE NetworkError
  <2>1. attempt + 1 \in Nat
    BY DEF IInv, TypeOK
  <2> QED BY <1>6, <2>1, AttemptKeeps DEF NetworkError
<1>7. CASE Cancel
  BY <1>7 DEF Cancel, call, IInv, TypeOK, Awaited, Counted, Verdict, NilMeansAccepted,
              ExhaustedMeansAllSent, PermanentMeansRefused, Retries, Allowed
<1>8. ASSUME NEW a \in network, NEW status \in Statuses, Process(a, status)
      PROVE  IInv'
  BY <1>8, ProcessKeeps
<1>9. ASSUME NEW a \in network, Lose(a)
      PROVE  IInv'
  BY <1>9 DEF Lose, call, IInv, TypeOK, Awaited, Counted, Verdict, NilMeansAccepted,
              ExhaustedMeansAllSent, PermanentMeansRefused, Retries, Allowed
<1>10. CASE UNCHANGED vars
  BY <1>10 DEF vars, call, IInv, TypeOK, Awaited, Counted, Verdict, NilMeansAccepted,
               ExhaustedMeansAllSent, PermanentMeansRefused, Retries, Allowed
<1> QED BY <1>1, <1>2, <1>3, <1>4, <1>5, <1>6, <1>7, <1>8, <1>9, <1>10 DEF Next, Caller

LEMMA Invariance == Spec => []IInv
  BY Initially, Inductive, PTL DEF Spec

--------------------------------------------------------------------------------
\* The state of a call is of its type, whatever the operator gives as --webhook-retries
\* (notify.go:56-89).
THEOREM TypeCorrect == Spec => []TypeOK
<1>1. IInv => TypeOK
  BY DEF IInv
<1> QED BY <1>1, Invariance, PTL

\* Notify returns nil only after the receiver accepted the request of its last attempt, so that
\* the annotation the reconciler writes afterwards is true (notify.go:79-82).
THEOREM NilIsAcceptance == Spec => []NilMeansAccepted
<1>1. IInv => NilMeansAccepted
  BY DEF IInv, Verdict
<1> QED BY <1>1, Invariance, PTL

\* A call never posts more often than its setting says, the default and the negative ones included;
\* one that gives up has made the last attempt allowed and, with a URL and without a cancellation,
\* has posted all of them (notify.go:61-88, 92-95).
THEOREM GivesUpAfterAll == Spec => []ExhaustedMeansAllSent
<1>1. IInv => ExhaustedMeansAllSent
  BY DEF IInv, Verdict
<1> QED BY <1>1, Invariance, PTL

\* A permanent error is the receiver's own: it refused the awaited attempt with a 4xx other than 429
\* and did not accept it (notify.go:45, 83-87, 117-118).
THEOREM PermanentIsRefusal == Spec => []PermanentMeansRefused
<1>1. IInv => PermanentMeansRefused
  BY DEF IInv, Verdict
<1> QED BY <1>1, Invariance, PTL

--------------------------------------------------------------------------------
(* The contract of notify.Notifier                                            *)

CallState ==
    IF pc = "idle" THEN "idle"
    ELSE IF pc # "done" THEN "running"
    ELSE IF result = "nil" THEN "nil" ELSE "error"

\* The steps of the contract, spelled out for the call.
LEMMA ContractStep ==
  ASSUME \/ CallState' = CallState /\ accepted' = accepted
         \/ CallState = "idle" /\ CallState' \in {"running", "error"} /\ accepted' = accepted
         \/ CallState # "idle" /\ accepted \subseteq accepted' /\ CallState' = CallState
         \/ CallState = "running" /\ accepted # {} /\ CallState' = "nil" /\ accepted' = accepted
         \/ CallState = "running" /\ CallState' = "error" /\ accepted' = accepted
  PROVE  [Contract!Next]_(Contract!vars)
  BY DEF CallState, Contract!Next, Contract!vars, Contract!Begin, Contract!Accept,
         Contract!Return, Contract!ReturnNil, Contract!ReturnError

\* The head of the loop goes on with the call or gives up; a call that is idle begins with it.
LEMMA AttemptOfContract ==
  ASSUME NEW a \in Nat, Attempt(a), pc \in {"idle", "post", "await"}, UNCHANGED accepted,
         result = "none"
  PROVE  [Contract!Next]_(Contract!vars)
  BY ContractStep DEF Attempt, Finish, CallState

\* Every step of the call and of its environment is a step of the contract or leaves its state
\* alone.
LEMMA StepOfContract == IInv /\ [Next]_vars => [Contract!Next]_(Contract!vars)
<1> SUFFICES ASSUME IInv, [Next]_vars PROVE [Contract!Next]_(Contract!vars)
  OBVIOUS
<1> USE DEF receiver
<1>0. attempt \in Nat /\ attempt + 1 \in Nat /\ accepted \subseteq sent
      /\ (result # "none" => pc = "done") /\ (pc = "idle" => sent = {})
  BY DEF IInv, TypeOK, Verdict, Counted
<1>1. CASE Notify
  BY <1>0, <1>1, AttemptOfContract DEF Notify
<1>2. CASE BackoffElapsed
  BY <1>2, ContractStep DEF BackoffElapsed, CallState
<1>3. CASE ContextDone
  BY <1>3, ContractStep DEF ContextDone, Finish, CallState
<1>4. CASE Post
  <2>1. CASE cancelled \/ ~urlParses
    BY <1>0, <1>4, <2>1, AttemptOfContract DEF Post
  <2>2. CASE ~cancelled /\ urlParses
    BY <1>4, <2>2, ContractStep DEF Post, CallState
  <2> QED BY <2>1, <2>2
<1>5. CASE Answered
  <2>1. pc = "await" /\ UNCHANGED accepted
    BY <1>5 DEF Answered
  <2>2. CASE reply = "success" /\ Finish("nil")
    <3>1. accepted # {}
      BY <2>1, <2>2 DEF IInv, Awaited
    <3> QED BY <2>1, <2>2, <3>1, ContractStep DEF Finish, CallState
  <2>3. CASE Permanent(reply) /\ Finish("permanent")
    BY <2>1, <2>3, ContractStep DEF Finish, CallState
  <2>4. CASE Attempt(attempt + 1)
    BY <1>0, <2>1, <2>4, AttemptOfContract
  <2> QED BY <1>5, <2>2, <2>3, <2>4 DEF Answered
<1>6. CASE NetworkError
  BY <1>0, <1>6, AttemptOfContract DEF NetworkError
<1>7. CASE Cancel
  BY <1>7, ContractStep DEF Cancel, call, CallState
<1>8. ASSUME NEW a \in network, NEW status \in Statuses, Process(a, status)
      PROVE  [Contract!Next]_(Contract!vars)
  <2>1. pc # "idle"
    BY DEF IInv, TypeOK, Counted
  <2> QED BY <1>8, <2>1, ContractStep DEF Process, call, CallState
<1>9. ASSUME NEW a \in network, Lose(a)
      PROVE  [Contract!Next]_(Contract!vars)
  BY <1>9, ContractStep DEF Lose, call, CallState
<1>10. CASE UNCHANGED vars
  BY <1>10, ContractStep DEF vars, call, CallState
<1> QED BY <1>1, <1>2, <1>3, <1>4, <1>5, <1>6, <1>7, <1>8, <1>9, <1>10 DEF Next, Caller

\* The call keeps the contract the reconciler is written against, apart from its promise to
\* return, which is a matter of fairness: nil is returned only after an acceptance, an acceptance
\* may come at any time once the call has begun, and a call returns once (notify.go:32-34).
THEOREM KeepsTheContract == Spec => Contract!Init /\ [][Contract!Next]_(Contract!vars)
<1>1. Init => Contract!Init
  BY DEF Init, Contract!Init
<1>2. IInv /\ [Next]_vars => [Contract!Next]_(Contract!vars)
  BY StepOfContract
<1> QED BY <1>1, <1>2, Invariance, PTL DEF Spec
================================================================================
