---------------------------- MODULE ARSerialProofs ----------------------------
(***************************************************************************)
(* What the cash-application workflow of ARRemittance promises when one    *)
(* thread handles one request at a time: every item is closed once,        *)
(* corrections are matched again, no document is applied twice, what is    *)
(* settled stays settled, CashControl is implemented, and the books        *)
(* balance.                                                                *)
(***************************************************************************)
EXTENDS ARRemittanceProofs, Sums

\* One worker thread, which never gives up on a call the ERP still works on.
OneAtATime ==
    /\ \A r, s \in Callers : r = s
    /\ MaxOrphans = 0

---------------------------------------------------------------------------
(* Where a thread's step takes it.                                         *)

\* Every handler step of a thread leaves it on the same remittance, or idle, and
\* at the step the code goes to next.
LEMMA ThreadMoves ==
    ASSUME TypeOK, NEW r \in Callers
    PROVE  /\ RetrievePolicy(r) =>
                req'[r].pc = "request_match" /\ req'[r].rem = req[r].rem
           /\ RunMatch(r) =>
                /\ req'[r].pc = "save_match" /\ req'[r].rem = req[r].rem
                /\ req'[r].matched = Matches(req[r].rem)
           /\ SaveMatch(r) =>
                /\ req'[r].pc = "evaluate_match" /\ req'[r].rem = req[r].rem
                /\ req'[r].matched = req[r].matched
           /\ \A q \in AgentActions : EvaluateMatch(r, q) =>
                /\ req'[r].rem = req[r].rem
                /\ IF RoutesToApply(req[r].matched, q)
                   THEN req'[r].pc = "erp_call"
                   ELSE req'[r].pc = "finalize" /\ req'[r].matched = req[r].matched
           /\ Finalize(r) \/ RunFails(r) \/ SetPosted(r) \/ Close(r)
                => req'[r].pc = "idle"
           /\ SendCash(r) => req'[r].pc = "await_erp" /\ req'[r].rem = req[r].rem
           /\ \A c \in cashCalls :
                /\ ReceiveCash(r, c) =>
                     /\ req'[r].pc = "set_posted" /\ req'[r].rem = req[r].rem
                     /\ req'[r].answer = c.application
                /\ CashLost(r, c) \/ CashTimesOut(r, c) => req'[r].pc = "idle"
           /\ Correct(r) => req'[r].pc = "retrieve_policy" /\ req'[r].rem = req[r].rem
           /\ ApproveApply(r) =>
                IF MayApprove(req[r].rem)
                THEN req'[r].pc = "erp_call" /\ req'[r].rem = req[r].rem
                ELSE req'[r].pc = "idle"
<1>1. req \in [Callers -> Request] /\ req[r] \in Request /\ req[r].rem \in Remittances
  BY DEF TypeOK, Request
<1>2. ASSUME NEW pc \in ArSteps, Goto(r, pc)
      PROVE  /\ req'[r].pc = pc
             /\ req'[r].rem = req[r].rem
             /\ req'[r].matched = req[r].matched
  BY <1>1, <1>2, ReqFrame
<1>3. ASSUME NEW pc \in ArSteps, Become(r, Active(r, pc, req[r].rem))
      PROVE  req'[r].pc = pc /\ req'[r].rem = req[r].rem
  <2>1. req'[r] = Active(r, pc, req[r].rem)
    BY <1>1, <1>3 DEF Become
  <2>2. QED
    BY <1>1, <2>1, RequestTypes
<1>4. ASSUME Finish(r) PROVE req'[r].pc = "idle"
  BY <1>1, <1>4, ReqFrame
<1>5. {"request_match", "evaluate_match", "await_erp", "erp_call", "retrieve_policy"}
        \subseteq ArSteps
  BY DEF ArSteps
<1>6. RetrievePolicy(r) => req'[r].pc = "request_match" /\ req'[r].rem = req[r].rem
  BY <1>2, <1>5 DEF RetrievePolicy
<1>7. RunMatch(r) =>
        /\ req'[r].pc = "save_match" /\ req'[r].rem = req[r].rem
        /\ req'[r].matched = Matches(req[r].rem)
  BY <1>1 DEF RunMatch, Request
<1>8. SaveMatch(r) =>
        /\ req'[r].pc = "evaluate_match" /\ req'[r].rem = req[r].rem
        /\ req'[r].matched = req[r].matched
  BY <1>2, <1>5 DEF SaveMatch
<1>9. ASSUME NEW q \in AgentActions, EvaluateMatch(r, q)
      PROVE  /\ req'[r].rem = req[r].rem
             /\ IF RoutesToApply(req[r].matched, q)
                THEN req'[r].pc = "erp_call"
                ELSE req'[r].pc = "finalize" /\ req'[r].matched = req[r].matched
  <2>1. CASE RoutesToApply(req[r].matched, q)
    BY <1>3, <1>5, <1>9, <2>1 DEF EvaluateMatch
  <2>2. CASE ~RoutesToApply(req[r].matched, q)
    <3>1. req'[r] = [req[r] EXCEPT !.pc = "finalize", !.requested = q]
      BY <1>1, <1>9, <2>2 DEF EvaluateMatch, Become
    <3>2. QED
      BY <1>1, <2>2, <3>1 DEF Request
  <2>3. QED
    BY <2>1, <2>2
<1>10. Finalize(r) \/ RunFails(r) \/ SetPosted(r) \/ Close(r) => req'[r].pc = "idle"
  BY <1>4 DEF Finalize, RunFails, SetPosted, Close
<1>11. SendCash(r) => req'[r].pc = "await_erp" /\ req'[r].rem = req[r].rem
  BY <1>2, <1>5 DEF SendCash
<1>12. \A c \in cashCalls :
         /\ ReceiveCash(r, c) =>
              /\ req'[r].pc = "set_posted" /\ req'[r].rem = req[r].rem
              /\ req'[r].answer = c.application
         /\ CashLost(r, c) \/ CashTimesOut(r, c) => req'[r].pc = "idle"
  BY <1>1, <1>4 DEF ReceiveCash, CashLost, CashTimesOut, Request
<1>13. Correct(r) => req'[r].pc = "retrieve_policy" /\ req'[r].rem = req[r].rem
  BY <1>3, <1>5 DEF Correct
<1>14. ApproveApply(r) =>
         IF MayApprove(req[r].rem)
         THEN req'[r].pc = "erp_call" /\ req'[r].rem = req[r].rem
         ELSE req'[r].pc = "idle"
  BY <1>3, <1>4, <1>5 DEF ApproveApply
<1>15. QED
  BY <1>6, <1>7, <1>8, <1>9, <1>10, <1>11, <1>12, <1>13, <1>14

---------------------------------------------------------------------------
(* One thread, one call: what is settled stays settled.                    *)

\* A thread works on remittances that are not settled.
ThreadsSeeStatus ==
    \A r \in Callers :
        req[r].pc # "idle" => status[req[r].rem] \notin Settled \cup {"absent"}

\* A call is awaited until it has been answered.
CallsAreLive == \A c \in cashCalls : c.live

ThreadInv == CallsAreAwaited /\ ThreadsSeeStatus /\ CallsAreLive

\* Initially the thread is idle and the ERP has no calls.
LEMMA ThreadInit == Init => ThreadInv
BY AwaitedInit, RequestTypes
DEF Init, ErpInit, ThreadInv, ThreadsSeeStatus, CallsAreLive

\* So there is one call at most, and the thread waits for it.
LEMMA OneCall ==
    ASSUME OneAtATime, TypeOK, ThreadInv
    PROVE  \A c \in cashCalls :
             /\ c \in CashCall /\ c.rem \in Remittances
             /\ \A d \in cashCalls : d = c
             /\ \A r \in Callers : req[r].pc = "await_erp" /\ req[r].rem = c.rem
<1>1. \A c \in cashCalls : c \in CashCall /\ c.caller \in Callers /\ c.rem \in Remittances
  BY DEF TypeOK, ErpTypeOK, CashCall
<1>2. QED
  BY <1>1 DEF OneAtATime, ThreadInv, CallsAreAwaited, CallsAreLive

\* A handler writes the status of the remittance its thread works on, and writes
\* no settled status without ending the request.
LEMMA StatusMoves ==
    ASSUME TypeOK, NEW r \in Callers, HandlerStep(r)
    PROVE  /\ \A m \in Remittances : status'[m] # status[m] =>
                req[r].pc # "idle" /\ m = req[r].rem
           /\ req'[r].pc # "idle" =>
                /\ req[r].pc # "idle"
                /\ req'[r].rem = req[r].rem
                /\ \/ status'[req[r].rem] = status[req[r].rem]
                   \/ status'[req[r].rem] \notin Settled \cup {"absent"}
<1> DEFINE Goal ==
             /\ \A m \in Remittances : status'[m] # status[m] =>
                  req[r].pc # "idle" /\ m = req[r].rem
             /\ req'[r].pc # "idle" =>
                  /\ req[r].pc # "idle"
                  /\ req'[r].rem = req[r].rem
                  /\ \/ status'[req[r].rem] = status[req[r].rem]
                     \/ status'[req[r].rem] \notin Settled \cup {"absent"}
<1> SUFFICES Goal
  OBVIOUS
<1>1. /\ status \in [Remittances -> Status \cup {"absent"}]
      /\ req[r].rem \in Remittances
  BY DEF TypeOK, Request
<1>2. CASE RetrievePolicy(r) \/ RunMatch(r)
  BY <1>2, ThreadMoves DEF RetrievePolicy, RunMatch, At
<1>3. CASE SaveMatch(r)
  BY <1>1, <1>3, ThreadMoves DEF SaveMatch, At, Settled
<1>4. ASSUME NEW q \in AgentActions, EvaluateMatch(r, q) PROVE Goal
  BY <1>4, ThreadMoves DEF EvaluateMatch, At
<1>5. CASE Finalize(r) \/ SetPosted(r) \/ Close(r)
  BY <1>1, <1>5, ThreadMoves DEF Finalize, SetPosted, Close, At
<1>6. CASE RunFails(r)
  BY <1>6, ThreadMoves DEF RunFails
<1>7. CASE SendCash(r)
  BY <1>7, ThreadMoves DEF SendCash, At
<1>8. ASSUME NEW c \in cashCalls, ReceiveCash(r, c) \/ CashLost(r, c) \/ CashTimesOut(r, c)
      PROVE  Goal
  BY <1>8, ThreadMoves DEF ReceiveCash, CashLost, CashTimesOut, At
<1>9. CASE Correct(r)
  BY <1>1, <1>9, ThreadMoves DEF Correct, At, Settled
<1>10. CASE ApproveApply(r)
  BY <1>10, ThreadMoves DEF ApproveApply, At
<1> HIDE DEF Goal
<1>11. QED
  BY <1>2, <1>3, <1>4, <1>5, <1>6, <1>7, <1>8, <1>9, <1>10 DEF HandlerStep

\* Nor does a new request: it ingests an absent remittance, or writes nothing.
LEMMA NewStatusMoves ==
    ASSUME TypeOK, NEW r \in Callers, NEW m \in Remittances, NewRequest(r, m)
    PROVE  /\ \A n \in Remittances : status'[n] # status[n] =>
                n = m /\ status[n] = "absent"
           /\ status'[m] \notin Settled \cup {"absent"}
<1>1. status \in [Remittances -> Status \cup {"absent"}]
  BY DEF TypeOK
<1>2. ASSUME NEW k \in Contents, Ingest(r, m, k)
      PROVE  status[m] = "absent" /\ status' = [status EXCEPT ![m] = "EXTRACTED"]
  BY <1>2 DEF Ingest, Ingested
<1>3. ASSUME NEW d \in Decisions, NEW k \in Corrections(d), StartDecision(r, m, d, k)
      PROVE  status' = status /\ status[m] \in Reviewable
  BY <1>3 DEF StartDecision, MayDecide
<1>4. QED
  BY <1>1, <1>2, <1>3 DEF NewRequest, Settled, Reviewable

\* Every step preserves the invariant.
LEMMA ThreadStep ==
    ASSUME OneAtATime
    PROVE  TypeOK /\ ThreadInv /\ [Next]_vars => ThreadInv'
<1> SUFFICES ASSUME TypeOK, ThreadInv, [Next]_vars PROVE ThreadInv'
  OBVIOUS
<1>1. CallsAreAwaited'
  BY AwaitedStep DEF ThreadInv
<1>2. \A r, s \in Callers : r = s
  BY DEF OneAtATime
<1>3. ASSUME NEW r \in Callers, HandlerStep(r)
      PROVE  ThreadsSeeStatus' /\ CallsAreLive'
  <2>1. ThreadsSeeStatus'
    <3>1. req[r].rem \in Remittances
      BY DEF TypeOK, Request
    <3>2. QED
      BY <3>1, <1>2, <1>3, StatusMoves DEF ThreadInv, ThreadsSeeStatus
  <2>2. CASE SendCash(r)
    BY <2>1, <2>2 DEF SendCash, ThreadInv, CallsAreLive
  <2>3. CASE \E c \in cashCalls : CashTimesOut(r, c)
    <3>1. {d \in cashCalls : ~d.live} = {}
      BY DEF ThreadInv, CallsAreLive
    <3>2. Cardinality({d \in cashCalls : ~d.live}) = 0
      BY <3>1, FS_EmptySet
    <3>3. QED
      BY <2>3, <3>2 DEF CashTimesOut, OneAtATime
  <2>4. CASE ~SendCash(r) /\ ~\E c \in cashCalls : CashTimesOut(r, c)
    <3>1. cashCalls' \subseteq cashCalls
      BY <1>3, <2>4
      DEF HandlerStep, RetrievePolicy, RunMatch, SaveMatch, EvaluateMatch, Finalize,
          RunFails, ReceiveCash, CashLost, SetPosted, Close, Correct, ApproveApply,
          erpVars
    <3>2. QED
      BY <2>1, <3>1 DEF ThreadInv, CallsAreLive
  <2>5. QED
    BY <2>2, <2>3, <2>4
<1>4. ASSUME NEW r \in Callers, ErpServes(r)
      PROVE  ThreadsSeeStatus' /\ CallsAreLive'
  <2>1. PICK c \in cashCalls : CashStep(c) /\ UNCHANGED arVars
    BY <1>4 DEF ErpServes
  <2>2. \A d \in cashCalls' : d \in cashCalls \/ d.live = c.live
    BY <2>1, ErpServesOneCall DEF TypeOK, ErpTypeOK
  <2>3. QED
    BY <2>1, <2>2 DEF ThreadInv, ThreadsSeeStatus, CallsAreLive, arVars
<1>5. ASSUME NEW r \in Callers, NEW m \in Remittances, NewRequest(r, m)
      PROVE  ThreadsSeeStatus' /\ CallsAreLive'
  <2>1. req'[r].rem = m /\ cashCalls' = cashCalls
    BY <1>5, NewRequestFrame DEF erpVars
  <2>2. QED
    BY <1>2, <1>5, <2>1, NewStatusMoves DEF ThreadInv, ThreadsSeeStatus, CallsAreLive
<1>6. CASE UNCHANGED vars
  BY <1>1, <1>6 DEF vars, arVars, erpVars, ThreadInv, ThreadsSeeStatus, CallsAreLive
<1>7. QED
  BY <1>1, <1>3, <1>4, <1>5, <1>6 DEF Next, ThreadInv

\* The invariant holds of every run.
LEMMA ThreadInvariant ==
    ASSUME OneAtATime PROVE Spec => [](TypeOK /\ ThreadInv)
<1>1. TypeOK /\ ThreadInv /\ [Next]_vars => ThreadInv'
  BY ThreadStep
<1>2. QED
  BY TypeInit, TypeStep, ThreadInit, <1>1, PTL DEF Spec

\* One request at a time, a posted, rejected or resolved remittance stays so.
THEOREM SettledStaysSettled == ASSUME OneAtATime PROVE Spec => SettledIsFinal
<1> DEFINE Final == \A m \in Remittances :
             status[m] \in Settled => status'[m] = status[m]
<1>1. ASSUME TypeOK, ThreadInv, [Next]_vars PROVE Final
  <2>1. ASSUME NEW r \in Callers, HandlerStep(r) PROVE Final
    BY <1>1, <2>1, StatusMoves DEF ThreadInv, ThreadsSeeStatus
  <2>2. ASSUME NEW r \in Callers, ErpServes(r) PROVE Final
    BY <2>2 DEF ErpServes, arVars
  <2>3. ASSUME NEW r \in Callers, NEW m \in Remittances, NewRequest(r, m) PROVE Final
    BY <1>1, <2>3, NewStatusMoves DEF Settled
  <2>4. CASE UNCHANGED vars
    BY <2>4 DEF vars, arVars
  <2>5. QED
    BY <1>1, <2>1, <2>2, <2>3, <2>4 DEF Next
<1>2. TypeOK /\ ThreadInv /\ [Next]_vars => [Final]_vars
  BY <1>1
<1>3. QED
  BY ThreadInvariant, <1>2, PTL DEF Spec, SettledIsFinal
---------------------------------------------------------------------------
(* What is applied has passed the match with the fields it has now.        *)

MatchIsCurrent ==
    /\ \A r \in Callers :
         req[r].pc \in {"save_match", "evaluate_match", "finalize"} /\ req[r].matched
             => "match" \in current[req[r].rem]
    /\ \A m \in Remittances : TRUE \in result[m] => "match" \in current[m]

SentIsCurrent ==
    /\ \A r \in Callers : req[r].pc \in {"erp_call", "await_erp", "set_posted"}
         => Sufficient(current[req[r].rem])
    /\ \A c \in cashCalls : c.content = content[c.rem]

CurrentInv == MatchIsCurrent /\ SentIsCurrent

\* Initially nothing has been matched or sent.
LEMMA CurrentInit == Init => CurrentInv
BY RequestTypes
DEF Init, ErpInit, CurrentInv, MatchIsCurrent, SentIsCurrent

\* A thread's step preserves it: a correction takes the evidence away, and the
\* saved result with it.
LEMMA CurrentHandlerStep ==
    ASSUME OneAtATime, TypeOK, ThreadInv, CurrentInv,
           NEW r \in Callers, HandlerStep(r)
    PROVE  CurrentInv'
<1> USE DEF CurrentInv
<1>1. /\ result \in [Remittances -> SUBSET BOOLEAN]
      /\ current \in [Remittances -> SUBSET Evidence]
      /\ content \in [Remittances -> Contents]
      /\ req[r].rem \in Remittances
      /\ req[r].matched \in BOOLEAN
  BY DEF TypeOK, Request
<1>2. \A s \in Callers : s = r
  BY DEF OneAtATime
<1>3. settings' = settings
  BY HandlerFrame
<1>4. \A c \in cashCalls : c.rem \in Remittances
  BY OneCall
  \* A step that writes no fields and takes no evidence away.
<1>5. ASSUME \/ UNCHANGED result
             \/ \E b \in SUBSET BOOLEAN :
                  /\ result' = [result EXCEPT ![req[r].rem] = b]
                  /\ TRUE \in b => "match" \in current[req[r].rem],
             UNCHANGED <<content, current>>,
             \A c \in cashCalls' :
               \/ \E d \in cashCalls : d.rem = c.rem /\ d.content = c.content
               \/ c.rem = req[r].rem /\ c.content = content[req[r].rem],
             req'[r].pc \in {"save_match", "evaluate_match", "finalize"}
               /\ req'[r].matched => "match" \in current[req'[r].rem],
             req'[r].pc \in {"erp_call", "await_erp", "set_posted"}
               => Sufficient(current[req'[r].rem])
      PROVE  CurrentInv'
  <2>1. MatchIsCurrent'
    BY <1>1, <1>2, <1>5 DEF MatchIsCurrent
  <2>2. SentIsCurrent'
    BY <1>1, <1>2, <1>3, <1>4, <1>5 DEF SentIsCurrent, Sufficient
  <2>3. QED
    BY <2>1, <2>2
<1>6. CASE RetrievePolicy(r) \/ RunFails(r) \/ Close(r)
  <2>1. UNCHANGED <<result, content, current, cashCalls>>
    BY <1>6 DEF RetrievePolicy, RunFails, Close, erpVars
  <2>2. req'[r].pc \in {"request_match", "idle"}
    BY <1>6, ThreadMoves
  <2>3. QED
    BY <2>1, <2>2, <1>5
<1>7. CASE RunMatch(r)
  <2>1. /\ req'[r].pc = "save_match"
        /\ req'[r].rem = req[r].rem
        /\ req'[r].matched = Matches(req[r].rem)
    BY <1>7, ThreadMoves
  <2>2. /\ UNCHANGED <<result, content, cashCalls>>
        /\ \A m \in Remittances : current[m] \subseteq current'[m]
        /\ Matches(req[r].rem) => "match" \in current'[req[r].rem]
    BY <1>1, <1>7 DEF RunMatch, Record, erpVars
  <2>3. MatchIsCurrent'
    BY <1>1, <1>2, <2>1, <2>2 DEF MatchIsCurrent
  <2>4. SentIsCurrent'
    BY <1>2, <2>1, <2>2 DEF SentIsCurrent
  <2>5. QED
    BY <2>3, <2>4
<1>8. CASE SaveMatch(r)
  <2>1. /\ req'[r].pc = "evaluate_match"
        /\ req'[r].rem = req[r].rem
        /\ req'[r].matched = req[r].matched
    BY <1>8, ThreadMoves
  <2>2. req[r].matched => "match" \in current[req[r].rem]
    BY <1>8 DEF SaveMatch, At, MatchIsCurrent
  <2>3. /\ result' = [result EXCEPT ![req[r].rem] = {req[r].matched}]
        /\ UNCHANGED <<content, current, cashCalls>>
    BY <1>8 DEF SaveMatch, erpVars
  <2>4. /\ {req[r].matched} \in SUBSET BOOLEAN
        /\ TRUE \in {req[r].matched} => "match" \in current[req[r].rem]
    BY <1>1, <2>2
  <2>5. QED
    BY <2>1, <2>2, <2>3, <2>4, <1>5
<1>9. ASSUME NEW q \in AgentActions, EvaluateMatch(r, q) PROVE CurrentInv'
  <2>1. UNCHANGED <<result, content, current, cashCalls>>
    BY <1>9 DEF EvaluateMatch, erpVars
  <2>2. req[r].matched => "match" \in current[req[r].rem]
    BY <1>9 DEF EvaluateMatch, At, MatchIsCurrent
  <2>3. CASE RoutesToApply(req[r].matched, q)
    <3>1. req'[r].pc = "erp_call" /\ req'[r].rem = req[r].rem
      BY <1>9, <2>3, ThreadMoves
    <3>2. Sufficient(current[req[r].rem])
      BY <2>2, <2>3 DEF RoutesToApply, AutoActionPermitted, Sufficient
    <3>3. QED
      BY <2>1, <3>1, <3>2, <1>5
  <2>4. CASE ~RoutesToApply(req[r].matched, q)
    <3>1. /\ req'[r].pc = "finalize"
          /\ req'[r].rem = req[r].rem
          /\ req'[r].matched = req[r].matched
      BY <1>9, <2>4, ThreadMoves
    <3>2. QED
      BY <2>1, <2>2, <3>1, <1>5
  <2>5. QED
    BY <2>3, <2>4
<1>10. CASE Finalize(r)
  <2> DEFINE gated == ApprovalRequired(req[r].matched, req[r].requested)
  <2>1. /\ UNCHANGED <<content, current, cashCalls>>
        /\ result' = [result EXCEPT ![req[r].rem] = IF gated THEN {TRUE} ELSE @]
    BY <1>10 DEF Finalize, erpVars
  <2>2. gated => "match" \in current[req[r].rem]
    BY <1>10 DEF Finalize, At, ApprovalRequired, MatchIsCurrent
  <2>3. req'[r].pc = "idle"
    BY <1>10, ThreadMoves
  <2> HIDE DEF gated
  <2>4. CASE gated
    <3>1. {TRUE} \in SUBSET BOOLEAN
      OBVIOUS
    <3>2. QED
      BY <2>1, <2>2, <2>3, <2>4, <3>1, <1>5
  <2>5. CASE ~gated
    <3>1. result' = result
      BY <2>1, <2>5, <1>1
    <3>2. QED
      BY <2>1, <2>3, <3>1, <1>5
  <2>6. QED
    BY <2>4, <2>5
<1>11. CASE SendCash(r)
  <2>1. /\ UNCHANGED <<result, content, current>>
        /\ \A c \in cashCalls' :
             \/ c \in cashCalls
             \/ c.rem = req[r].rem /\ c.content = content[req[r].rem]
    BY <1>11 DEF SendCash
  <2>2. req'[r].pc = "await_erp" /\ req'[r].rem = req[r].rem
    BY <1>11, ThreadMoves
  <2>3. Sufficient(current[req[r].rem])
    BY <1>11 DEF SendCash, At, SentIsCurrent
  <2>4. QED
    BY <2>1, <2>2, <2>3, <1>5
<1>12. ASSUME NEW c \in cashCalls,
              ReceiveCash(r, c) \/ CashLost(r, c) \/ CashTimesOut(r, c)
       PROVE  CurrentInv'
  <2>1. [c EXCEPT !.live = FALSE].rem = c.rem
        /\ [c EXCEPT !.live = FALSE].content = c.content
    BY OneCall DEF CashCall
  <2>2. /\ UNCHANGED <<result, content, current>>
        /\ \A d \in cashCalls' :
             \E e \in cashCalls : e.rem = d.rem /\ e.content = d.content
    BY <1>12, <2>1 DEF ReceiveCash, CashLost, CashTimesOut
  <2>3. /\ req'[r].pc \in {"idle", "set_posted"}
        /\ req'[r].pc = "set_posted" =>
             req'[r].rem = req[r].rem /\ Sufficient(current[req[r].rem])
    BY <1>12, ThreadMoves DEF ReceiveCash, CashLost, CashTimesOut, At, SentIsCurrent
  <2>4. QED
    BY <2>2, <2>3, <1>5
<1>13. CASE SetPosted(r)
  <2>1. "match" \in current[req[r].rem]
    BY <1>13 DEF SetPosted, At, SentIsCurrent, Sufficient
  <2>2. /\ result' = [result EXCEPT ![req[r].rem] = {TRUE}]
        /\ UNCHANGED <<content, current, cashCalls>>
    BY <1>13 DEF SetPosted, erpVars
  <2>3. {TRUE} \in SUBSET BOOLEAN /\ req'[r].pc = "idle"
    BY <1>13, ThreadMoves
  <2>4. QED
    BY <2>1, <2>2, <2>3, <1>5
<1>14. CASE Correct(r)
  <2>1. req'[r].pc = "retrieve_policy" /\ req[r].pc = "decide"
    BY <1>14, ThreadMoves DEF Correct, At
  <2>2. /\ result' = [result EXCEPT ![req[r].rem] = {}]
        /\ current' = [current EXCEPT ![req[r].rem] = {}]
    BY <1>14 DEF Correct
  <2>3. cashCalls = {} /\ cashCalls' = cashCalls
    BY <1>14, <2>1, OneCall DEF Correct, erpVars
  <2>4. MatchIsCurrent'
    BY <1>1, <1>2, <2>1, <2>2 DEF MatchIsCurrent
  <2>5. SentIsCurrent'
    BY <1>2, <2>1, <2>3 DEF SentIsCurrent
  <2>6. QED
    BY <2>4, <2>5
<1>15. CASE ApproveApply(r)
  <2>1. /\ UNCHANGED <<result, content, cashCalls>>
        /\ \A m \in Remittances : current[m] \subseteq current'[m]
        /\ MayApprove(req[r].rem) => "approval" \in current'[req[r].rem]
    BY <1>1, <1>15 DEF ApproveApply, Record, erpVars
  <2>2. MayApprove(req[r].rem) => "match" \in current[req[r].rem]
    BY <1>1 DEF MayApprove, MatchIsCurrent
  <2>3. \/ req'[r].pc = "idle"
        \/ MayApprove(req[r].rem) /\ req'[r].pc = "erp_call" /\ req'[r].rem = req[r].rem
    BY <1>15, ThreadMoves
  <2>4. MatchIsCurrent'
    BY <1>2, <2>1, <2>3 DEF MatchIsCurrent
  <2>5. SentIsCurrent'
    BY <1>1, <1>2, <2>1, <2>2, <2>3 DEF SentIsCurrent, Sufficient
  <2>6. QED
    BY <2>4, <2>5
<1>16. QED
  BY <1>6, <1>7, <1>8, <1>9, <1>10, <1>11, <1>12, <1>13, <1>14, <1>15 DEF HandlerStep

\* Every step preserves it.
LEMMA CurrentStep ==
    ASSUME OneAtATime
    PROVE  TypeOK /\ ThreadInv /\ CurrentInv /\ [Next]_vars => CurrentInv'
<1> SUFFICES ASSUME TypeOK, ThreadInv, CurrentInv, [Next]_vars PROVE CurrentInv'
  OBVIOUS
<1> USE DEF CurrentInv, MatchIsCurrent, SentIsCurrent, Sufficient
<1>1. \A r, s \in Callers : r = s
  BY DEF OneAtATime
<1>2. ASSUME NEW r \in Callers, ErpServes(r) PROVE CurrentInv'
  <2>1. PICK c \in cashCalls : CashStep(c) /\ UNCHANGED arVars
    BY <1>2 DEF ErpServes
  <2>2. settings' = settings
    BY <2>1 DEF CashStep, CashReplay, CashRefuse, CashCheck, CashClose, CashFile
  <2>3. \A d \in cashCalls' : d \in cashCalls \/ (d.rem = c.rem /\ d.content = c.content)
    BY <2>1, OneCall, ErpServesOneCall
  <2>4. QED
    BY <2>1, <2>2, <2>3 DEF arVars
<1>3. ASSUME NEW r \in Callers, NEW m \in Remittances, NewRequest(r, m)
      PROVE  CurrentInv'
  <2>1. /\ req[r].pc = "idle"
        /\ req'[r].pc \in {"retrieve_policy", "decide"}
        /\ UNCHANGED <<settings, cashCalls, result, current>>
    BY <1>3, NewRequestFrame DEF erpVars
  <2>2. cashCalls = {}
    BY <2>1, OneCall
  <2>3. QED
    BY <1>1, <2>1, <2>2
<1>4. CASE UNCHANGED vars
  BY <1>4 DEF vars, arVars, erpVars
<1>5. QED
  BY <1>2, <1>3, <1>4, CurrentHandlerStep DEF Next

---------------------------------------------------------------------------
(* No item is closed twice.                                                *)

\* An item that is open has not been closed, and a call that is about to close
\* items has found all of them open.
ItemsInv ==
    /\ \A x \in openItems : timesClosed[x] = 0
    /\ \A c \in cashCalls : c.phase = "close" => Range(c.content.refs) \subseteq openItems
    /\ ItemClosedOnce

\* Initially all items are open.
LEMMA ItemsInit == Init => ItemsInv
BY DEF Init, ErpInit, ItemsInv, ItemClosedOnce

\* Every step preserves the invariant: between a call's check and its closing of
\* the items no other call is served.
LEMMA ItemsStep ==
    ASSUME OneAtATime
    PROVE  TypeOK /\ ThreadInv /\ ItemsInv /\ [Next]_vars => ItemsInv'
<1> SUFFICES ASSUME TypeOK, ThreadInv, ItemsInv, [Next]_vars PROVE ItemsInv'
  OBVIOUS
<1> USE DEF ItemsInv, ItemClosedOnce
<1>1. openItems \subseteq Items /\ timesClosed \in [Items -> Nat]
  BY DEF TypeOK, ErpTypeOK
<1>2. ASSUME NEW r \in Callers, ErpServes(r) PROVE ItemsInv'
  <2>1. PICK c \in cashCalls : CashStep(c) /\ UNCHANGED arVars
    BY <1>2 DEF ErpServes
  <2>2. c \in CashCall /\ \A d \in cashCalls : d = c
    BY OneCall
  <2>3. CASE CashCheck(c)
    <3>1. \A d \in cashCalls' : d.content = c.content
      BY <2>2, <2>3 DEF CashCheck, CashCall
    <3>2. Range(c.content.refs) \subseteq openItems
      BY <2>3 DEF CashCheck, Applicable
    <3>3. UNCHANGED <<openItems, timesClosed>>
      BY <2>3 DEF CashCheck
    <3>4. QED
      BY <3>1, <3>2, <3>3
  <2>4. CASE CashClose(c)
    <3> DEFINE named == Range(c.content.refs)
    <3>1. /\ openItems' = openItems \ named
          /\ timesClosed' = [x \in Items |-> timesClosed[x] + (IF x \in named THEN 1 ELSE 0)]
          /\ named \subseteq openItems
      BY <2>4 DEF CashClose
    <3>2. \A d \in cashCalls' : d.phase = "file"
      BY <2>2, <2>4 DEF CashClose, CashCall
    <3> HIDE DEF named
    <3>3. \A x \in openItems' : timesClosed'[x] = 0
      BY <1>1, <3>1
    <3>4. \A x \in Items : timesClosed'[x] <= 1
      BY <1>1, <3>1
    <3>5. QED
      BY <3>2, <3>3, <3>4
  <2>5. CASE CashReplay(c) \/ CashRefuse(c) \/ CashFile(c)
    <3>1. UNCHANGED <<openItems, timesClosed>>
      BY <2>5 DEF CashReplay, CashRefuse, CashFile
    <3>2. \A a : [c EXCEPT !.phase = "answered", !.application = a].phase = "answered"
      BY <2>2 DEF CashCall
    <3>3. ASSUME NEW a, Answer(c, a) PROVE \A d \in cashCalls' : d.phase = "answered"
      BY <2>2, <3>2, <3>3 DEF Answer
    <3>4. \A d \in cashCalls' : d.phase = "answered"
      BY <2>5, <3>3 DEF CashReplay, CashRefuse, CashFile
    <3>5. QED
      BY <3>1, <3>4
  <2>6. QED
    BY <2>1, <2>3, <2>4, <2>5 DEF CashStep
<1>3. ASSUME NEW r \in Callers, HandlerStep(r) PROVE ItemsInv'
  <2>1. UNCHANGED <<openItems, timesClosed>>
    BY <1>3, HandlerFrame
  <2>2. \A c \in cashCalls :
          /\ [c EXCEPT !.live = FALSE].content = c.content
          /\ [c EXCEPT !.live = FALSE].phase = c.phase
    BY OneCall DEF CashCall
  <2>3. \A c \in cashCalls' : c.phase = "close" =>
          \E d \in cashCalls : d.phase = "close" /\ d.content = c.content
    <3>1. CASE SendCash(r)
      BY <3>1 DEF SendCash
    <3>2. CASE \E c \in cashCalls : CashTimesOut(r, c)
      BY <2>2, <3>2 DEF CashTimesOut
    <3>3. CASE ~SendCash(r) /\ ~\E c \in cashCalls : CashTimesOut(r, c)
      BY <1>3, <3>3
      DEF HandlerStep, RetrievePolicy, RunMatch, SaveMatch, EvaluateMatch, Finalize,
          RunFails, ReceiveCash, CashLost, SetPosted, Close, Correct, ApproveApply,
          erpVars
    <3>4. QED
      BY <3>1, <3>2, <3>3
  <2>4. QED
    BY <2>1, <2>3
<1>4. ASSUME NEW r \in Callers, NEW m \in Remittances, NewRequest(r, m)
      PROVE  ItemsInv'
  BY <1>4, NewRequestFrame DEF erpVars
<1>5. CASE UNCHANGED vars
  BY <1>5 DEF vars, erpVars
<1>6. QED
  BY <1>2, <1>3, <1>4, <1>5 DEF Next

\* One request at a time, no open item is closed by two applications.
THEOREM ItemsCloseOnce == ASSUME OneAtATime PROVE Spec => []ItemClosedOnce
<1>1. TypeOK /\ ThreadInv /\ ItemsInv /\ [Next]_vars => ItemsInv'
  BY ItemsStep
<1>2. ItemsInv => ItemClosedOnce
  BY DEF ItemsInv
<1>3. QED
  BY ThreadInvariant, ItemsInit, <1>1, <1>2, PTL DEF Spec

---------------------------------------------------------------------------
(* With the in-process ERP: what is applied is posted, as it was applied.  *)

\* The application of m is on its way to the workflow.
OnItsWay(m) ==
    \E r \in Callers :
        /\ req[r].rem = m
        /\ \/ req[r].pc = "set_posted" /\ req[r].answer # NoApplication
           \/ /\ req[r].pc = "await_erp"
              /\ \E c \in cashCalls : c.phase = "answered" /\ c.application # NoApplication

\* The in-process ERP loses no answer.
AppliedIsSeen ==
    ~settings.http => \A m \in Remittances : Applied(m) =>
        /\ status[m] = "POSTED" \/ OnItsWay(m)
        /\ cashByRemittance[m].content = content[m]

\* Initially nothing has been applied.
LEMMA SeenInit == Init => AppliedIsSeen
BY DEF Init, ErpInit, AppliedIsSeen, Applied

\* A thread that is not being answered works on a remittance that has not been
\* applied.
LEMMA NotAppliedYet ==
    ASSUME OneAtATime, TypeOK, ThreadInv, AppliedIsSeen, ~settings.http,
           NEW r \in Callers, req[r].pc \notin {"idle", "await_erp", "set_posted"}
    PROVE  ~Applied(req[r].rem)
<1>1. req[r].rem \in Remittances
  BY DEF TypeOK, Request
<1>2. status[req[r].rem] # "POSTED"
  BY DEF ThreadInv, ThreadsSeeStatus, Settled
<1>3. ~OnItsWay(req[r].rem)
  BY DEF OneAtATime, OnItsWay
<1>4. QED
  BY <1>1, <1>2, <1>3 DEF AppliedIsSeen

\* A step of the ERP preserves it: it answers with the application it has made
\* under the fields the call carries, and nobody has changed them since.
LEMMA SeenErpStep ==
    ASSUME OneAtATime, TypeOK, ThreadInv, CurrentInv, AppliedIsSeen,
           NEW r \in Callers, ErpServes(r)
    PROVE  AppliedIsSeen'
<1> SUFFICES ASSUME ~settings'.http PROVE AppliedIsSeen'
  BY DEF AppliedIsSeen
<1>1. PICK c \in cashCalls : CashStep(c) /\ UNCHANGED arVars
  BY DEF ErpServes
<1>2. /\ c \in CashCall /\ c.rem \in Remittances
      /\ \A d \in cashCalls : d = c
      /\ req[r].pc = "await_erp" /\ req[r].rem = c.rem
  BY OneCall
<1>3. ~settings.http
  BY <1>1 DEF CashStep, CashReplay, CashRefuse, CashCheck, CashClose, CashFile
<1>4. cashByRemittance \in [Remittances -> Application \cup {NoApplication}]
  BY DEF TypeOK, ErpTypeOK
<1>5. UNCHANGED <<status, req, content>>
  BY <1>1 DEF arVars
<1>6. c.phase # "answered"
  BY <1>1 DEF CashStep, CashReplay, CashRefuse, CashCheck, CashClose, CashFile
  \* The answer to c has not been given yet, so nothing is on its way.
<1>7. \A m \in Remittances : ~OnItsWay(m)
  BY <1>2, <1>6 DEF OnItsWay, OneAtATime
<1>8. ~Applied(c.rem)
  BY <1>2, <1>3, <1>7 DEF AppliedIsSeen, ThreadInv, ThreadsSeeStatus, Settled
<1>9. CASE UNCHANGED cashByRemittance
  <2>1. \A m \in Remittances : Applied(m) =>
          status[m] = "POSTED" /\ cashByRemittance[m].content = content[m]
    BY <1>3, <1>7 DEF AppliedIsSeen
  <2>2. QED
    BY <1>5, <1>9, <2>1 DEF AppliedIsSeen, Applied
<1>10. CASE CashFile(c)
  <2> DEFINE served == [c EXCEPT !.phase = "answered", !.application = NewApplication(c)]
  <2>1. /\ cashByRemittance' = [cashByRemittance EXCEPT ![c.rem] = NewApplication(c)]
        /\ NewApplication(c).content = content[c.rem]
    BY <1>10 DEF CashFile, NewApplication, CurrentInv, SentIsCurrent
  <2>2. NewApplication(c) # NoApplication
    BY <1>2, NoApplicationIsNone DEF NewApplication, Application, CashCall
  <2>3. served.phase = "answered" /\ served.application = NewApplication(c) /\ served.live
    BY <1>2 DEF CashCall, ThreadInv, CallsAreLive
  <2>4. served \in cashCalls'
    BY <1>10, <2>3 DEF CashFile, Answer
  <2> HIDE DEF served
  <2>5. OnItsWay(c.rem)'
    BY <1>2, <1>5, <2>2, <2>3, <2>4 DEF OnItsWay
  <2>6. \A m \in Remittances : Applied(m) =>
          status[m] = "POSTED" /\ cashByRemittance[m].content = content[m]
    BY <1>3, <1>7 DEF AppliedIsSeen
  <2>7. QED
    BY <1>2, <1>4, <1>5, <2>1, <2>5, <2>6 DEF AppliedIsSeen, Applied
<1>11. QED
  BY <1>1, <1>9, <1>10 DEF CashStep, CashReplay, CashRefuse, CashCheck, CashClose
\* A thread's step preserves it: nothing is written to a remittance that has been
\* applied but the status POSTED.
LEMMA SeenHandlerStep ==
    ASSUME OneAtATime, TypeOK, ThreadInv, AppliedIsSeen,
           NEW r \in Callers, HandlerStep(r)
    PROVE  AppliedIsSeen'
<1>1. /\ UNCHANGED <<settings, cashByRemittance>>
      /\ \A s \in Callers : s = r
  BY HandlerFrame DEF OneAtATime
<1> SUFFICES ASSUME ~settings.http PROVE AppliedIsSeen'
  BY <1>1 DEF AppliedIsSeen
<1>0. PICK own \in Remittances : own = req[r].rem
  BY DEF TypeOK, Request
<1>2. content \in [Remittances -> Contents]
      /\ status \in [Remittances -> Status \cup {"absent"}]
  BY DEF TypeOK, Request
<1>3. req[r].pc # "idle" => status[own] # "POSTED"
  BY <1>0 DEF ThreadInv, ThreadsSeeStatus, Settled
<1>4. \A m \in Remittances : m # own \/ req[r].pc = "idle" => status'[m] = status[m]
  BY <1>0, StatusMoves
<1>5. \A m \in Remittances : content'[m] # content[m] =>
        m = own /\ req[r].pc = "decide"
  <2>1. CASE Correct(r)
    BY <2>1, <1>0, <1>2 DEF Correct, At
  <2>2. CASE ~Correct(r)
    BY <2>2
    DEF HandlerStep, RetrievePolicy, RunMatch, SaveMatch, EvaluateMatch, Finalize,
        RunFails, SendCash, ReceiveCash, CashLost, CashTimesOut, SetPosted, Close,
        ApproveApply
  <2>3. QED
    BY <2>1, <2>2
<1>6. \A m \in Remittances \ {own} : Applied(m) => status[m] = "POSTED"
  BY <1>0, <1>1 DEF AppliedIsSeen, OnItsWay
<1>7. Applied(own) => cashByRemittance[own].content = content'[own]
  <2>1. CASE req[r].pc = "decide"
    BY <2>1, <1>0, NotAppliedYet
  <2>2. CASE req[r].pc # "decide"
    BY <2>2, <1>2, <1>5 DEF AppliedIsSeen
  <2>3. QED
    BY <2>1, <2>2
<1>8. Applied(own) => status'[own] = "POSTED" \/ OnItsWay(own)'
  <2> SUFFICES ASSUME Applied(own) PROVE status'[own] = "POSTED" \/ OnItsWay(own)'
    OBVIOUS
  <2>1. req[r].pc \in {"idle", "await_erp", "set_posted"}
    BY <1>0, NotAppliedYet
  <2>2. req[r].pc # "idle"
    BY DEF HandlerStep, RetrievePolicy, RunMatch, SaveMatch, EvaluateMatch, Finalize,
           RunFails, SendCash, ReceiveCash, CashLost, CashTimesOut, SetPosted, Close,
           Correct, ApproveApply, At
  <2>3. OnItsWay(own)
    BY <2>2, <1>2, <1>3 DEF AppliedIsSeen
  <2>4. CASE req[r].pc = "await_erp"
    <3>1. PICK c \in cashCalls : ReceiveCash(r, c)
      BY <2>4
      DEF HandlerStep, RetrievePolicy, RunMatch, SaveMatch, EvaluateMatch, Finalize,
          RunFails, SendCash, CashLost, CashTimesOut, SetPosted, Close, Correct,
          ApproveApply, At
    <3>2. c.application # NoApplication
      BY <2>3, <2>4, OneCall, <1>1 DEF OnItsWay
    <3>3. /\ req'[r].pc = "set_posted"
          /\ req'[r].rem = own
          /\ req'[r].answer = c.application
      BY <3>1, <1>0, ThreadMoves
    <3>4. QED
      BY <3>2, <3>3 DEF OnItsWay
  <2>5. CASE req[r].pc = "set_posted"
    <3>1. SetPosted(r)
      BY <2>5
      DEF HandlerStep, RetrievePolicy, RunMatch, SaveMatch, EvaluateMatch, Finalize,
          RunFails, SendCash, ReceiveCash, CashLost, CashTimesOut, Close, Correct,
          ApproveApply, At
    <3>2. req[r].answer # NoApplication
      BY <2>3, <2>5, <1>1 DEF OnItsWay
    <3>3. QED
      BY <3>1, <3>2, <1>0, <1>2 DEF SetPosted
  <2>6. QED
    BY <2>1, <2>2, <2>4, <2>5
<1>9. \A m \in Remittances : Applied(m) =>
        /\ status'[m] = "POSTED" \/ OnItsWay(m)'
        /\ cashByRemittance[m].content = content'[m]
  <2>1. ASSUME NEW m \in Remittances \ {own}, Applied(m)
        PROVE  status'[m] = "POSTED" /\ cashByRemittance[m].content = content'[m]
    BY <2>1, <1>4, <1>5, <1>6 DEF AppliedIsSeen
  <2>2. QED
    BY <2>1, <1>7, <1>8
<1>10. QED
  BY <1>1, <1>9 DEF AppliedIsSeen, Applied
\* Every step preserves it.
LEMMA SeenStep ==
    ASSUME OneAtATime
    PROVE  TypeOK /\ ThreadInv /\ CurrentInv /\ AppliedIsSeen /\ [Next]_vars
             => AppliedIsSeen'
<1> SUFFICES ASSUME TypeOK, ThreadInv, CurrentInv, AppliedIsSeen, [Next]_vars
             PROVE  AppliedIsSeen'
  OBVIOUS
<1>1. ASSUME NEW r \in Callers, NEW m \in Remittances, NewRequest(r, m)
      PROVE  AppliedIsSeen'
  <2>1. /\ req[r].pc = "idle"
        /\ \A s \in Callers : s = r
        /\ UNCHANGED <<settings, cashByRemittance, cashCalls>>
    BY <1>1, NewRequestFrame DEF OneAtATime, erpVars
  <2>2. \A n \in Remittances : ~OnItsWay(n)
    BY <2>1 DEF OnItsWay
  <2>3. ~settings.http =>
          \A n \in Remittances : Applied(n) =>
            /\ status[n] = "POSTED" /\ status'[n] = "POSTED"
            /\ cashByRemittance[n].content = content[n]
    BY <2>2, <1>1, NewStatusMoves DEF AppliedIsSeen
  <2>4. \A n \in Remittances : content'[n] # content[n] => status[n] = "absent"
    <3>1. content \in [Remittances -> Contents]
      BY DEF TypeOK
    <3>2. QED
      BY <1>1, <3>1 DEF NewRequest, Ingest, StartDecision, Ingested
  <2>5. QED
    BY <2>1, <2>3, <2>4 DEF AppliedIsSeen, Applied
<1>2. CASE UNCHANGED vars
  <2>1. UNCHANGED <<settings, cashByRemittance, cashCalls, req, status, content>>
    BY <1>2 DEF vars, arVars, erpVars
  <2>2. QED
    BY <2>1 DEF AppliedIsSeen, Applied, OnItsWay
<1>3. QED
  BY <1>1, <1>2, SeenHandlerStep, SeenErpStep DEF Next

\* The three invariants hold of every run.
LEMMA SeenInvariant ==
    ASSUME OneAtATime
    PROVE  Spec => [](TypeOK /\ ThreadInv /\ CurrentInv /\ AppliedIsSeen)
<1>1. TypeOK /\ ThreadInv /\ CurrentInv /\ [Next]_vars => CurrentInv'
  BY CurrentStep
<1>2. TypeOK /\ ThreadInv /\ CurrentInv /\ AppliedIsSeen /\ [Next]_vars
        => AppliedIsSeen'
  BY SeenStep
<1>3. QED
  BY ThreadInvariant, CurrentInit, <1>1, SeenInit, <1>2, PTL DEF Spec

\* One request at a time, with the in-process ERP, a POSTED remittance says what
\* was applied.
THEOREM PostedSaysApplied == ASSUME OneAtATime PROVE Spec => []PostedAsApplied
<1>1. AppliedIsSeen /\ PostedIsApplied => PostedAsApplied
  BY DEF AppliedIsSeen, PostedIsApplied, PostedAsApplied
<1>2. QED
  BY SeenInvariant, PostedHasApplication, <1>1, PTL

---------------------------------------------------------------------------
(* No document is applied twice.                                           *)

\* A thread has found remittance m to match and is not done with it.
MatchedBy(r, m) ==
    /\ req[r].rem = m
    /\ \/ req[r].pc \in {"save_match", "evaluate_match", "finalize"} /\ req[r].matched
       \/ req[r].pc \in {"erp_call", "await_erp"}

\* Cash has been applied to m, or may yet be without another match.
Cleared(m) ==
    \/ Applied(m)
    \/ MayApprove(m)
    \/ \E r \in Callers : MatchedBy(r, m)

\* No two remittances with one document are cleared at a time.
ClearedOnce ==
    ~settings.http => \A m \in Remittances : Cleared(m) =>
        \A n \in Remittances \ {m} :
            Cleared(n) => ~SameDocument(content[m], content[n])

\* Initially nothing is cleared.
LEMMA ClearedInit == Init => ClearedOnce
BY RequestTypes
DEF Init, ErpInit, ClearedOnce, Cleared, MatchedBy, Applied, MayApprove

\* A cleared remittance counts for those that look for duplicates.
LEMMA ClearedCounts ==
    ASSUME OneAtATime, TypeOK, ThreadInv, AppliedIsSeen, ~settings.http,
           NEW m \in Remittances, Cleared(m)
    PROVE  status[m] \notin {"absent", "REJECTED"}
<1>1. ASSUME NEW r \in Callers, req[r].rem = m, req[r].pc # "idle"
      PROVE  status[m] \notin {"absent", "REJECTED"}
  BY <1>1 DEF ThreadInv, ThreadsSeeStatus, Settled
<1>2. CASE Applied(m)
  BY <1>1, <1>2 DEF AppliedIsSeen, OnItsWay
<1>3. CASE MayApprove(m)
  BY <1>3 DEF MayApprove
<1>4. ASSUME NEW r \in Callers, MatchedBy(r, m)
      PROVE  status[m] \notin {"absent", "REJECTED"}
  BY <1>1, <1>4 DEF MatchedBy
<1>5. QED
  BY <1>2, <1>3, <1>4 DEF Cleared

\* Only the match clears a remittance, and it has found no duplicate then; the
\* fields of a cleared one are not written.
LEMMA ClearedHandlerStep ==
    ASSUME OneAtATime, TypeOK, ThreadInv, AppliedIsSeen, ~settings.http,
           NEW r \in Callers, HandlerStep(r)
    PROVE  \A m \in Remittances : Cleared(m)' =>
             /\ content'[m] = content[m]
             /\ Cleared(m) \/ (~Duplicate(m) /\ UNCHANGED content /\ m = req[r].rem)
<1>1. /\ UNCHANGED cashByRemittance
      /\ \A s \in Callers : s = r
  BY HandlerFrame DEF OneAtATime
<1>2. PICK own \in Remittances : own = req[r].rem
  BY DEF TypeOK, Request
<1>3. /\ content \in [Remittances -> Contents]
      /\ status \in [Remittances -> Status \cup {"absent"}]
      /\ result \in [Remittances -> SUBSET BOOLEAN]
  BY DEF TypeOK
  \* A step that writes no fields, and whose thread and saved result are cleared
  \* only if its remittance has been.
<1>4. ASSUME UNCHANGED content,
             \A m \in Remittances : MayApprove(m)' => Cleared(m),
             \A m \in Remittances : MatchedBy(r, m)' => Cleared(m)
      PROVE  \A m \in Remittances : Cleared(m)' =>
               /\ content'[m] = content[m]
               /\ Cleared(m) \/ (~Duplicate(m) /\ UNCHANGED content /\ m = req[r].rem)
  BY <1>1, <1>4 DEF Cleared, Applied
<1>5. CASE RetrievePolicy(r) \/ RunFails(r)
  <2>1. UNCHANGED <<status, content, result>>
    BY <1>5 DEF RetrievePolicy, RunFails
  <2>2. req'[r].pc \in {"request_match", "idle"}
    BY <1>5, ThreadMoves
  <2>3. QED
    BY <2>1, <2>2, <1>4 DEF MayApprove, MatchedBy, Cleared
<1>6. CASE RunMatch(r)
  <2>1. UNCHANGED <<status, content, result>>
    BY <1>6 DEF RunMatch
  <2>2. /\ req'[r].pc = "save_match"
        /\ req'[r].rem = req[r].rem
        /\ req'[r].matched = Matches(req[r].rem)
    BY <1>6, ThreadMoves
  <2>3. \A m \in Remittances : MatchedBy(r, m)' => m = req[r].rem /\ ~Duplicate(m)
    BY <2>2 DEF MatchedBy, Matches
  <2>4. \A m \in Remittances : Applied(m)' => Applied(m)
    BY <1>1 DEF Applied
  <2>5. \A m \in Remittances : MayApprove(m)' => MayApprove(m)
    BY <2>1 DEF MayApprove
  <2>6. QED
    BY <2>1, <2>3, <2>4, <2>5, <1>1 DEF Cleared
<1>7. CASE SaveMatch(r)
  <2>1. /\ req'[r].pc = "evaluate_match"
        /\ req'[r].rem = req[r].rem
        /\ req'[r].matched = req[r].matched
    BY <1>7, ThreadMoves
  <2>2. /\ req[r].pc = "save_match"
        /\ status'[own] # "AWAITING_APPROVAL"
        /\ \A m \in Remittances \ {own} : status'[m] = status[m] /\ result'[m] = result[m]
        /\ UNCHANGED content
    BY <1>2, <1>3, <1>7 DEF SaveMatch, At
  <2>3. \A m \in Remittances : MayApprove(m)' => MayApprove(m)
    BY <2>2 DEF MayApprove
  <2>4. \A m \in Remittances : MatchedBy(r, m)' => MatchedBy(r, m)
    BY <2>1, <2>2 DEF MatchedBy
  <2>5. QED
    BY <2>2, <2>3, <2>4, <1>4 DEF Cleared
<1>8. ASSUME NEW q \in AgentActions, EvaluateMatch(r, q)
      PROVE  \A m \in Remittances : Cleared(m)' =>
               /\ content'[m] = content[m]
               /\ Cleared(m) \/ (~Duplicate(m) /\ UNCHANGED content /\ m = req[r].rem)
  <2>1. /\ UNCHANGED <<status, content, result>>
        /\ req[r].pc = "evaluate_match"
    BY <1>8 DEF EvaluateMatch, At
  <2>2. \A m \in Remittances : MatchedBy(r, m)' => MatchedBy(r, m)
    <3>1. req'[r].rem = req[r].rem
      BY <1>8, ThreadMoves
    <3>2. CASE RoutesToApply(req[r].matched, q)
      BY <2>1, <3>1, <3>2 DEF MatchedBy, RoutesToApply, AutoActionPermitted
    <3>3. CASE ~RoutesToApply(req[r].matched, q)
      <4>1. req'[r].pc = "finalize" /\ req'[r].matched = req[r].matched
        BY <1>8, <3>3, ThreadMoves
      <4>2. QED
        BY <2>1, <3>1, <4>1 DEF MatchedBy
    <3>4. QED
      BY <3>2, <3>3
  <2>3. QED
    BY <2>1, <2>2, <1>4 DEF Cleared, MayApprove
<1>9. CASE Finalize(r)
  <2> DEFINE gated == ApprovalRequired(req[r].matched, req[r].requested)
  <2>1. /\ req[r].pc = "finalize"
        /\ req'[r].pc = "idle"
        /\ UNCHANGED content
        /\ status' = [status EXCEPT ![own] = IF gated THEN "AWAITING_APPROVAL" ELSE @]
        /\ result' = [result EXCEPT ![own] = IF gated THEN {TRUE} ELSE @]
    BY <1>2, <1>9, ThreadMoves DEF Finalize, At
  <2>2. gated => MatchedBy(r, own)
    BY <2>1, <1>2 DEF ApprovalRequired, MatchedBy
  <2>3. ~\E m \in Remittances : MatchedBy(r, m)'
    BY <2>1 DEF MatchedBy
  <2> HIDE DEF gated
  <2>4. \A m \in Remittances : MayApprove(m)' => MayApprove(m) \/ (m = own /\ gated)
    BY <2>1, <1>3 DEF MayApprove
  <2>5. QED
    BY <2>1, <2>2, <2>3, <2>4, <1>4 DEF Cleared
<1>10. CASE SendCash(r)
  <2>1. /\ UNCHANGED <<status, content, result>>
        /\ req[r].pc = "erp_call"
    BY <1>10 DEF SendCash, At
  <2>2. req'[r].pc = "await_erp" /\ req'[r].rem = req[r].rem
    BY <1>10, ThreadMoves
  <2>3. QED
    BY <2>1, <2>2, <1>4 DEF Cleared, MayApprove, MatchedBy
<1>11. ASSUME NEW c \in cashCalls,
              ReceiveCash(r, c) \/ CashLost(r, c) \/ CashTimesOut(r, c)
       PROVE  \A m \in Remittances : Cleared(m)' =>
               /\ content'[m] = content[m]
               /\ Cleared(m) \/ (~Duplicate(m) /\ UNCHANGED content /\ m = req[r].rem)
  <2>1. UNCHANGED <<status, content, result>>
    BY <1>11 DEF ReceiveCash, CashLost, CashTimesOut
  <2>2. req'[r].pc \in {"set_posted", "idle"}
    BY <1>11, ThreadMoves
  <2>3. QED
    BY <2>1, <2>2, <1>4 DEF Cleared, MayApprove, MatchedBy
<1>12. CASE SetPosted(r) \/ Close(r)
  <2>1. req'[r].pc = "idle"
    BY <1>12, ThreadMoves
  <2>2. /\ UNCHANGED content
        /\ status'[own] # "AWAITING_APPROVAL"
        /\ \A m \in Remittances \ {own} : status'[m] = status[m] /\ result'[m] = result[m]
    BY <1>2, <1>3, <1>12 DEF SetPosted, Close
  <2>3. QED
    BY <2>1, <2>2, <1>4 DEF Cleared, MayApprove, MatchedBy
<1>13. CASE Correct(r)
  <2>1. req'[r].pc = "retrieve_policy"
    BY <1>13, ThreadMoves
  <2>2. ~Applied(own)
    BY <1>2, <1>13, NotAppliedYet DEF Correct, At
  <2>3. /\ status'[own] # "AWAITING_APPROVAL"
        /\ \A m \in Remittances \ {own} :
             status'[m] = status[m] /\ result'[m] = result[m] /\ content'[m] = content[m]
    BY <1>2, <1>3, <1>13 DEF Correct
  <2>4. ~Cleared(own)'
    BY <2>1, <2>2, <2>3, <1>1 DEF Cleared, Applied, MayApprove, MatchedBy
  <2>5. \A m \in Remittances \ {own} : Cleared(m)' => Cleared(m)
    BY <2>1, <2>3, <1>1 DEF Cleared, Applied, MayApprove, MatchedBy
  <2>6. QED
    BY <2>3, <2>4, <2>5
<1>14. CASE ApproveApply(r)
  <2>1. UNCHANGED <<status, content, result>>
    BY <1>14 DEF ApproveApply
  <2>2. \/ req'[r].pc = "idle"
        \/ MayApprove(req[r].rem) /\ req'[r].pc = "erp_call" /\ req'[r].rem = req[r].rem
    BY <1>14, ThreadMoves
  <2>3. QED
    BY <2>1, <2>2, <1>4 DEF Cleared, MayApprove, MatchedBy
<1>15. QED
  BY <1>5, <1>6, <1>7, <1>8, <1>9, <1>10, <1>11, <1>12, <1>13, <1>14
  DEF HandlerStep
\* A step of the ERP clears nothing: it applies what was sent.
LEMMA ClearedErpStep ==
    ASSUME OneAtATime, TypeOK, ThreadInv, NEW r \in Callers, ErpServes(r)
    PROVE  UNCHANGED <<content, settings>> /\ \A m \in Remittances : Cleared(m)' => Cleared(m)
<1>1. PICK c \in cashCalls : CashStep(c) /\ UNCHANGED arVars
  BY DEF ErpServes
<1>2. c.rem \in Remittances /\ MatchedBy(r, c.rem)
  BY OneCall DEF MatchedBy
<1>3. cashByRemittance \in [Remittances -> Application \cup {NoApplication}]
  BY DEF TypeOK, ErpTypeOK
<1>4. \A m \in Remittances : Applied(m)' => Applied(m) \/ m = c.rem
  BY <1>1, <1>3
  DEF Applied, CashStep, CashReplay, CashRefuse, CashCheck, CashClose, CashFile
<1>5. UNCHANGED <<content, status, result, req>>
  BY <1>1 DEF arVars
<1>6. settings' = settings
  BY <1>1 DEF CashStep, CashReplay, CashRefuse, CashCheck, CashClose, CashFile
<1>7. QED
  BY <1>2, <1>4, <1>5, <1>6 DEF Cleared, MayApprove, MatchedBy

\* Every step preserves the invariant.
LEMMA ClearedStep ==
    ASSUME OneAtATime
    PROVE  TypeOK /\ ThreadInv /\ AppliedIsSeen /\ ClearedOnce /\ [Next]_vars
             => ClearedOnce'
<1> SUFFICES ASSUME TypeOK, ThreadInv, AppliedIsSeen, ClearedOnce, [Next]_vars
             PROVE  ClearedOnce'
  OBVIOUS
  \* A step that clears nothing, and leaves the fields of what is cleared alone.
<1>1. ASSUME settings' = settings,
             ~settings.http => \A m \in Remittances : Cleared(m)' =>
               content'[m] = content[m] /\ Cleared(m)
      PROVE  ClearedOnce'
  BY <1>1 DEF ClearedOnce, SameDocument
<1>2. ASSUME NEW r \in Callers, HandlerStep(r) PROVE ClearedOnce'
  <2>1. settings' = settings
    BY <1>2, HandlerFrame
  <2> SUFFICES ASSUME ~settings.http PROVE ClearedOnce'
    BY <2>1 DEF ClearedOnce
  <2>2. \A m \in Remittances : Cleared(m)' =>
          /\ content'[m] = content[m]
          /\ Cleared(m) \/ (~Duplicate(m) /\ UNCHANGED content /\ m = req[r].rem)
    BY <1>2, ClearedHandlerStep
  <2>3. \A m \in Remittances : Cleared(m) => status[m] \notin {"absent", "REJECTED"}
    BY ClearedCounts
  <2>4. ASSUME NEW m \in Remittances, NEW n \in Remittances \ {m},
               Cleared(m)', Cleared(n)'
        PROVE  ~SameDocument(content'[m], content'[n])
    <3>1. CASE Cleared(m) /\ Cleared(n)
      BY <2>2, <2>4, <3>1 DEF ClearedOnce
    <3>2. CASE Cleared(m) /\ ~Cleared(n)
      <4>1. ~Duplicate(n)
        BY <2>2, <2>4, <3>2
      <4>2. QED
        BY <2>2, <2>3, <2>4, <3>2, <4>1 DEF Duplicate, SameDocument
    <3>3. CASE ~Cleared(m) /\ Cleared(n)
      <4>1. ~Duplicate(m)
        BY <2>2, <2>4, <3>3
      <4>2. QED
        BY <2>2, <2>3, <2>4, <3>3, <4>1 DEF Duplicate, SameDocument
    <3>4. CASE ~Cleared(m) /\ ~Cleared(n)
      BY <2>2, <2>4, <3>4
    <3>5. QED
      BY <3>1, <3>2, <3>3, <3>4
  <2>5. QED
    BY <2>4 DEF ClearedOnce
<1>3. ASSUME NEW r \in Callers, ErpServes(r) PROVE ClearedOnce'
  BY <1>3, ClearedErpStep, <1>1
<1>4. ASSUME NEW r \in Callers, NEW m \in Remittances, NewRequest(r, m)
      PROVE  ClearedOnce'
  <2>1. /\ req'[r].pc \in {"retrieve_policy", "decide"}
        /\ \A s \in Callers : s = r
        /\ UNCHANGED <<settings, cashByRemittance, result>>
    BY <1>4, NewRequestFrame DEF OneAtATime, erpVars
  <2>2. \A n \in Remittances : status'[n] # "AWAITING_APPROVAL" \/ status'[n] = status[n]
    BY <1>4 DEF NewRequest, Ingest, StartDecision, TypeOK
  <2>3. \A n \in Remittances : content'[n] # content[n] => n = m /\ status[n] = "absent"
    BY <1>4 DEF NewRequest, Ingest, StartDecision, TypeOK, Ingested
  <2>4. \A n \in Remittances : Cleared(n)' => Cleared(n)
    BY <2>1, <2>2 DEF Cleared, Applied, MayApprove, MatchedBy
  <2>5. QED
    BY <2>1, <2>3, <2>4, <1>1, ClearedCounts
<1>5. CASE UNCHANGED vars
  <2>1. UNCHANGED <<settings, cashByRemittance, req, status, result, content>>
    BY <1>5 DEF vars, arVars, erpVars
  <2>2. QED
    BY <2>1, <1>1 DEF Cleared, Applied, MayApprove, MatchedBy
<1>6. QED
  BY <1>2, <1>3, <1>4, <1>5 DEF Next

\* One request at a time, with the in-process ERP, no two remittances of one
\* customer and reference are both applied, whatever is corrected or rejected in
\* between.
THEOREM DocumentsApplyOnce == ASSUME OneAtATime PROVE Spec => []DuplicateAppliedOnce
<1>1. TypeOK /\ ThreadInv /\ AppliedIsSeen /\ ClearedOnce /\ [Next]_vars
        => ClearedOnce'
  BY ClearedStep
<1>2. AppliedIsSeen /\ ClearedOnce => DuplicateAppliedOnce
  BY DEF AppliedIsSeen, ClearedOnce, Cleared, DuplicateAppliedOnce
<1>3. QED
  BY SeenInvariant, ClearedInit, <1>1, <1>2, PTL DEF Spec
---------------------------------------------------------------------------
(* The refinement of CashControl: apply_cash is one step.                  *)

AppliedMap == [m \in Remittances |-> AppliedUnder(m)]

\* Nothing speaks for a remittance that has not arrived.  Between its check and
\* its filing a call applies a remittance that has not been applied, and until
\* it closes the items they are as it found them.
ApplicationInv ==
    /\ \A m \in Remittances : status[m] = "absent" => current[m] = {}
    /\ \A c \in cashCalls :
         /\ c.phase = "close" => Applicable(c.content, openItems)
         /\ c.phase \in {"close", "file"} => ~Applied(c.rem)

LEMMA ApplicationInit == Init => ApplicationInv
BY DEF Init, ErpInit, ApplicationInv

\* What a handler does to the fields and their evidence, and that it leaves a
\* call the ERP is working on alone.
LEMMA HandlerEffect ==
    ASSUME OneAtATime, TypeOK, ThreadInv, NEW r \in Callers, HandlerStep(r)
    PROVE  /\ \/ UNCHANGED <<content, current>>
              \/ /\ UNCHANGED content
                 /\ \E e \in SUBSET Evidence :
                      current' = [current EXCEPT ![req[r].rem] = @ \cup e]
              \/ /\ \E k \in Contents : content' = [content EXCEPT ![req[r].rem] = k]
                 /\ current' = [current EXCEPT ![req[r].rem] = {}]
           /\ \A c \in cashCalls' : c.phase \in {"close", "file"} => c \in cashCalls
           /\ \A c \in cashCalls : c.phase = "file" => c \in cashCalls'
<1>1. \A c \in cashCalls : ~CashTimesOut(r, c)
  <2>1. {d \in cashCalls : ~d.live} = {}
    BY DEF ThreadInv, CallsAreLive
  <2>2. Cardinality({d \in cashCalls : ~d.live}) = 0
    BY <2>1, FS_EmptySet
  <2>3. QED
    BY <2>2 DEF CashTimesOut, OneAtATime
<1>2. /\ \A c \in cashCalls' : c.phase \in {"close", "file"} => c \in cashCalls
      /\ \A c \in cashCalls : c.phase = "file" => c \in cashCalls'
  <2>1. CASE SendCash(r)
    BY <2>1 DEF SendCash
  <2>2. CASE \E c \in cashCalls : ReceiveCash(r, c) \/ CashLost(r, c)
    BY <2>2 DEF ReceiveCash, CashLost
  <2>3. CASE ~SendCash(r) /\ ~\E c \in cashCalls : ReceiveCash(r, c) \/ CashLost(r, c)
    BY <1>1, <2>3
    DEF HandlerStep, RetrievePolicy, RunMatch, SaveMatch, EvaluateMatch, Finalize,
        RunFails, SetPosted, Close, Correct, ApproveApply, erpVars
  <2>4. QED
    BY <2>1, <2>2, <2>3
<1> DEFINE Learns(e) == /\ UNCHANGED content
                        /\ current' = [current EXCEPT ![req[r].rem] = @ \cup e]
<1>3. CASE RunMatch(r)
  <2> DEFINE e == IF Matches(req[r].rem) THEN {"match"} ELSE {}
  <2>1. Learns(e) /\ e \in SUBSET Evidence
    BY <1>3 DEF RunMatch, Record, Evidence
  <2>2. QED
    BY <1>2, <2>1
<1>4. CASE ApproveApply(r)
  <2> DEFINE e == IF MayApprove(req[r].rem) THEN {"approval"} ELSE {}
  <2>1. Learns(e) /\ e \in SUBSET Evidence
    BY <1>4 DEF ApproveApply, Record, Evidence
  <2>2. QED
    BY <1>2, <2>1
<1>5. CASE Correct(r)
  <2>1. req[r].correction \in Contents
    BY DEF TypeOK, Request
  <2>2. QED
    BY <1>2, <1>5, <2>1 DEF Correct
<1>6. CASE ~RunMatch(r) /\ ~ApproveApply(r) /\ ~Correct(r)
  <2>1. UNCHANGED <<content, current>>
    BY <1>6
    DEF HandlerStep, RetrievePolicy, SaveMatch, EvaluateMatch, Finalize, RunFails,
        SendCash, ReceiveCash, CashLost, CashTimesOut, SetPosted, Close
  <2>2. QED
    BY <1>2, <2>1
<1>7. QED
  BY <1>3, <1>4, <1>5, <1>6

\* What a step of the ERP leaves of its only call.
LEMMA CallEffect ==
    ASSUME OneAtATime, TypeOK, ThreadInv, NEW c \in cashCalls, CashStep(c)
    PROVE  /\ c \in CashCall /\ \A d \in cashCalls : d = c
           /\ CashClose(c) \/ CashCheck(c) \/ CashFile(c) \/
              (UNCHANGED <<settings, openItems, cashByRemittance>> /\ c.phase = "sent")
           /\ CashCheck(c) => cashCalls' = {[c EXCEPT !.phase = "close"]}
           /\ CashClose(c) => cashCalls' = {[c EXCEPT !.phase = "file"]}
           /\ ~CashCheck(c) /\ ~CashClose(c) => \A d \in cashCalls' : d.phase = "answered"
<1>1. c \in CashCall /\ \A d \in cashCalls : d = c
  BY OneCall
<1>2. cashCalls = {c}
  BY <1>1
<1>3. \A a : [c EXCEPT !.phase = "answered", !.application = a].phase = "answered"
  BY <1>1 DEF CashCall
<1>4. ASSUME NEW a, Answer(c, a) PROVE \A d \in cashCalls' : d.phase = "answered"
  BY <1>2, <1>3, <1>4 DEF Answer
<1>5. CashReplay(c) \/ CashRefuse(c) \/ CashFile(c) => \A d \in cashCalls' : d.phase = "answered"
  BY <1>4 DEF CashReplay, CashRefuse, CashFile
<1>6. CashReplay(c) \/ CashRefuse(c) =>
        UNCHANGED <<settings, openItems, cashByRemittance>> /\ c.phase = "sent"
  BY DEF CashReplay, CashRefuse
<1>7. CashCheck(c) => cashCalls' = {[c EXCEPT !.phase = "close"]}
  BY <1>2 DEF CashCheck
<1>8. CashClose(c) => cashCalls' = {[c EXCEPT !.phase = "file"]}
  BY <1>2 DEF CashClose
<1>9. QED
  BY <1>1, <1>5, <1>6, <1>7, <1>8 DEF CashStep
\* A handler works on a remittance that has arrived, and none goes away.
LEMMA HandlerArrived ==
    ASSUME TypeOK, ThreadInv, NEW r \in Callers, HandlerStep(r)
    PROVE  /\ req[r].rem \in Remittances /\ status[req[r].rem] # "absent"
           /\ \A m \in Remittances : status'[m] = "absent" => status[m] = "absent"
<1>1. /\ status \in [Remittances -> Status \cup {"absent"}]
      /\ req[r].rem \in Remittances
  BY DEF TypeOK, Request
<1>2. req[r].pc # "idle"
  BY DEF HandlerStep, RetrievePolicy, RunMatch, SaveMatch, EvaluateMatch, Finalize,
         RunFails, SendCash, ReceiveCash, CashLost, CashTimesOut, SetPosted, Close,
         Correct, ApproveApply, At
<1>3. \/ status' = status
      \/ \E s \in Status : status' = [status EXCEPT ![req[r].rem] = s]
  <2>1. CASE SaveMatch(r) \/ SetPosted(r) \/ Close(r) \/ Correct(r)
    BY <2>1 DEF SaveMatch, SetPosted, Close, Correct, Status
  <2>2. CASE Finalize(r)
    BY <1>1, <2>2 DEF Finalize, Status
  <2>3. CASE ~(SaveMatch(r) \/ SetPosted(r) \/ Close(r) \/ Correct(r) \/ Finalize(r))
    BY <2>3
    DEF HandlerStep, RetrievePolicy, RunMatch, EvaluateMatch, RunFails, SendCash,
        ReceiveCash, CashLost, CashTimesOut, ApproveApply
  <2>4. QED
    BY <2>1, <2>2, <2>3
<1>4. "absent" \notin Status
  BY DEF Status
<1>5. QED
  BY <1>1, <1>2, <1>3, <1>4 DEF ThreadInv, ThreadsSeeStatus

LEMMA ApplicationStep ==
    ASSUME OneAtATime
    PROVE  TypeOK /\ ThreadInv /\ ApplicationInv /\ [Next]_vars => ApplicationInv'
<1> SUFFICES ASSUME TypeOK, ThreadInv, ApplicationInv, [Next]_vars
             PROVE  ApplicationInv'
  OBVIOUS
<1> USE DEF ApplicationInv
<1>1. current \in [Remittances -> SUBSET Evidence]
  BY DEF TypeOK
<1>2. ASSUME NEW r \in Callers, ErpServes(r) PROVE ApplicationInv'
  <2>1. PICK c \in cashCalls : CashStep(c) /\ UNCHANGED arVars
    BY <1>2 DEF ErpServes
  <2>2. c \in CashCall
    BY <2>1, CallEffect
  <2>3. CASE CashCheck(c)
    <3>1. /\ ~Applied(c.rem) /\ Applicable(c.content, openItems)
          /\ UNCHANGED <<openItems, cashByRemittance>>
      BY <2>3 DEF CashCheck, Applied
    <3>2. \A d \in cashCalls' : d.content = c.content /\ d.rem = c.rem
      BY <2>1, <2>2, <2>3, CallEffect DEF CashCall
    <3>3. QED
      BY <2>1, <3>1, <3>2 DEF arVars, Applied
  <2>4. CASE CashClose(c)
    <3>1. ~Applied(c.rem) /\ UNCHANGED cashByRemittance
      BY <2>4 DEF CashClose
    <3>2. \A d \in cashCalls' : d.phase = "file" /\ d.rem = c.rem
      BY <2>1, <2>2, <2>4, CallEffect DEF CashCall
    <3>3. QED
      BY <2>1, <3>1, <3>2 DEF arVars, Applied
  <2>5. CASE ~CashCheck(c) /\ ~CashClose(c)
    BY <2>1, <2>5, CallEffect DEF arVars
  <2>6. QED
    BY <2>3, <2>4, <2>5
<1>3. ASSUME NEW r \in Callers, HandlerStep(r) PROVE ApplicationInv'
  <2>1. UNCHANGED <<openItems, cashByRemittance>>
    BY <1>3, HandlerFrame
  <2>2. \A c \in cashCalls' : c.phase \in {"close", "file"} => c \in cashCalls
    BY <1>3, HandlerEffect
  <2>3. \A m \in Remittances \ {req[r].rem} : current'[m] = current[m]
    BY <1>1, <1>3, HandlerEffect
  <2>4. QED
    BY <1>3, <2>1, <2>2, <2>3, HandlerArrived DEF Applied
<1>4. ASSUME NEW r \in Callers, NEW m \in Remittances, NewRequest(r, m)
      PROVE  ApplicationInv'
  <2>1. UNCHANGED <<openItems, cashByRemittance, cashCalls, current>>
    BY <1>4, NewRequestFrame DEF erpVars
  <2>2. \A n \in Remittances : status'[n] = "absent" => status[n] = "absent"
    BY <1>4, NewStatusMoves
  <2>3. QED
    BY <2>1, <2>2 DEF Applied
<1>5. CASE UNCHANGED vars
  BY <1>5 DEF vars, arVars, erpVars, Applied
<1>6. QED
  BY <1>2, <1>3, <1>4, <1>5 DEF Next

\* The ERP starts with every item open and nothing applied.
LEMMA CashControlInit == Init => Control!Init
<1> SUFFICES ASSUME Init PROVE Control!Init
  OBVIOUS
<1>1. settings.requireApproval \in BOOLEAN
  BY CashConstants DEF Init, ErpInit
<1>2. \A m \in Remittances : AppliedUnder(m) = {}
  BY DEF Init, ErpInit, AppliedUnder
<1>3. content \in [Remittances -> Contents]
  BY TypeInit DEF TypeOK
<1>4. QED
  BY <1>1, <1>2, <1>3 DEF Init, ErpInit, Control!Init
\* The closing of the items is the abstract application.
LEMMA ClosingApplies ==
    ASSUME OneAtATime, TypeOK, ThreadInv, CurrentInv, ApplicationInv,
           NEW c \in cashCalls, CashClose(c), UNCHANGED arVars
    PROVE  Control!Apply(c.rem) /\ c.rem \in Remittances
<1> DEFINE k == content[c.rem]
           named == [l \in Contents |-> Range(l.refs)]
<1>1. /\ c \in CashCall /\ c.phase = "close" /\ \A d \in cashCalls : d = c
      /\ c.rem \in Remittances /\ c.content \in Contents /\ c.content = k
  BY CallEffect DEF CashStep, CashClose, CashCall, CurrentInv, SentIsCurrent
<1>2. /\ ~Applied(c.rem) /\ Applicable(k, openItems) /\ openItems \subseteq Items
      /\ cashByRemittance' = cashByRemittance
  BY <1>1 DEF ApplicationInv, TypeOK, ErpTypeOK, CashClose
<1>3. Applicable(k, Items)
  BY <1>2 DEF Applicable
<1>4. named[k] = Range(k.refs) /\ Range(k.refs) \subseteq openItems
  BY <1>1, <1>2 DEF Applicable
<1>5. Sufficient(current[c.rem])
  <2>1. c.caller \in Callers
    BY <1>1 DEF CashCall
  <2>2. req[c.caller].pc = "await_erp" /\ req[c.caller].rem = c.rem
    BY <2>1, OneCall
  <2>3. QED
    BY <2>1, <2>2 DEF CurrentInv, SentIsCurrent
<1>6. \A m \in Remittances :
        AppliedUnder(m) = {a.content : a \in {cashByRemittance[m]} \ {NoApplication}}
  BY <1>1 DEF AppliedUnder
<1>7. AppliedUnder(c.rem) = {}
  BY <1>1, <1>2, <1>6 DEF Applied
<1>8. /\ cashCalls' = {[c EXCEPT !.phase = "file"]}
      /\ [c EXCEPT !.phase = "file"].phase = "file"
      /\ [c EXCEPT !.phase = "file"].rem = c.rem
      /\ [c EXCEPT !.phase = "file"].content = k
  BY <1>1, CallEffect DEF CashStep, CashCall
<1>9. \A m \in Remittances \ {c.rem} : AppliedUnder(m)' = AppliedUnder(m)
  BY <1>2, <1>6, <1>8 DEF AppliedUnder
<1>10. AppliedUnder(c.rem)' = {k}
  BY <1>1, <1>2, <1>8 DEF AppliedUnder, Applied
<1>11. AppliedMap' = [AppliedMap EXCEPT ![c.rem] = {k}]
  BY <1>1, <1>9, <1>10 DEF AppliedMap
<1>12. openItems' = openItems \ Range(k.refs) /\ UNCHANGED <<settings, content, current>>
  BY <1>1 DEF CashClose, arVars
<1>13. Control!Authorised(c.rem)
  BY <1>5 DEF Control!Authorised, Sufficient
<1>14. AppliedMap[c.rem] = {}
  BY <1>1, <1>7 DEF AppliedMap
<1>15. k \in {l \in Contents : Applicable(l, Items)}
  BY <1>1, <1>3
<1>16. QED
  BY <1>1, <1>4, <1>11, <1>12, <1>13, <1>14, <1>15 DEF Control!Apply, AppliedMap

\* The other steps of the ERP do not show: its filing follows the closing.
LEMMA ErpStutters ==
    ASSUME OneAtATime, TypeOK, ThreadInv, ApplicationInv,
           NEW c \in cashCalls, CashStep(c), ~CashClose(c)
    PROVE  UNCHANGED <<settings, openItems>> /\ AppliedMap' = AppliedMap
<1>1. /\ c \in CashCall /\ \A d \in cashCalls : d = c
      /\ c.rem \in Remittances
  BY CallEffect DEF CashCall
<1>2. cashByRemittance \in [Remittances -> Application \cup {NoApplication}]
  BY DEF TypeOK, ErpTypeOK
<1>3. CASE CashFile(c)
  <2>1. /\ c.phase = "file" /\ ~Applied(c.rem)
        /\ cashByRemittance' = [cashByRemittance EXCEPT ![c.rem] = NewApplication(c)]
        /\ UNCHANGED <<settings, openItems>>
    BY <1>3 DEF CashFile, ApplicationInv
  <2>2. NewApplication(c).content = c.content /\ NewApplication(c) # NoApplication
    BY <1>1, NoApplicationIsNone DEF NewApplication, Application, CashCall
  <2>3. \A d \in cashCalls' : d.phase = "answered"
    BY <1>3, <2>1, CallEffect DEF CashCheck, CashClose
  <2>4. \A m \in Remittances : AppliedUnder(m)' =
          {a.content : a \in {cashByRemittance'[m]} \ {NoApplication}}
    BY <2>3 DEF AppliedUnder
  <2>5. \A m \in Remittances \ {c.rem} : AppliedUnder(m)' = AppliedUnder(m)
    <3>1. ASSUME NEW m \in Remittances \ {c.rem} PROVE AppliedUnder(m)' = AppliedUnder(m)
      <4>1. cashByRemittance'[m] = cashByRemittance[m]
        BY <1>2, <2>1
      <4>2. {d \in cashCalls : d.rem = m /\ d.phase = "file"} = {}
        BY <1>1
      <4>3. QED
        BY <2>4, <4>1, <4>2 DEF AppliedUnder
    <3>2. QED
      BY <3>1
  <2>6. AppliedUnder(c.rem)' = {c.content}
    BY <1>1, <1>2, <2>1, <2>2, <2>4
  <2>7. AppliedUnder(c.rem) = {c.content}
    BY <1>1, <2>1 DEF AppliedUnder, Applied
  <2>8. QED
    BY <2>1, <2>5, <2>6, <2>7 DEF AppliedMap
<1>4. CASE ~CashFile(c)
  <2>1. UNCHANGED <<settings, openItems, cashByRemittance>> /\ c.phase = "sent"
    BY <1>4, CallEffect DEF CashCheck
  <2>2. \A d \in cashCalls' : d.phase # "file"
    <3>1. [c EXCEPT !.phase = "close"].phase = "close"
      BY <1>1 DEF CashCall
    <3>2. QED
      BY <3>1, CallEffect
  <2>3. \A m : AppliedUnder(m)' = AppliedUnder(m)
    BY <1>1, <2>1, <2>2 DEF AppliedUnder
  <2>4. QED
    BY <2>1, <2>3 DEF AppliedMap
<1>5. QED
  BY <1>3, <1>4

\* A handler changes a remittance, learns about it, or does not show.
LEMMA HandlerControl ==
    ASSUME OneAtATime, TypeOK, ThreadInv, NEW r \in Callers, HandlerStep(r)
    PROVE  [Control!Next]_(Control!vars)
<1> DEFINE m == req[r].rem
<1>1. m \in Remittances /\ UNCHANGED <<settings, openItems, cashByRemittance>>
  BY HandlerArrived, HandlerFrame
<1>2. {c \in cashCalls' : c.phase = "file"} = {c \in cashCalls : c.phase = "file"}
  BY HandlerEffect
<1>3. \A n : AppliedUnder(n)' = AppliedUnder(n)
  BY <1>1, <1>2 DEF AppliedUnder
<1>4. AppliedMap' = AppliedMap
  BY <1>3 DEF AppliedMap
<1>5. CASE UNCHANGED <<content, current>>
  BY <1>1, <1>4, <1>5 DEF Control!vars, AppliedMap
<1>6. ASSUME UNCHANGED content, NEW e \in SUBSET Evidence,
             current' = [current EXCEPT ![m] = @ \cup e]
      PROVE  Control!Next
  <2>1. Control!Learn(m, e)
    BY <1>1, <1>4, <1>6 DEF Control!Learn, AppliedMap
  <2>2. e \in SUBSET Control!Evidence
    BY DEF Evidence, Control!Evidence
  <2>3. QED
    BY <1>1, <2>1, <2>2 DEF Control!Next
<1>7. ASSUME NEW k \in Contents, content' = [content EXCEPT ![m] = k],
             current' = [current EXCEPT ![m] = {}]
      PROVE  Control!Next
  <2>1. Control!Change(m, k)
    BY <1>1, <1>4, <1>7 DEF Control!Change, AppliedMap
  <2>2. QED
    BY <1>1, <2>1 DEF Control!Next
<1>8. QED
  BY <1>5, <1>6, <1>7, HandlerEffect

\* A new request changes a remittance nothing speaks for, or does not show.
LEMMA RequestControl ==
    ASSUME TypeOK, ApplicationInv,
           NEW r \in Callers, NEW m \in Remittances, NewRequest(r, m)
    PROVE  [Control!Next]_(Control!vars)
<1>1. UNCHANGED <<settings, openItems, cashByRemittance, cashCalls, current>>
  BY NewRequestFrame DEF erpVars
<1>2. AppliedMap' = AppliedMap
  BY <1>1 DEF AppliedMap, AppliedUnder
<1>3. ASSUME NEW k \in Contents, Ingest(r, m, k) PROVE Control!Next
  <2>1. current[m] = {} /\ content' = [content EXCEPT ![m] = k]
    BY <1>3 DEF Ingest, Ingested, ApplicationInv
  <2>2. current' = [current EXCEPT ![m] = {}]
    BY <1>1, <2>1 DEF TypeOK
  <2>3. Control!Change(m, k)
    BY <1>1, <1>2, <2>1, <2>2 DEF Control!Change, AppliedMap
  <2>4. QED
    BY <2>3 DEF Control!Next
<1>4. ASSUME NEW d \in Decisions, NEW k \in Corrections(d), StartDecision(r, m, d, k)
      PROVE  UNCHANGED Control!vars
  BY <1>1, <1>2, <1>4 DEF StartDecision, Control!vars, AppliedMap
<1>5. QED
  BY <1>3, <1>4 DEF NewRequest

LEMMA CashControlStep ==
    ASSUME OneAtATime
    PROVE  TypeOK /\ ThreadInv /\ CurrentInv /\ ApplicationInv /\ [Next]_vars
             => [Control!Next]_(Control!vars)
<1> SUFFICES ASSUME TypeOK, ThreadInv, CurrentInv, ApplicationInv, [Next]_vars
             PROVE  [Control!Next]_(Control!vars)
  OBVIOUS
<1>1. ASSUME NEW r \in Callers, ErpServes(r) PROVE [Control!Next]_(Control!vars)
  <2>1. PICK c \in cashCalls : CashStep(c) /\ UNCHANGED arVars
    BY <1>1 DEF ErpServes
  <2>2. CASE CashClose(c)
    BY <2>1, <2>2, ClosingApplies DEF Control!Next
  <2>3. CASE ~CashClose(c)
    BY <2>1, <2>3, ErpStutters DEF Control!vars, AppliedMap, arVars
  <2>4. QED
    BY <2>2, <2>3
<1>2. CASE UNCHANGED vars
  BY <1>2 DEF vars, arVars, erpVars, Control!vars, AppliedUnder
<1>3. QED
  BY <1>1, <1>2, HandlerControl, RequestControl DEF Next

\* One request at a time, the workflow and the ERP implement the abstract
\* application for any remittances, items, fields and configurations: what
\* apply_cash does in three steps is one, of an authorised remittance, once, and
\* for items that were open.
THEOREM ApplicationRefines == ASSUME OneAtATime PROVE Spec => CashIsControlled
<1>1. TypeOK /\ ThreadInv /\ CurrentInv /\ [Next]_vars => CurrentInv'
  BY CurrentStep
<1>2. TypeOK /\ ThreadInv /\ ApplicationInv /\ [Next]_vars => ApplicationInv'
  BY ApplicationStep
<1>3. TypeOK /\ ThreadInv /\ CurrentInv /\ ApplicationInv /\ [Next]_vars
        => [Control!Next]_(Control!vars)
  BY CashControlStep
<1>4. QED
  BY ThreadInvariant, CurrentInit, <1>1, ApplicationInit, <1>2, CashControlInit, <1>3, PTL
  DEF Spec, CashIsControlled, Control!Spec
---------------------------------------------------------------------------
(* The books balance.  The argument is about CashControl's steps only.     *)

Paid == {a \in Remittances \X Contents : a[2] \in AppliedUnder(a[1])}
Closed == Items \ openItems

\* Finitely many applications, each of items that come to its amount.
BooksInv ==
    /\ IsFiniteSet(Paid) /\ IsFiniteSet(Closed)
    /\ \A a \in Paid : Applicable(a[2], Items)
    /\ CashBalances

LEMMA AmountsAreNat == \A x \in Items : ItemFacts[x].amount \in Nat
BY CashConstants

\* What a list of references without repetition expects is what the items are
\* worth.
LEMMA ExpectedIsWorth ==
    ASSUME NEW refs \in Seq(References), Range(refs) \subseteq Items, IsInjective(refs),
           NEW S \in SUBSET Items, IsFiniteSet(S), Range(refs) \subseteq S
    PROVE  /\ Expected(refs) = SumOver([y \in S |-> ItemFacts[y].amount], Range(refs))
           /\ Expected(refs) \in Nat
<1> DEFINE f == [n \in DOMAIN refs |-> ItemFacts[refs[n]].amount]
           g == [y \in S |-> ItemFacts[y].amount]
<1>1. DOMAIN refs = 1 .. Len(refs) /\ Len(refs) \in Nat
  OBVIOUS
<1>2. IsFiniteSet(DOMAIN f) /\ DOMAIN f = DOMAIN refs
  BY <1>1, FS_Interval
<1>3. IsFiniteSet(DOMAIN g) /\ DOMAIN g = S
  OBVIOUS
<1>4. \A n \in DOMAIN refs : refs[n] \in S /\ refs[n] \in Range(refs)
  BY DEF Range
<1>5. \A y \in S : g[y] \in Nat /\ g[y] = ItemFacts[y].amount
  BY AmountsAreNat
<1>6. \A n \in DOMAIN refs : f[n] = g[refs[n]] /\ f[n] \in Nat
  BY <1>4, <1>5
<1>7. refs \in [DOMAIN f -> DOMAIN g]
  BY <1>1, <1>2, <1>3, <1>4
<1>8. \A m, n \in DOMAIN f : refs[m] = refs[n] => m = n
  BY <1>2 DEF IsInjective
<1>9. {refs[n] : n \in DOMAIN f} = Range(refs)
  BY <1>2 DEF Range
<1>10. Expected(refs) = SumFunction(f)
  BY DEF Expected
<1> HIDE DEF f, g
<1>11. SumFunction(f) = SumOver(f, DOMAIN f)
  BY FoldIsSumOver
<1>12. SumOver(f, DOMAIN f) = SumOver(g, Range(refs))
  <2>1. \A n \in DOMAIN f : f[n] \in Int
    BY <1>2, <1>6
  <2>2. \A n \in DOMAIN f : f[n] = g[refs[n]]
    BY <1>2, <1>6
  <2>3. \A y \in DOMAIN g : g[y] \in Int
    BY <1>3, <1>5
  <2>4. DOMAIN f \in SUBSET DOMAIN f /\ IsFiniteSet(DOMAIN f) /\ IsFiniteSet(DOMAIN g)
    BY <1>2, <1>3
  <2>5. SumOver(f, DOMAIN f) = SumOver(g, {refs[n] : n \in DOMAIN f})
    BY <1>7, <1>8, <2>1, <2>2, <2>3, <2>4, SumOverReindexed
  <2> QED BY <1>9, <2>5
<1>13. SumOver(f, DOMAIN f) \in Nat
  BY <1>2, <1>6, SumOverNat
<1> QED BY <1>10, <1>11, <1>12, <1>13 DEF g

\* A remittance that repeats no reference pays a natural number, what its items
\* are worth.
LEMMA ApplicableIsWorth ==
    ASSUME NEW k \in Contents, Applicable(k, Items), IsInjective(k.refs)
    PROVE  /\ k.amount \in Nat
           /\ Range(k.refs) \in SUBSET Items /\ IsFiniteSet(Range(k.refs))
           /\ \A S \in SUBSET Items : IsFiniteSet(S) /\ Range(k.refs) \subseteq S =>
                 SumOver([y \in S |-> ItemFacts[y].amount], Range(k.refs)) = k.amount
<1>1. k.refs \in Seq(References)
  BY CashConstants
<1>2. Range(k.refs) \in SUBSET Items /\ Expected(k.refs) = k.amount
  BY DEF Applicable
<1>3. IsFiniteSet(Range(k.refs))
  <2>1. DOMAIN k.refs = 1 .. Len(k.refs) /\ Len(k.refs) \in Nat
    BY <1>1
  <2>2. IsFiniteSet(DOMAIN k.refs)
    BY <2>1, FS_Interval
  <2>3. k.refs \in Surjection(DOMAIN k.refs, Range(k.refs))
    BY <1>1 DEF Surjection, Range
  <2> QED BY <2>2, <2>3, FS_Surjection
<1>4. ASSUME NEW S \in SUBSET Items, IsFiniteSet(S), Range(k.refs) \subseteq S
      PROVE  /\ SumOver([y \in S |-> ItemFacts[y].amount], Range(k.refs)) = k.amount
             /\ k.amount \in Nat
  BY <1>1, <1>2, <1>4, ExpectedIsWorth
<1>5. k.amount \in Nat
  BY <1>2, <1>3, <1>4
<1> QED BY <1>2, <1>3, <1>4, <1>5

\* An application adds its amount on one side and the worth of its items on the
\* other, and no other account changes.
LEMMA ApplyKeepsBooks ==
    ASSUME TypeOK, BooksInv, NEW m \in Remittances, Control!Apply(m)
    PROVE  BooksInv'
<1> DEFINE k == content[m]
           e == <<m, k>>
           R == Range(k.refs)
<1>1. /\ k \in Contents /\ Applicable(k, Items) /\ R \subseteq openItems
      /\ openItems' = openItems \ R /\ openItems \subseteq Items
      /\ AppliedMap' = [AppliedMap EXCEPT ![m] = {k}] /\ AppliedMap[m] = {}
  BY DEF Control!Apply, AppliedMap, TypeOK, ErpTypeOK
<1>2. /\ AppliedUnder(m) = {} /\ AppliedUnder(m)' = {k}
      /\ \A n \in Remittances \ {m} : AppliedUnder(n)' = AppliedUnder(n)
  <2>1. \A n \in Remittances : AppliedMap[n] = AppliedUnder(n) /\ AppliedMap'[n] = AppliedUnder(n)'
    BY DEF AppliedMap
  <2>2. AppliedMap \in [Remittances -> {AppliedMap[n] : n \in Remittances}]
    BY DEF AppliedMap
  <2> QED BY <1>1, <2>1, <2>2
<1>3. e \in Remittances \X Contents /\ e[1] = m /\ e[2] = k /\ e \notin Paid
  BY <1>1, <1>2 DEF Paid
<1>4. /\ Paid' = Paid \cup {e}
      /\ \A x \in Items : PaidLike(x)' = PaidLike(x) \cup {a \in {e} : SameAccount(k, x)}
  BY <1>1, <1>2, <1>3 DEF Paid, PaidLike, SameAccount
<1>5. /\ Closed' = Closed \cup R
      /\ \A x \in Items : ClosedLike(x)' = ClosedLike(x) \cup {y \in R : SameAccount(ItemFacts[y], x)}
  BY <1>1 DEF Closed, ClosedLike, SameAccount
<1>6. IsFiniteSet(Paid') /\ \A a \in Paid' : Applicable(a[2], Items)
  BY <1>1, <1>3, <1>4, FS_AddElement DEF BooksInv
<1>7. IsFiniteSet(Closed')
  <2>1. IsFiniteSet(R)
    <3>1. k.refs \in Seq(References)
      BY <1>1, CashConstants
    <3>2. DOMAIN k.refs = 1 .. Len(k.refs) /\ Len(k.refs) \in Nat
      BY <3>1
    <3>3. IsFiniteSet(DOMAIN k.refs)
      BY <3>2, FS_Interval
    <3>4. k.refs \in Surjection(DOMAIN k.refs, R)
      BY <3>1 DEF Surjection, Range
    <3> QED BY <3>3, <3>4, FS_Surjection
  <2> QED BY <1>5, <2>1, FS_Union DEF BooksInv
<1>8. ASSUME \A n \in Remittances : \A l \in AppliedUnder(n)' : IsInjective(l.refs),
             NEW x \in Items
      PROVE  SumFunction([a \in PaidLike(x)' |-> a[2].amount])
               = SumFunction([y \in ClosedLike(x)' |-> ItemFacts[y].amount])
  <2> DEFINE P == PaidLike(x)
             C == ClosedLike(x)
  <2>1. IsInjective(k.refs) /\ \A n \in Remittances : \A l \in AppliedUnder(n) : IsInjective(l.refs)
    BY <1>2, <1>8
  <2>2. SumFunction([a \in P |-> a[2].amount]) = SumFunction([y \in C |-> ItemFacts[y].amount])
    BY <2>1 DEF BooksInv, CashBalances
  <2>3. CASE SameAccount(k, x)
    <3>1. PaidLike(x)' = P \cup {e} /\ e \notin P
      BY <1>3, <1>4, <2>3 DEF Paid, PaidLike
    <3>2. ClosedLike(x)' = C \cup R /\ C \cap R = {} /\ C \in SUBSET Items
      BY <1>1, <1>5, <2>3 DEF ClosedLike, Applicable, SameAccount
    <3>3. IsFiniteSet(P) /\ IsFiniteSet(C)
      BY FS_Subset DEF BooksInv, Paid, Closed, PaidLike, ClosedLike
    <3>4. \A a \in P \cup {e} : a[2].amount \in Nat
      <4>1. \A a \in P : /\ a[1] \in Remittances /\ a[2] \in Contents
                         /\ a[2] \in AppliedUnder(a[1]) /\ a \in Paid
        BY DEF PaidLike, Paid
      <4>2. \A a \in P : a[2] \in Contents /\ Applicable(a[2], Items) /\ IsInjective(a[2].refs)
        BY <2>1, <4>1 DEF BooksInv
      <4> QED BY <1>1, <1>3, <2>1, <4>2, ApplicableIsWorth
    <3>5. /\ R \in SUBSET Items /\ IsFiniteSet(R) /\ IsFiniteSet(C \cup R)
          /\ SumOver([y \in C \cup R |-> ItemFacts[y].amount], R) = e[2].amount
      <4>1. R \in SUBSET Items /\ IsFiniteSet(R)
        BY <1>1, <2>1, ApplicableIsWorth
      <4>2. IsFiniteSet(C \cup R) /\ C \cup R \in SUBSET Items /\ R \subseteq C \cup R
        BY <3>2, <3>3, <4>1, FS_Union
      <4> HIDE DEF C
      <4> QED BY <1>1, <1>3, <2>1, <4>1, <4>2, ApplicableIsWorth
    <3> DEFINE f == [a \in P |-> a[2].amount]
               f2 == [a \in P \cup {e} |-> a[2].amount]
               g == [y \in C |-> ItemFacts[y].amount]
               g2 == [y \in C \cup R |-> ItemFacts[y].amount]
    <3> HIDE DEF P, C, R, e
    <3>6. /\ IsFiniteSet(DOMAIN f2) /\ e \in DOMAIN f2 /\ DOMAIN f = DOMAIN f2 \ {e}
          /\ \A a \in DOMAIN f2 : f2[a] \in Int
          /\ \A a \in DOMAIN f : f[a] = f2[a]
      BY <3>1, <3>3, <3>4, FS_AddElement
    <3>7. /\ IsFiniteSet(DOMAIN g2) /\ R \in SUBSET DOMAIN g2 /\ DOMAIN g = DOMAIN g2 \ R
          /\ \A y \in DOMAIN g2 : g2[y] \in Int
          /\ \A y \in DOMAIN g : g[y] = g2[y]
      <4>1. DOMAIN g2 = C \cup R /\ DOMAIN g = C /\ C \cup R \in SUBSET Items
        BY <3>2, <3>5
      <4>2. \A y \in C \cup R : g2[y] = ItemFacts[y].amount
        OBVIOUS
      <4>3. \A y \in C : g[y] = ItemFacts[y].amount
        OBVIOUS
      <4> HIDE DEF g, g2
      <4> QED BY <3>2, <3>5, <4>1, <4>2, <4>3, AmountsAreNat
    <3>8. SumOver(g2, R) = f2[e] /\ SumFunction(f) = SumFunction(g)
      BY <2>2, <3>5
    <3> HIDE DEF f, f2, g, g2
    <3>9. SumFunction(f2) = SumFunction(g2)
      <4>1. SumOver(f2, DOMAIN f2) = f2[e] + SumOver(f2, DOMAIN f)
        BY <3>6, SumOverRemove
      <4>2. SumOver(f, DOMAIN f) = SumOver(f2, DOMAIN f)
        BY <3>6, GrownSum
      <4>3. SumOver(g, DOMAIN g) = SumOver(g2, DOMAIN g)
        BY <3>7, GrownSum
      <4>4. /\ SumOver(g2, DOMAIN g2) = SumOver(g2, DOMAIN g) + SumOver(g2, R)
            /\ SumOver(g2, DOMAIN g) \in Int
        <5>1. DOMAIN g \in SUBSET DOMAIN g2 /\ DOMAIN g \cap R = {} /\ DOMAIN g2 = DOMAIN g \cup R
          BY <3>7
        <5>2. SumOver(g2, DOMAIN g \cup R) = SumOver(g2, DOMAIN g) + SumOver(g2, R)
          BY <3>7, <5>1, SumOverDisjoint
        <5>3. SumOver(g2, DOMAIN g) \in Int
          BY <3>7, <5>1, SumOverInt
        <5> QED BY <5>1, <5>2, <5>3
      <4>5. SumOver(f, DOMAIN f) = SumOver(g, DOMAIN g)
        BY <3>8, FoldIsSumOver
      <4>6. f2[e] \in Int /\ f2[e] = SumOver(g2, R)
        BY <3>6, <3>8
      <4>7. SumOver(f2, DOMAIN f2) = SumOver(g2, DOMAIN g2)
        BY <4>1, <4>2, <4>3, <4>4, <4>5, <4>6
      <4> QED BY <4>7, FoldIsSumOver
    <3> QED BY <3>1, <3>2, <3>9 DEF f2, g2
  <2>4. CASE ~ SameAccount(k, x)
    <3>1. PaidLike(x)' = P
      BY <1>4, <2>4
    <3>2. ClosedLike(x)' = C
      BY <1>1, <1>5, <2>4 DEF Applicable, SameAccount
    <3> QED BY <2>2, <3>1, <3>2
  <2> QED BY <2>3, <2>4
<1>9. CashBalances'
  BY <1>8 DEF CashBalances
<1> QED BY <1>6, <1>7, <1>9 DEF BooksInv

LEMMA BooksStep ==
    ASSUME TypeOK, BooksInv, [Control!Next]_(Control!vars)
    PROVE  BooksInv'
<1>1. CASE \E m \in Remittances : Control!Apply(m)
  BY <1>1, ApplyKeepsBooks
<1>2. CASE ~ \E m \in Remittances : Control!Apply(m)
  <2>1. UNCHANGED openItems /\ AppliedMap' = AppliedMap
    BY <1>2 DEF Control!Next, Control!Change, Control!Learn, Control!vars, AppliedMap
  <2>2. \A n \in Remittances : AppliedUnder(n)' = AppliedUnder(n)
    <3>1. \A n \in Remittances : AppliedMap[n] = AppliedUnder(n) /\ AppliedMap'[n] = AppliedUnder(n)'
      BY DEF AppliedMap
    <3> QED BY <2>1, <3>1
  <2>3. Paid' = Paid /\ Closed' = Closed
    BY <2>1, <2>2 DEF Paid, Closed
  <2>4. \A x \in Items : PaidLike(x)' = PaidLike(x) /\ ClosedLike(x)' = ClosedLike(x)
    BY <2>1, <2>2 DEF PaidLike, ClosedLike, SameAccount
  <2>5. CashBalances'
    BY <2>2, <2>4 DEF BooksInv, CashBalances
  <2> QED BY <2>3, <2>5 DEF BooksInv
<1> QED BY <1>1, <1>2

LEMMA BooksInit == Init => BooksInv
<1> SUFFICES ASSUME Init PROVE BooksInv
  OBVIOUS
<1>1. openItems = Items /\ \A m \in Remittances : AppliedUnder(m) = {}
  BY DEF Init, ErpInit, AppliedUnder
<1>2. Paid = {} /\ Closed = {}
  BY <1>1 DEF Paid, Closed
<1>3. ASSUME NEW x \in Items
      PROVE  SumFunction([a \in PaidLike(x) |-> a[2].amount])
               = SumFunction([y \in ClosedLike(x) |-> ItemFacts[y].amount])
  <2>1. PaidLike(x) = {} /\ ClosedLike(x) = {}
    BY <1>1 DEF PaidLike, ClosedLike
  <2>2. [a \in PaidLike(x) |-> a[2].amount] = [y \in ClosedLike(x) |-> ItemFacts[y].amount]
    BY <2>1
  <2> QED BY <2>2
<1>4. IsFiniteSet(Paid) /\ IsFiniteSet(Closed)
  BY <1>2, FS_EmptySet
<1> QED BY <1>2, <1>3, <1>4 DEF BooksInv, CashBalances

\* One request at a time, what a customer has paid in a currency is what the
\* closed items of the customer in this currency were worth, for any items,
\* remittances and configurations, whatever is retried, corrected or lost
\* (erp.py:89-117).
THEOREM BooksBalance == ASSUME OneAtATime PROVE Spec => []CashBalances
<1>1. TypeOK /\ BooksInv /\ [Control!Next]_(Control!vars) => BooksInv'
  BY BooksStep
<1>2. BooksInv => CashBalances
  BY DEF BooksInv
<1>3. Spec => Init /\ []TypeOK
  BY TypeCorrect, PTL DEF Spec
<1>4. Spec => [][Control!Next]_(Control!vars)
  BY ApplicationRefines, PTL DEF CashIsControlled, Control!Spec
<1> QED BY BooksInit, <1>1, <1>2, <1>3, <1>4, PTL
=============================================================================
