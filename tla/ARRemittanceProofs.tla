-------------------------- MODULE ARRemittanceProofs --------------------------
(***************************************************************************)
(* Theorems about ARRemittance, for every set of remittances, items,       *)
(* contents, threads and configurations.                                   *)
(***************************************************************************)
EXTENDS ARRemittance, FiniteSetTheorems, TLAPS

---------------------------------------------------------------------------
(* Types.                                                                  *)

\* The fields an idle thread, and one that takes up a remittance, start with.
LEMMA RequestTypes ==
    /\ IdleRequest \in Request
    /\ IdleRequest.pc = "idle"
    /\ \A r \in Callers, pc \in ArSteps, m \in Remittances :
         /\ Active(r, pc, m) \in Request
         /\ Active(r, pc, m).pc = pc
         /\ Active(r, pc, m).rem = m
<1>1. (CHOOSE m \in Remittances : TRUE) \in Remittances
  BY ArConstants
<1>2. (CHOOSE k \in Contents : TRUE) \in Contents
  BY ArConstants
<1>3. IdleRequest \in Request
  BY <1>1, <1>2 DEF IdleRequest, Request, AgentActions, Decisions
<1>4. QED
  BY <1>3 DEF IdleRequest, Active, Request

\* Writing values of the right type into a thread's fields keeps it typed.
LEMMA RequestEdits ==
    ASSUME NEW q \in Request
    PROVE  /\ \A pc \in ArSteps : [q EXCEPT !.pc = pc] \in Request
           /\ \A b \in BOOLEAN : [q EXCEPT !.matched = b] \in Request
           /\ \A m \in Remittances : [q EXCEPT !.rem = m] \in Request
           /\ \A d \in Decisions : [q EXCEPT !.decision = d] \in Request
           /\ \A k \in Contents : [q EXCEPT !.correction = k] \in Request
<1>1. \A pc \in ArSteps : [q EXCEPT !.pc = pc] \in Request
  BY DEF Request
<1>2. \A b \in BOOLEAN : [q EXCEPT !.matched = b] \in Request
  BY DEF Request
<1>3. \A m \in Remittances : [q EXCEPT !.rem = m] \in Request
  BY DEF Request
<1>4. \A d \in Decisions : [q EXCEPT !.decision = d] \in Request
  BY DEF Request
<1>5. \A k \in Contents : [q EXCEPT !.correction = k] \in Request
  BY DEF Request
<1>6. QED
  BY <1>1, <1>2, <1>3, <1>4, <1>5

\* Moving a thread, or ending its request, keeps req typed and leaves the other
\* threads alone.
LEMMA ReqFrame ==
    ASSUME req \in [Callers -> Request], NEW r \in Callers
    PROVE  /\ \A pc \in {"idle"} \cup ArSteps : Goto(r, pc) =>
                /\ req' \in [Callers -> Request]
                /\ req'[r] = [req[r] EXCEPT !.pc = pc]
                /\ req'[r].pc = pc
                /\ req'[r].rem = req[r].rem
                /\ req'[r].matched = req[r].matched
                /\ \A s \in Callers \ {r} : req'[s] = req[s]
           /\ \A q \in Request : Become(r, q) =>
                /\ req' \in [Callers -> Request]
                /\ req'[r] = q
                /\ \A s \in Callers \ {r} : req'[s] = req[s]
           /\ Finish(r) =>
                /\ req' \in [Callers -> Request]
                /\ req'[r] = IdleRequest
                /\ req'[r].pc = "idle"
                /\ \A s \in Callers \ {r} : req'[s] = req[s]
BY RequestTypes DEF Goto, Become, Finish, Request

\* Every step of the ERP keeps its dictionaries and its calls typed.
LEMMA ErpStepTypes ==
    ASSUME ErpTypeOK, NEW c \in cashCalls, CashStep(c)
    PROVE  ErpTypeOK'
<1> USE DEF ErpTypeOK, erpVars
<1>1. c \in CashCall
  OBVIOUS
<1>2. ASSUME NEW a \in Application \cup {NoApplication}, Answer(c, a)
      PROVE  cashCalls' \subseteq CashCall
  BY <1>1, <1>2 DEF Answer, CashCall, CashPhases
<1>3. NewApplication(c) \in Application
  BY <1>1 DEF NewApplication, Application, CashCall
<1>4. CASE CashReplay(c)
  BY <1>1, <1>2, <1>4 DEF CashReplay, CashCall
<1>5. CASE CashRefuse(c)
  BY <1>2, <1>5 DEF CashRefuse
<1>6. CASE CashCheck(c)
  BY <1>1, <1>6 DEF CashCheck, CashCall, CashPhases
<1>7. CASE CashClose(c)
  <2>1. cashCalls' \subseteq CashCall
    BY <1>1, <1>7 DEF CashClose, CashCall, CashPhases
  <2>2. timesClosed' \in [Items -> Nat]
    BY <1>7 DEF CashClose
  <2>3. QED
    BY <1>7, <2>1, <2>2 DEF CashClose
<1>8. CASE CashFile(c)
  BY <1>1, <1>2, <1>3, <1>8 DEF CashFile, CashCall
<1>9. QED
  BY <1>4, <1>5, <1>6, <1>7, <1>8 DEF CashStep

\* The system starts typed.
LEMMA TypeInit == Init => TypeOK
<1> SUFFICES ASSUME Init PROVE TypeOK
  OBVIOUS
<1>1. ErpTypeOK
  BY CashConstants DEF Init, ErpInit, ErpTypeOK
<1>2. (CHOOSE k \in Contents : TRUE) \in Contents
  BY ArConstants
<1>3. QED
  BY <1>1, <1>2, RequestTypes DEF Init, TypeOK

\* Every step keeps it typed.
LEMMA TypeStep == TypeOK /\ [Next]_vars => TypeOK'
<1> SUFFICES ASSUME TypeOK, [Next]_vars PROVE TypeOK'
  OBVIOUS
<1> USE DEF TypeOK, Status, ArSteps
<1>1. \A r \in Callers :
        req[r] \in Request /\ req[r].rem \in Remittances
        /\ req[r].matched \in BOOLEAN /\ req[r].correction \in Contents
  BY DEF Request
<1>2. ASSUME NEW r \in Callers, NEW pc \in ArSteps, NEW m \in Remittances
      PROVE  Active(r, pc, m) \in Request
  BY RequestTypes
<1>3. ASSUME NEW m \in Remittances, NEW e \in SUBSET Evidence, Record(m, e)
      PROVE  /\ current' \in [Remittances -> SUBSET Evidence]
             /\ history' \in [Remittances -> SUBSET Evidence]
  BY <1>3 DEF Record
<1>4. ASSUME NEW r \in Callers, HandlerStep(r) PROVE TypeOK'
  <2> USE DEF erpVars, ErpTypeOK
  <2>1. CASE RetrievePolicy(r)
    BY <2>1, ReqFrame DEF RetrievePolicy
  <2>2. CASE RunMatch(r)
    <3>1. Matches(req[r].rem) \in BOOLEAN
      BY DEF Matches
    <3>2. [[req[r] EXCEPT !.pc = "save_match"] EXCEPT !.matched = Matches(req[r].rem)]
            \in Request
      BY <3>1, <1>1, RequestEdits
    <3>3. req' \in [Callers -> Request]
      BY <2>2, <3>2 DEF RunMatch
    <3>4. QED
      BY <2>2, <3>3, <1>1, <1>3 DEF RunMatch, Evidence
  <2>3. CASE SaveMatch(r)
    BY <2>3, <1>1, ReqFrame DEF SaveMatch
  <2>4. ASSUME NEW q \in AgentActions, EvaluateMatch(r, q) PROVE TypeOK'
    <3>1. [req[r] EXCEPT !.pc = "finalize", !.requested = q] \in Request
      BY <1>1 DEF Request
    <3>2. QED
      BY <2>4, <3>1, <1>1, <1>2, ReqFrame DEF EvaluateMatch
  <2>5. CASE Finalize(r)
    BY <2>5, <1>1, ReqFrame DEF Finalize
  <2>6. CASE RunFails(r)
    BY <2>6, ReqFrame DEF RunFails
  <2>7. CASE SendCash(r)
    <3>1. [caller |-> r, rem |-> req[r].rem, content |-> content[req[r].rem],
           phase |-> "sent", application |-> NoApplication, live |-> TRUE]
            \in CashCall
      BY <1>1 DEF CashCall, CashPhases
    <3>2. QED
      BY <2>7, <3>1, ReqFrame DEF SendCash
  <2>8. ASSUME NEW c \in cashCalls, ReceiveCash(r, c) PROVE TypeOK'
    <3>1. [req[r] EXCEPT !.pc = "set_posted", !.answer = c.application] \in Request
      BY <1>1 DEF Request, CashCall
    <3>2. QED
      BY <2>8, <3>1 DEF ReceiveCash
  <2>9. ASSUME NEW c \in cashCalls, CashLost(r, c) PROVE TypeOK'
    BY <2>9, ReqFrame DEF CashLost
  <2>10. ASSUME NEW c \in cashCalls, CashTimesOut(r, c) PROVE TypeOK'
    <3>1. [c EXCEPT !.live = FALSE] \in CashCall
      BY <2>10 DEF CashCall
    <3>2. QED
      BY <2>10, <3>1, ReqFrame DEF CashTimesOut
  <2>11. CASE SetPosted(r)
    BY <2>11, <1>1, ReqFrame DEF SetPosted
  <2>12. CASE Close(r)
    BY <2>12, <1>1, ReqFrame DEF Close
  <2>13. CASE Correct(r)
    BY <2>13, <1>1, <1>2, ReqFrame DEF Correct
  <2>14. CASE ApproveApply(r)
    <3>1. req' \in [Callers -> Request]
      BY <2>14, <1>1, <1>2, ReqFrame DEF ApproveApply
    <3>2. QED
      BY <2>14, <3>1, <1>1, <1>3 DEF ApproveApply, Evidence
  <2>15. QED
    BY <1>4, <2>1, <2>2, <2>3, <2>4, <2>5, <2>6, <2>7, <2>8, <2>9, <2>10, <2>11,
       <2>12, <2>13, <2>14 DEF HandlerStep
<1>5. ASSUME NEW r \in Callers, ErpServes(r) PROVE TypeOK'
  BY <1>5, ErpStepTypes DEF ErpServes, arVars
<1>6. ASSUME NEW r \in Callers, NEW m \in Remittances, NewRequest(r, m)
      PROVE  TypeOK'
  <2> USE DEF erpVars, ErpTypeOK
  <2>1. ASSUME NEW k \in Contents, Ingest(r, m, k) PROVE TypeOK'
    BY <2>1, <1>2, ReqFrame DEF Ingest
  <2>2. ASSUME NEW d \in Decisions, NEW k \in Corrections(d),
               StartDecision(r, m, d, k)
        PROVE  TypeOK'
    <3>1. k \in Contents
      BY RequestTypes DEF Corrections, Request
    <3>2. [[[[IdleRequest EXCEPT !.pc = "decide"] EXCEPT !.rem = m]
            EXCEPT !.decision = d] EXCEPT !.correction = k] \in Request
      BY <3>1, RequestTypes, RequestEdits
    <3>3. [IdleRequest EXCEPT !.pc = "decide", !.rem = m, !.decision = d,
                              !.correction = k] \in Request
      BY <3>2
    <3>4. QED
      BY <2>2, <3>3, ReqFrame DEF StartDecision
  <2>3. QED
    BY <1>6, <2>1, <2>2 DEF NewRequest
<1>7. CASE UNCHANGED vars
  BY <1>7 DEF vars, arVars, erpVars, ErpTypeOK
<1>8. QED
  BY <1>4, <1>5, <1>6, <1>7 DEF Next

\* Type correctness of the whole system, in every configuration.
THEOREM TypeCorrect == Spec => []TypeOK
BY TypeInit, TypeStep, PTL DEF Spec

---------------------------------------------------------------------------
(* What any two steps have in common.                                      *)

\* A thread's step leaves the other threads, the configuration and the
\* applications alone, and evidence once recorded stays on record.
LEMMA HandlerFrame ==
    ASSUME TypeOK, NEW r \in Callers, HandlerStep(r)
    PROVE  /\ \A s \in Callers \ {r} : req'[s] = req[s]
           /\ UNCHANGED <<settings, openItems, cashByRemittance, timesClosed>>
           /\ \A m \in Remittances : history[m] \subseteq history'[m]
<1>1. /\ req \in [Callers -> Request]
      /\ history \in [Remittances -> SUBSET Evidence]
  BY DEF TypeOK
<1>2. \A s \in Callers \ {r} : req'[s] = req[s]
  <2>1. ASSUME NEW pc, Goto(r, pc) PROVE \A s \in Callers \ {r} : req'[s] = req[s]
    BY <1>1, <2>1 DEF Goto
  <2>2. ASSUME NEW q, Become(r, q) PROVE \A s \in Callers \ {r} : req'[s] = req[s]
    BY <1>1, <2>2 DEF Become
  <2>3. CASE RunMatch(r) \/ \E c \in cashCalls : ReceiveCash(r, c)
    BY <1>1, <2>3 DEF RunMatch, ReceiveCash
  <2>4. CASE ~(RunMatch(r) \/ \E c \in cashCalls : ReceiveCash(r, c))
    BY <2>1, <2>2, <2>4
    DEF HandlerStep, RetrievePolicy, SaveMatch, EvaluateMatch, Finalize,
        RunFails, SendCash, CashLost, CashTimesOut, SetPosted, Close,
        Correct, ApproveApply, Finish
  <2>5. QED
    BY <2>3, <2>4
<1>3. UNCHANGED <<settings, openItems, cashByRemittance, timesClosed>>
  BY DEF HandlerStep, RetrievePolicy, RunMatch, SaveMatch, EvaluateMatch, Finalize,
      RunFails, SendCash, ReceiveCash, CashLost, CashTimesOut, SetPosted, Close,
      Correct, ApproveApply, erpVars
<1>4. \A m \in Remittances : history[m] \subseteq history'[m]
  <2>1. ASSUME NEW e, NEW n, Record(n, e)
        PROVE  \A m \in Remittances : history[m] \subseteq history'[m]
    BY <1>1, <2>1 DEF Record
  <2>2. CASE RunMatch(r) \/ ApproveApply(r)
    BY <2>1, <2>2 DEF RunMatch, ApproveApply
  <2>3. CASE ~(RunMatch(r) \/ ApproveApply(r))
    BY <2>3
    DEF HandlerStep, RetrievePolicy, SaveMatch, EvaluateMatch, Finalize,
        RunFails, SendCash, ReceiveCash, CashLost, CashTimesOut, SetPosted, Close,
        Correct
  <2>4. QED
    BY <2>2, <2>3
<1>5. QED
  BY <1>2, <1>3, <1>4

\* So does a new request, which leaves the ERP alone altogether.
LEMMA NewRequestFrame ==
    ASSUME TypeOK, NEW r \in Callers, NEW m \in Remittances, NewRequest(r, m)
    PROVE  /\ req[r].pc = "idle"
           /\ req' \in [Callers -> Request]
           /\ req'[r].pc \in {"retrieve_policy", "decide"}
           /\ req'[r].rem = m
           /\ \A s \in Callers \ {r} : req'[s] = req[s]
           /\ UNCHANGED <<erpVars, result, current, history>>
<1>1. req \in [Callers -> Request]
  BY DEF TypeOK
<1>2. ASSUME NEW k \in Contents, Ingest(r, m, k)
      PROVE  /\ req[r].pc = "idle"
             /\ req' \in [Callers -> Request]
             /\ req'[r].pc \in {"retrieve_policy", "decide"}
             /\ req'[r].rem = m
             /\ \A s \in Callers \ {r} : req'[s] = req[s]
             /\ UNCHANGED <<erpVars, result, current, history>>
  <2> DEFINE q == Active(r, "retrieve_policy", m)
  <2>1. q \in Request /\ q.pc = "retrieve_policy" /\ q.rem = m
    BY RequestTypes DEF ArSteps
  <2>2. /\ req[r].pc = "idle"
        /\ req' = [req EXCEPT ![r] = q]
        /\ UNCHANGED <<erpVars, result, current, history>>
    BY <1>2 DEF Ingest, Become, At
  <2> HIDE DEF q
  <2>3. QED
    BY <1>1, <2>1, <2>2
<1>3. ASSUME NEW d \in Decisions, NEW k \in Corrections(d), StartDecision(r, m, d, k)
      PROVE  /\ req[r].pc = "idle"
             /\ req' \in [Callers -> Request]
             /\ req'[r].pc \in {"retrieve_policy", "decide"}
             /\ req'[r].rem = m
             /\ \A s \in Callers \ {r} : req'[s] = req[s]
             /\ UNCHANGED <<erpVars, result, current, history>>
  <2> DEFINE q == [IdleRequest EXCEPT !.pc = "decide", !.rem = m, !.decision = d,
                                      !.correction = k]
  <2>1. /\ req[r].pc = "idle"
        /\ req' = [req EXCEPT ![r] = q]
        /\ UNCHANGED <<erpVars, result, current, history>>
    BY <1>3 DEF StartDecision, Become, At
  <2>2. k \in Contents
    BY RequestTypes DEF Corrections, Request
  <2>3. [[[[IdleRequest EXCEPT !.pc = "decide"] EXCEPT !.rem = m]
            EXCEPT !.decision = d] EXCEPT !.correction = k] \in Request
    BY <2>2, RequestTypes, RequestEdits DEF ArSteps
  <2>4. q \in Request
    BY <2>3
  <2>5. q.pc = "decide" /\ q.rem = m
    BY DEF IdleRequest
  <2> HIDE DEF q
  <2>6. QED
    BY <1>1, <2>1, <2>4, <2>5
<1>4. QED
  BY <1>2, <1>3 DEF NewRequest

\* The ERP moves one call on: what it leaves in the place of c is for the same
\* thread, remittance and fields.
LEMMA ErpServesOneCall ==
    ASSUME NEW c \in cashCalls, c \in CashCall, CashStep(c)
    PROVE  \A d \in cashCalls' \ (cashCalls \ {c}) :
             /\ d.caller = c.caller
             /\ d.rem = c.rem
             /\ d.content = c.content
             /\ d.live = c.live
             /\ \A e \in cashCalls' \ (cashCalls \ {c}) : e = d
<1>1. ASSUME NEW a, Answer(c, a)
      PROVE  \A d \in cashCalls' \ (cashCalls \ {c}) :
             /\ d.caller = c.caller
             /\ d.rem = c.rem
             /\ d.content = c.content
             /\ d.live = c.live
             /\ \A e \in cashCalls' \ (cashCalls \ {c}) : e = d
  <2> DEFINE served == [c EXCEPT !.phase = "answered", !.application = a]
  <2>1. /\ served.caller = c.caller
        /\ served.rem = c.rem
        /\ served.content = c.content
        /\ served.live = c.live
    BY DEF CashCall
  <2>2. \A d \in cashCalls' \ (cashCalls \ {c}) : d = served
    BY <1>1 DEF Answer
  <2> HIDE DEF served
  <2>3. QED
    BY <2>1, <2>2
<1>2. CASE CashCheck(c) \/ CashClose(c)
  BY <1>2 DEF CashCheck, CashClose, CashCall
<1>3. QED
  BY <1>1, <1>2 DEF CashStep, CashReplay, CashRefuse, CashFile
---------------------------------------------------------------------------
(* A thread and the call it waits for.                                     *)

\* Whoever waits for a call's answer is the thread that sent it, for the same
\* remittance, and it waits for no other.
CallsAreAwaited ==
    /\ \A c \in cashCalls : c.live =>
         req[c.caller].pc = "await_erp" /\ req[c.caller].rem = c.rem
    /\ \A c, d \in cashCalls : c.live /\ d.live /\ c.caller = d.caller => c = d

\* Initially the ERP has no calls.
LEMMA AwaitedInit == Init => CallsAreAwaited
BY DEF Init, ErpInit, CallsAreAwaited

\* Every step preserves the invariant.
LEMMA AwaitedStep ==
    TypeOK /\ CallsAreAwaited /\ [Next]_vars => CallsAreAwaited'
<1> SUFFICES ASSUME TypeOK, CallsAreAwaited, [Next]_vars
             PROVE  CallsAreAwaited'
  OBVIOUS
<1> USE DEF CallsAreAwaited
<1>1. /\ req \in [Callers -> Request]
      /\ cashCalls \subseteq CashCall
  BY DEF TypeOK, ErpTypeOK
<1>2. \A c \in cashCalls : c \in CashCall /\ c.caller \in Callers
  BY <1>1 DEF CashCall
  \* A thread that waits for no answer may move.
<1>3. ASSUME UNCHANGED cashCalls, NEW r \in Callers, req[r].pc # "await_erp",
             \A s \in Callers \ {r} : req'[s] = req[s]
      PROVE  CallsAreAwaited'
  BY <1>2, <1>3
  \* A thread that is done with its call may move.
<1>4. ASSUME NEW r \in Callers, NEW c \in CallOf(r),
             \A s \in Callers \ {r} : req'[s] = req[s],
             \A d \in cashCalls' : d \in cashCalls \ {c} \/ ~d.live
      PROVE  CallsAreAwaited'
  BY <1>2, <1>4 DEF CallOf
<1>5. ASSUME NEW r \in Callers, ErpServes(r) PROVE CallsAreAwaited'
  <2>1. PICK c \in cashCalls : CashStep(c) /\ UNCHANGED arVars
    BY <1>5 DEF ErpServes
  <2>2. \A d \in cashCalls' \ (cashCalls \ {c}) :
          /\ d.caller = c.caller /\ d.rem = c.rem /\ d.live = c.live
          /\ \A e \in cashCalls' \ (cashCalls \ {c}) : e = d
    BY <2>1, <1>2, ErpServesOneCall
  <2>3. req' = req
    BY <2>1 DEF arVars
  <2>4. QED
    BY <2>2, <2>3
<1>6. ASSUME NEW r \in Callers, HandlerStep(r) PROVE CallsAreAwaited'
  <2>1. \A s \in Callers \ {r} : req'[s] = req[s]
    BY <1>6, HandlerFrame
  <2>2. CASE SendCash(r)
    <3>1. \A c \in cashCalls' \ cashCalls : c.caller = r /\ c.rem = req[r].rem
      BY <2>2 DEF SendCash
    <3>2. \A c, d \in cashCalls' \ cashCalls : c = d
      BY <2>2 DEF SendCash
    <3>3. \A c \in cashCalls : c.live => c.caller # r
      BY <2>2 DEF SendCash, At
    <3>4. req'[r].pc = "await_erp" /\ req'[r].rem = req[r].rem
      BY <2>2, <1>1, ReqFrame DEF SendCash, ArSteps
    <3>5. QED
      BY <3>1, <3>2, <3>3, <3>4, <2>1, <1>2
  <2>3. ASSUME NEW c \in cashCalls, ReceiveCash(r, c) \/ CashLost(r, c)
        PROVE  CallsAreAwaited'
    BY <2>1, <2>3, <1>4 DEF ReceiveCash, CashLost
  <2>4. ASSUME NEW c \in cashCalls, CashTimesOut(r, c) PROVE CallsAreAwaited'
    <3>1. ~[c EXCEPT !.live = FALSE].live
      BY <1>2 DEF CashCall
    <3>2. c \in CallOf(r) /\ \A d \in cashCalls' : d \in cashCalls \ {c} \/ ~d.live
      BY <2>4, <3>1 DEF CashTimesOut
    <3>3. QED
      BY <3>2, <2>1, <1>4
  <2>5. CASE \/ RetrievePolicy(r) \/ RunMatch(r) \/ SaveMatch(r) \/ Finalize(r)
             \/ (\E q \in AgentActions : EvaluateMatch(r, q)) \/ RunFails(r)
             \/ SetPosted(r) \/ Close(r) \/ Correct(r) \/ ApproveApply(r)
    <3>1. UNCHANGED cashCalls /\ req[r].pc # "await_erp"
      BY <2>5
      DEF RetrievePolicy, RunMatch, SaveMatch, EvaluateMatch, Finalize, RunFails,
          SetPosted, Close, Correct, ApproveApply, At, erpVars
    <3>2. QED
      BY <3>1, <2>1, <1>3
  <2>6. QED
    BY <1>6, <2>2, <2>3, <2>4, <2>5 DEF HandlerStep
<1>7. ASSUME NEW r \in Callers, NEW m \in Remittances, NewRequest(r, m)
      PROVE  CallsAreAwaited'
  <2>1. UNCHANGED cashCalls /\ req[r].pc # "await_erp"
    BY <1>7, NewRequestFrame DEF erpVars
  <2>2. QED
    BY <2>1, <1>3, <1>7, NewRequestFrame
<1>8. CASE UNCHANGED vars
  BY <1>8 DEF vars, arVars, erpVars
<1>9. QED
  BY <1>5, <1>6, <1>7, <1>8 DEF Next

---------------------------------------------------------------------------
(* Cash is applied on evidence.                                            *)

\* What a thread or a saved result remembers of a match has happened, and what
\* is sent to the ERP has been allowed.  In the order in which a remittance goes
\* through them: the run, the saved result, the call, the application.
MatchIsRemembered ==
    /\ \A r \in Callers :
         req[r].pc \in {"save_match", "evaluate_match", "finalize"} /\ req[r].matched
             => "match" \in history[req[r].rem]
    /\ \A m \in Remittances : TRUE \in result[m] => "match" \in history[m]

SentIsAllowed ==
    /\ \A r \in Callers : req[r].pc \in {"erp_call", "await_erp", "set_posted"}
         => Sufficient(history[req[r].rem])
    /\ \A c \in cashCalls : Sufficient(history[c.rem])

EvidenceInv ==
    /\ MatchIsRemembered
    /\ SentIsAllowed
    /\ AppliedNeedsEvidence

\* Initially nothing has been matched, sent or applied.
LEMMA EvidenceInit == Init => EvidenceInv
BY RequestTypes
DEF Init, ErpInit, EvidenceInv, MatchIsRemembered, SentIsAllowed,
    AppliedNeedsEvidence, Applied

\* Evidence on record stays sufficient as the record grows.
LEMMA SufficientStays ==
    ASSUME NEW m, settings' = settings, history[m] \subseteq history'[m],
           Sufficient(history[m])
    PROVE  Sufficient(history[m])'
BY DEF Sufficient

\* A step of the ERP preserves it: it applies what a call asks for.
LEMMA EvidenceErpStep ==
    ASSUME TypeOK, EvidenceInv, NEW r \in Callers, ErpServes(r)
    PROVE  EvidenceInv'
<1> USE DEF EvidenceInv, Applied, Sufficient
<1>1. /\ cashCalls \subseteq CashCall
      /\ cashByRemittance \in [Remittances -> Application \cup {NoApplication}]
      /\ req \in [Callers -> Request]
  BY DEF TypeOK, ErpTypeOK
<1>2. PICK c \in cashCalls : CashStep(c) /\ UNCHANGED arVars
  BY DEF ErpServes
<1>3. c \in CashCall
  BY <1>1
<1>4. settings' = settings
  BY <1>2 DEF CashStep, CashReplay, CashRefuse, CashCheck, CashClose, CashFile
<1>5. \A m \in Remittances :
        cashByRemittance'[m] # cashByRemittance[m] => m = c.rem
  BY <1>1, <1>2 DEF CashStep, CashReplay, CashRefuse, CashCheck, CashClose, CashFile
<1>6. AppliedNeedsEvidence'
  BY <1>2, <1>4, <1>5 DEF AppliedNeedsEvidence, SentIsAllowed, arVars
<1>7. \A d \in cashCalls' : d \in cashCalls \/ d.rem = c.rem
  BY <1>2, <1>3, ErpServesOneCall
<1>8. SentIsAllowed'
  BY <1>2, <1>4, <1>7 DEF SentIsAllowed, arVars
<1>9. MatchIsRemembered'
  BY <1>2 DEF MatchIsRemembered, arVars
<1>10. QED
  BY <1>6, <1>8, <1>9
\* A thread's step preserves it.
LEMMA EvidenceHandlerStep ==
    ASSUME TypeOK, EvidenceInv, NEW r \in Callers, HandlerStep(r)
    PROVE  EvidenceInv'
<1> USE DEF EvidenceInv
<1>1. /\ req \in [Callers -> Request]
      /\ cashCalls \subseteq CashCall
      /\ result \in [Remittances -> SUBSET BOOLEAN]
      /\ history \in [Remittances -> SUBSET Evidence]
  BY DEF TypeOK, ErpTypeOK
<1>2. \A s \in Callers : req[s] \in Request /\ req[s].rem \in Remittances
  BY <1>1 DEF Request
<1>3. /\ \A s \in Callers \ {r} : req'[s] = req[s]
      /\ UNCHANGED <<settings, cashByRemittance>>
      /\ \A m \in Remittances : history[m] \subseteq history'[m]
  BY HandlerFrame
<1>4. \A m \in Remittances : Sufficient(history[m]) => Sufficient(history[m])'
  BY <1>3, SufficientStays
<1>5. AppliedNeedsEvidence'
  BY <1>3, <1>4 DEF AppliedNeedsEvidence, Applied
<1>6. \A c \in cashCalls : c.rem \in Remittances
  BY <1>1 DEF CashCall
  \* A step that saves no result and sends nothing, and whose thread goes where
  \* it needs no more evidence.
<1>7. ASSUME UNCHANGED result, \A c \in cashCalls' : \E d \in cashCalls : d.rem = c.rem,
             req'[r].pc \in {"save_match", "evaluate_match", "finalize"}
               /\ req'[r].matched => "match" \in history'[req'[r].rem],
             req'[r].pc \in {"erp_call", "await_erp", "set_posted"}
               => Sufficient(history[req[r].rem]) /\ req'[r].rem = req[r].rem
      PROVE  EvidenceInv'
  <2>1. MatchIsRemembered'
    BY <1>2, <1>3, <1>7 DEF MatchIsRemembered
  <2>2. SentIsAllowed'
    <3>1. \A s \in Callers : req'[s].pc \in {"erp_call", "await_erp", "set_posted"}
            => Sufficient(history[req'[s].rem]) /\ req'[s].rem \in Remittances
      BY <1>2, <1>3, <1>7 DEF SentIsAllowed
    <3>2. \A c \in cashCalls' : Sufficient(history[c.rem]) /\ c.rem \in Remittances
      BY <1>6, <1>7 DEF SentIsAllowed
    <3>3. QED
      BY <3>1, <3>2, <1>4 DEF SentIsAllowed
  <2>3. QED
    BY <2>1, <2>2, <1>5
<1>8. CASE RetrievePolicy(r) \/ RunFails(r) \/ Close(r)
  <2>1. UNCHANGED <<result, cashCalls>>
    BY <1>8 DEF RetrievePolicy, RunFails, Close, erpVars
  <2>2. req'[r].pc \in {"idle", "request_match"}
    BY <1>8, <1>1, ReqFrame DEF RetrievePolicy, RunFails, Close, ArSteps
  <2>3. QED
    BY <2>1, <2>2, <1>7
<1>9. CASE RunMatch(r)
  <2>1. /\ req'[r].pc = "save_match"
        /\ req'[r].matched = Matches(req[r].rem)
        /\ req'[r].rem = req[r].rem
    BY <1>9, <1>1, <1>2 DEF RunMatch, Request
  <2>2. Matches(req[r].rem) => "match" \in history'[req[r].rem]
    BY <1>9, <1>1, <1>2 DEF RunMatch, Record
  <2>3. UNCHANGED <<result, cashCalls>>
    BY <1>9 DEF RunMatch, erpVars
  <2>4. QED
    BY <2>1, <2>2, <2>3, <1>7
  \* A step that writes a thread's result, and moves the thread on with it.
<1>10. ASSUME NEW b \in SUBSET BOOLEAN,
              result' = [result EXCEPT ![req[r].rem] = b],
              TRUE \in b => "match" \in history[req[r].rem],
              UNCHANGED <<cashCalls, history>>,
              req'[r].pc \notin {"erp_call", "await_erp", "set_posted"},
              req'[r].pc \in {"save_match", "evaluate_match", "finalize"}
                /\ req'[r].matched => "match" \in history[req'[r].rem]
       PROVE  EvidenceInv'
  <2>1. MatchIsRemembered'
    BY <1>1, <1>2, <1>3, <1>10 DEF MatchIsRemembered
  <2>2. SentIsAllowed'
    BY <1>2, <1>3, <1>6, <1>10 DEF SentIsAllowed, Sufficient
  <2>3. QED
    BY <2>1, <2>2, <1>5
<1>11. CASE SaveMatch(r)
  <2>1. /\ req'[r].pc = "evaluate_match"
        /\ req'[r].matched = req[r].matched
        /\ req'[r].rem = req[r].rem
    BY <1>11, <1>1, ReqFrame DEF SaveMatch, ArSteps
  <2>2. req[r].matched \in BOOLEAN
    BY <1>2 DEF Request
  <2>3. req[r].matched => "match" \in history[req[r].rem]
    BY <1>11 DEF SaveMatch, At, MatchIsRemembered
  <2>4. /\ result' = [result EXCEPT ![req[r].rem] = {req[r].matched}]
        /\ UNCHANGED <<cashCalls, history>>
    BY <1>11 DEF SaveMatch, erpVars
  <2>5. {req[r].matched} \in SUBSET BOOLEAN
    BY <2>2
  <2>6. TRUE \in {req[r].matched} => "match" \in history[req[r].rem]
    BY <2>2, <2>3
  <2>7. QED
    BY <2>1, <2>3, <2>4, <2>5, <2>6, <1>10
<1>12. ASSUME NEW q \in AgentActions, EvaluateMatch(r, q) PROVE EvidenceInv'
  <2>1. UNCHANGED <<result, cashCalls, history>>
    BY <1>12 DEF EvaluateMatch, erpVars
  <2>2. CASE RoutesToApply(req[r].matched, q)
    <3>1. req'[r] = Active(r, "erp_call", req[r].rem)
      BY <1>1, <1>12, <2>2 DEF EvaluateMatch, Become
    <3>2. req'[r].pc = "erp_call" /\ req'[r].rem = req[r].rem
      BY <1>2, <3>1, RequestTypes DEF ArSteps
    <3>3. Sufficient(history[req[r].rem])
      BY <1>12, <2>2
      DEF EvaluateMatch, At, RoutesToApply, AutoActionPermitted, MatchIsRemembered,
          Sufficient
    <3>4. QED
      BY <2>1, <3>2, <3>3, <1>7
  <2>3. CASE ~RoutesToApply(req[r].matched, q)
    <3>1. req'[r] = [req[r] EXCEPT !.pc = "finalize", !.requested = q]
      BY <1>1, <1>12, <2>3 DEF EvaluateMatch, Become
    <3>2. /\ req'[r].pc = "finalize"
          /\ req'[r].matched = req[r].matched
          /\ req'[r].rem = req[r].rem
      BY <1>2, <3>1 DEF Request
    <3>3. req[r].matched => "match" \in history[req[r].rem]
      BY <1>12 DEF EvaluateMatch, At, MatchIsRemembered
    <3>4. QED
      BY <2>1, <3>2, <3>3, <1>7
  <2>4. QED
    BY <2>2, <2>3
<1>13. CASE Finalize(r)
  <2> DEFINE gated == ApprovalRequired(req[r].matched, req[r].requested)
  <2>1. /\ UNCHANGED <<cashCalls, history>>
        /\ req'[r].pc = "idle"
        /\ result' = [result EXCEPT ![req[r].rem] = IF gated THEN {TRUE} ELSE @]
    BY <1>13, <1>1, ReqFrame DEF Finalize, erpVars
  <2>2. gated => "match" \in history[req[r].rem]
    BY <1>13 DEF Finalize, At, ApprovalRequired, MatchIsRemembered
  <2> HIDE DEF gated
  <2>3. CASE gated
    BY <2>1, <2>2, <2>3, <1>10
  <2>4. CASE ~gated
    BY <2>1, <2>4, <1>1, <1>7
  <2>5. QED
    BY <2>3, <2>4
<1>14. CASE SendCash(r)
  <2>1. /\ UNCHANGED <<result, history>>
        /\ \A c \in cashCalls' : c \in cashCalls \/ c.rem = req[r].rem
    BY <1>14 DEF SendCash
  <2>2. /\ req'[r].pc = "await_erp"
        /\ req'[r].rem = req[r].rem
        /\ Sufficient(history[req[r].rem])
    BY <1>14, <1>1, ReqFrame DEF SendCash, ArSteps, At, SentIsAllowed
  <2>3. MatchIsRemembered'
    BY <2>1, <2>2, <1>3 DEF MatchIsRemembered
  <2>4. SentIsAllowed'
    BY <2>1, <2>2, <1>2, <1>3, <1>6 DEF SentIsAllowed, Sufficient
  <2>5. QED
    BY <2>3, <2>4, <1>5
<1>15. ASSUME NEW c \in cashCalls,
              ReceiveCash(r, c) \/ CashLost(r, c) \/ CashTimesOut(r, c)
       PROVE  EvidenceInv'
  <2>1. [c EXCEPT !.live = FALSE].rem = c.rem
    BY <1>1 DEF CashCall
  <2>2. /\ UNCHANGED <<result, history>>
        /\ \A d \in cashCalls' : \E e \in cashCalls : e.rem = d.rem
    BY <1>15, <2>1 DEF ReceiveCash, CashLost, CashTimesOut
  <2>3. /\ req'[r].pc \in {"idle", "set_posted"}
        /\ req'[r].pc = "set_posted"
             => req'[r].rem = req[r].rem /\ Sufficient(history[req[r].rem])
    BY <1>15, <1>1, <1>2, ReqFrame
    DEF ReceiveCash, CashLost, CashTimesOut, At, SentIsAllowed, Request
  <2>4. QED
    BY <2>2, <2>3, <1>7
<1>16. CASE SetPosted(r)
  <2>1. "match" \in history[req[r].rem]
    BY <1>16 DEF SetPosted, At, SentIsAllowed, Sufficient
  <2>2. /\ result' = [result EXCEPT ![req[r].rem] = {TRUE}]
        /\ UNCHANGED <<cashCalls, history>>
        /\ req'[r].pc = "idle"
    BY <1>1, <1>16, ReqFrame DEF SetPosted, erpVars
  <2>3. {TRUE} \in SUBSET BOOLEAN
    OBVIOUS
  <2>4. QED
    BY <2>1, <2>2, <2>3, <1>10
<1>17. CASE Correct(r)
  <2>1. /\ result' = [result EXCEPT ![req[r].rem] = {}]
        /\ UNCHANGED <<cashCalls, history>>
        /\ req'[r] = Active(r, "retrieve_policy", req[r].rem)
    BY <1>1, <1>17 DEF Correct, Become, erpVars
  <2>2. req'[r].pc = "retrieve_policy"
    BY <1>2, <2>1, RequestTypes DEF ArSteps
  <2>3. {} \in SUBSET BOOLEAN /\ TRUE \notin {}
    OBVIOUS
  <2>4. QED
    BY <2>1, <2>2, <2>3, <1>10
<1>18. CASE ApproveApply(r)
  <2>1. UNCHANGED <<result, cashCalls>>
    BY <1>18 DEF ApproveApply, erpVars
  <2>2. CASE MayApprove(req[r].rem)
    <3>0. req'[r] = Active(r, "erp_call", req[r].rem)
      BY <1>1, <1>18, <2>2 DEF ApproveApply, Become
    <3>1. req'[r].pc = "erp_call" /\ req'[r].rem = req[r].rem
      BY <1>2, <3>0, RequestTypes DEF ArSteps
    <3>2. {"match", "approval"} \subseteq history'[req[r].rem]
      BY <1>1, <1>2, <1>18, <2>2
      DEF ApproveApply, Record, MayApprove, MatchIsRemembered
    <3>3. MatchIsRemembered'
      BY <2>1, <3>1, <1>2, <1>3 DEF MatchIsRemembered
    <3>4. SentIsAllowed'
      <4>1. Sufficient(history[req[r].rem])'
        BY <3>1, <3>2 DEF Sufficient
      <4>2. QED
        BY <2>1, <3>1, <4>1, <1>2, <1>3, <1>4, <1>6 DEF SentIsAllowed
    <3>5. QED
      BY <3>3, <3>4, <1>5
  <2>3. CASE ~MayApprove(req[r].rem)
    <3>1. req'[r].pc = "idle"
      BY <1>1, <1>18, <2>3, ReqFrame DEF ApproveApply
    <3>2. QED
      BY <2>1, <3>1, <1>7
  <2>4. QED
    BY <2>2, <2>3
<1>19. QED
  BY <1>8, <1>9, <1>11, <1>12, <1>13, <1>14, <1>15, <1>16, <1>17, <1>18
  DEF HandlerStep
\* Every step preserves it: a new request has no evidence to show yet.
LEMMA EvidenceStep == TypeOK /\ EvidenceInv /\ [Next]_vars => EvidenceInv'
<1> SUFFICES ASSUME TypeOK, EvidenceInv, [Next]_vars PROVE EvidenceInv'
  OBVIOUS
<1> USE DEF EvidenceInv, MatchIsRemembered, SentIsAllowed, AppliedNeedsEvidence,
            Applied, Sufficient
<1>1. ASSUME NEW r \in Callers, NEW m \in Remittances, NewRequest(r, m)
      PROVE  EvidenceInv'
  <2>1. /\ req'[r].pc \in {"retrieve_policy", "decide"}
        /\ \A s \in Callers \ {r} : req'[s] = req[s]
        /\ UNCHANGED <<settings, cashByRemittance, cashCalls, result, history>>
    BY <1>1, NewRequestFrame DEF erpVars
  <2>2. QED
    BY <2>1
<1>2. CASE UNCHANGED vars
  BY <1>2 DEF vars, arVars, erpVars
<1>3. QED
  BY <1>1, <1>2, EvidenceHandlerStep, EvidenceErpStep DEF Next

\* No cash is applied without the evidence it takes, whatever two threads, late
\* calls and retries do to the remittance in the meantime.
THEOREM AppliedHasEvidence == Spec => []AppliedNeedsEvidence
<1>1. EvidenceInv => AppliedNeedsEvidence
  BY DEF EvidenceInv
<1>2. QED
  BY TypeInit, TypeStep, EvidenceInit, EvidenceStep, <1>1, PTL DEF Spec

---------------------------------------------------------------------------
(* A posted remittance has been applied.                                   *)

\* An answer that names an application, in the ERP or in a thread's hands, is
\* the answer to a call for a remittance that has been applied.
AnswersAreApplied ==
    /\ \A c \in cashCalls : c.phase = "answered" /\ c.application # NoApplication
         => Applied(c.rem)
    /\ \A r \in Callers : req[r].pc = "set_posted" /\ req[r].answer # NoApplication
         => Applied(req[r].rem)

PostedInv ==
    /\ CallsAreAwaited
    /\ AnswersAreApplied
    /\ PostedIsApplied

\* Initially nothing has been answered or posted.
LEMMA PostedInit == Init => PostedInv
BY AwaitedInit, RequestTypes
DEF Init, ErpInit, PostedInv, AnswersAreApplied, PostedIsApplied

\* A step of the ERP preserves it: an application is there to stay.
LEMMA PostedErpStep ==
    ASSUME TypeOK, PostedInv, NEW r \in Callers, ErpServes(r)
    PROVE  AnswersAreApplied' /\ PostedIsApplied'
<1> USE DEF PostedInv, Applied
<1>1. /\ cashCalls \subseteq CashCall
      /\ cashByRemittance \in [Remittances -> Application \cup {NoApplication}]
      /\ req \in [Callers -> Request]
  BY DEF TypeOK, ErpTypeOK
<1>2. PICK c \in cashCalls : CashStep(c) /\ UNCHANGED arVars
  BY DEF ErpServes
<1>3. c \in CashCall /\ c.rem \in Remittances
  BY <1>1 DEF CashCall
<1>4. NewApplication(c) # NoApplication
  BY <1>3, NoApplicationIsNone DEF NewApplication, Application, CashCall
<1>5. \A m \in Remittances : Applied(m) => Applied(m)'
  BY <1>1, <1>2, <1>4
  DEF CashStep, CashReplay, CashRefuse, CashCheck, CashClose, CashFile
<1>6. ASSUME NEW a, Answer(c, a), a # NoApplication => Applied(c.rem)'
      PROVE  \A d \in cashCalls' :
               d.phase = "answered" /\ d.application # NoApplication
                 => d.rem \in Remittances /\ Applied(d.rem)'
  <2> DEFINE served == [c EXCEPT !.phase = "answered", !.application = a]
  <2>1. served.application = a /\ served.rem = c.rem
    BY <1>3 DEF CashCall
  <2>2. \A d \in cashCalls' : d \in cashCalls \/ d = served
    BY <1>6 DEF Answer
  <2>3. \A d \in cashCalls : d.phase = "answered" /\ d.application # NoApplication
          => d.rem \in Remittances /\ Applied(d.rem)'
    BY <1>1, <1>5 DEF AnswersAreApplied, CashCall
  <2> HIDE DEF served
  <2>4. QED
    BY <1>3, <1>6, <2>1, <2>2, <2>3
<1>7. \A d \in cashCalls' : d.phase = "answered" /\ d.application # NoApplication
        => Applied(d.rem)'
  <2>1. CASE CashReplay(c) \/ CashRefuse(c)
    BY <2>1, <1>3, <1>6 DEF CashReplay, CashRefuse
  <2>2. CASE CashCheck(c) \/ CashClose(c)
    <3>1. \A d \in cashCalls' : d.phase = "answered" => d \in cashCalls
      BY <2>2, <1>3 DEF CashCheck, CashClose, CashCall
    <3>2. QED
      BY <3>1, <1>1, <1>5 DEF AnswersAreApplied, CashCall
  <2>3. CASE CashFile(c)
    <3>1. Applied(c.rem)'
      BY <2>3, <1>1, <1>3, <1>4 DEF CashFile
    <3>2. Answer(c, NewApplication(c))
      BY <2>3 DEF CashFile
    <3>3. QED
      BY <3>1, <3>2, <1>6
  <2>4. QED
    BY <1>2, <2>1, <2>2, <2>3 DEF CashStep
<1>8. \A s \in Callers : req[s].rem \in Remittances
  BY <1>1 DEF Request
<1>9. QED
  BY <1>2, <1>5, <1>7, <1>8 DEF AnswersAreApplied, PostedIsApplied, arVars

\* A thread's step preserves it: a thread is given the answer to its own call.
LEMMA PostedHandlerStep ==
    ASSUME TypeOK, PostedInv, NEW r \in Callers, HandlerStep(r)
    PROVE  AnswersAreApplied' /\ PostedIsApplied'
<1> USE DEF PostedInv, Applied
<1>1. /\ req \in [Callers -> Request]
      /\ cashCalls \subseteq CashCall
      /\ status \in [Remittances -> Status \cup {"absent"}]
  BY DEF TypeOK, ErpTypeOK
<1>2. req[r] \in Request /\ req[r].rem \in Remittances
  BY <1>1 DEF Request
<1>3. /\ \A s \in Callers \ {r} : req'[s] = req[s]
      /\ UNCHANGED cashByRemittance
  BY HandlerFrame
  \* A step that posts nothing and gives its thread no answer.
<1>4. ASSUME req'[r].pc # "set_posted",
             \A m \in Remittances : status'[m] = "POSTED" => status[m] = "POSTED",
             \A c \in cashCalls' : c.phase = "answered" => c \in cashCalls
      PROVE  AnswersAreApplied' /\ PostedIsApplied'
  BY <1>3, <1>4 DEF AnswersAreApplied, PostedIsApplied
<1>5. CASE \/ RetrievePolicy(r) \/ RunMatch(r) \/ SaveMatch(r) \/ Finalize(r)
           \/ (\E q \in AgentActions : EvaluateMatch(r, q)) \/ RunFails(r)
           \/ Close(r) \/ Correct(r) \/ ApproveApply(r)
  <2>1. UNCHANGED cashCalls
    BY <1>5
    DEF RetrievePolicy, RunMatch, SaveMatch, Finalize, EvaluateMatch, RunFails, Close,
        Correct, ApproveApply, erpVars
  <2>2. \A m \in Remittances : status'[m] = "POSTED" => status[m] = "POSTED"
    BY <1>1, <1>5
    DEF RetrievePolicy, RunMatch, SaveMatch, Finalize, EvaluateMatch, RunFails, Close,
        Correct, ApproveApply
  <2>3. req'[r].pc # "set_posted"
    <3>1. \A pc \in ArSteps : Active(r, pc, req[r].rem).pc = pc
      BY <1>2, RequestTypes
    <3>2. \A q \in AgentActions : [req[r] EXCEPT !.pc = "finalize", !.requested = q].pc
            = "finalize"
      BY <1>2 DEF Request
    <3>3. ASSUME NEW q \in AgentActions, EvaluateMatch(r, q)
          PROVE  req'[r].pc \in {"erp_call", "finalize"}
      BY <1>1, <3>1, <3>2, <3>3 DEF EvaluateMatch, Become, ArSteps
    <3>4. CASE Correct(r) \/ ApproveApply(r)
      BY <1>1, <3>1, <3>4, ReqFrame DEF Correct, ApproveApply, Become, ArSteps
    <3>5. CASE RunMatch(r)
      BY <1>1, <1>2, <3>5 DEF RunMatch, Request
    <3>6. CASE RetrievePolicy(r) \/ SaveMatch(r)
      <4>1. Goto(r, "request_match") \/ Goto(r, "evaluate_match")
        BY <3>6 DEF RetrievePolicy, SaveMatch
      <4>2. ASSUME NEW pc \in ArSteps, Goto(r, pc) PROVE req'[r].pc = pc
        BY <4>2, <1>1, ReqFrame
      <4>3. QED
        BY <4>1, <4>2 DEF ArSteps
    <3>7. CASE Finalize(r) \/ RunFails(r) \/ Close(r)
      BY <1>1, <3>7, ReqFrame DEF Finalize, RunFails, Close
    <3>8. QED
      BY <1>5, <3>3, <3>4, <3>5, <3>6, <3>7
  <2>4. QED
    BY <2>1, <2>2, <2>3, <1>4
<1>6. CASE SendCash(r)
  <2>1. \A c \in cashCalls' : c.phase = "answered" => c \in cashCalls
    BY <1>6 DEF SendCash
  <2>2. req'[r].pc = "await_erp" /\ status' = status
    BY <1>1, <1>6, ReqFrame DEF SendCash, ArSteps
  <2>3. QED
    BY <2>1, <2>2, <1>4
<1>7. ASSUME NEW c \in cashCalls, ReceiveCash(r, c)
      PROVE  AnswersAreApplied' /\ PostedIsApplied'
  <2>1. /\ cashCalls' = cashCalls \ {c}
        /\ c.phase = "answered" /\ req[r].rem = c.rem
        /\ status' = status
    BY <1>7 DEF ReceiveCash, CallOf, CallsAreAwaited
  <2>2. req'[r].rem = req[r].rem /\ req'[r].answer = c.application
    BY <1>1, <1>2, <1>7 DEF ReceiveCash, Request
  <2>3. req[r].rem \in Remittances
    BY <1>2
  <2>4. QED
    BY <2>1, <2>2, <2>3, <1>3 DEF AnswersAreApplied, PostedIsApplied
<1>8. ASSUME NEW c \in cashCalls, CashLost(r, c) \/ CashTimesOut(r, c)
      PROVE  AnswersAreApplied' /\ PostedIsApplied'
  <2>1. [c EXCEPT !.live = FALSE].phase = c.phase
    BY <1>1 DEF CashCall
  <2>2. \A d \in cashCalls' : d.phase = "answered" => d \in cashCalls
    BY <1>8, <2>1 DEF CashLost, CashTimesOut
  <2>3. req'[r].pc = "idle" /\ status' = status
    BY <1>1, <1>8, ReqFrame DEF CashLost, CashTimesOut
  <2>4. QED
    BY <2>2, <2>3, <1>4
<1>9. CASE SetPosted(r)
  <2>1. /\ UNCHANGED cashCalls
        /\ req'[r].pc = "idle"
    BY <1>1, <1>9, ReqFrame DEF SetPosted, erpVars
  <2>2. \A m \in Remittances : status'[m] = "POSTED" =>
          status[m] = "POSTED" \/ (m = req[r].rem /\ req[r].answer # NoApplication)
    BY <1>1, <1>9 DEF SetPosted
  <2>3. req[r].pc = "set_posted"
    BY <1>9 DEF SetPosted, At
  <2>4. QED
    BY <2>1, <2>2, <2>3, <1>3 DEF AnswersAreApplied, PostedIsApplied
<1>10. QED
  BY <1>5, <1>6, <1>7, <1>8, <1>9 DEF HandlerStep

\* Every step preserves it.
LEMMA PostedStep == TypeOK /\ PostedInv /\ [Next]_vars => PostedInv'
<1> SUFFICES ASSUME TypeOK, PostedInv, [Next]_vars PROVE PostedInv'
  OBVIOUS
<1>1. CallsAreAwaited'
  BY AwaitedStep DEF PostedInv
<1>2. ASSUME NEW r \in Callers, NEW m \in Remittances, NewRequest(r, m)
      PROVE  AnswersAreApplied' /\ PostedIsApplied'
  <2>1. /\ req'[r].pc # "set_posted"
        /\ \A s \in Callers \ {r} : req'[s] = req[s]
        /\ UNCHANGED <<cashByRemittance, cashCalls>>
    BY <1>2, NewRequestFrame DEF erpVars
  <2>2. \A n \in Remittances : status'[n] = "POSTED" => status[n] = "POSTED"
    BY <1>2 DEF NewRequest, Ingest, StartDecision, TypeOK
  <2>3. QED
    BY <2>1, <2>2 DEF PostedInv, AnswersAreApplied, PostedIsApplied, Applied
<1>3. CASE UNCHANGED vars
  <2>1. UNCHANGED <<req, status, cashCalls, cashByRemittance>>
    BY <1>3 DEF vars, arVars, erpVars
  <2>2. QED
    BY <1>1, <2>1 DEF PostedInv, AnswersAreApplied, PostedIsApplied, Applied
<1>4. QED
  BY <1>1, <1>2, <1>3, PostedHandlerStep, PostedErpStep DEF Next, PostedInv

\* A remittance is POSTED only if the ERP has an application of it.
THEOREM PostedHasApplication == Spec => []PostedIsApplied
<1>1. PostedInv => PostedIsApplied
  BY DEF PostedInv
<1>2. QED
  BY TypeInit, TypeStep, PostedInit, PostedStep, <1>1, PTL DEF Spec
=============================================================================
