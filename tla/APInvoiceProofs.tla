--------------------------- MODULE APInvoiceProofs ---------------------------
(***************************************************************************)
(* Theorems about APInvoice, for every set of invoices, keys, threads and  *)
(* configurations.                                                         *)
(***************************************************************************)
EXTENDS APInvoice, FiniteSetTheorems, TLAPS

---------------------------------------------------------------------------
(* Types.                                                                  *)

\* The fields an idle thread, and one entering post(), start with are typed.
LEMMA RequestTypes ==
    /\ IdleRequest \in Request
    /\ IdleRequest.pc = "idle"
    /\ \A i \in Invoices, k \in Keys :
         /\ PostRequest(i, k) \in Request
         /\ PostRequest(i, k).pc = "get_journal"
         /\ PostRequest(i, k).inv = i
<1>1. (CHOOSE i \in Invoices : TRUE) \in Invoices
  BY ApConstants
<1>2. IdleRequest \in Request
  BY <1>1, ApConstants DEF IdleRequest, Request, AgentActions
<1>3. QED
  BY <1>2 DEF IdleRequest, PostRequest, Request, PostSteps

\* Every step of the ERP keeps its dictionaries and its calls typed.
LEMMA ErpStepTypes ==
    ASSUME ErpTypeOK, NEW c \in calls, ErpStep(c)
    PROVE  ErpTypeOK'
<1> USE DEF ErpTypeOK, erpVars
<1>1. c \in Call /\ c = [caller |-> c.caller, inv |-> c.inv, key |-> c.key,
           approved |-> c.approved, phase |-> c.phase,
           journal |-> c.journal, live |-> c.live]
  BY DEF Call
<1>2. ASSUME NEW p \in Phases, NEW j \in Journal \cup {NoJournal}
      PROVE  [c EXCEPT !.phase = p, !.journal = j] \in Call
  BY <1>1 DEF Call
<1>3. ASSUME NEW p \in Phases, NEW j \in Journal \cup {NoJournal},
             Return(c, p, j)
      PROVE  calls' \subseteq Call
  BY <1>2, <1>3 DEF Return
<1>4. NewJournal(c) \in Journal
  BY <1>1 DEF NewJournal, Journal, Call
<1>5. CASE ErpRefuse(c)
  BY <1>3, <1>5 DEF ErpRefuse, Phases
<1>6. CASE ErpReplayByKey(c)
  BY <1>1, <1>3, <1>6 DEF ErpReplayByKey, Phases, Call
<1>7. CASE ErpReplayByInvoice(c)
  BY <1>1, <1>3, <1>7 DEF ErpReplayByInvoice, Phases, Call
<1>8. CASE ErpMiss(c)
  BY <1>1, <1>8 DEF ErpMiss, Phases, Call
<1>9. CASE ErpCreate(c)
  BY <1>1, <1>3, <1>4, <1>9 DEF ErpCreate, Phases, Call
<1>10. QED
  BY <1>5, <1>6, <1>7, <1>8, <1>9 DEF ErpStep

\* The ERP adds no call: what it leaves is a call it had, or the one it served.
LEMMA ErpStepCalls ==
    ASSUME NEW c \in calls, c \in Call, ErpStep(c)
    PROVE  \A d \in calls' : d \in calls \/ d.inv = c.inv
<1>1. ASSUME NEW p, NEW j, Return(c, p, j)
      PROVE  \A d \in calls' : d \in calls \/ d.inv = c.inv
  <2>1. [c EXCEPT !.phase = p, !.journal = j].inv = c.inv
    BY DEF Call
  <2>2. QED
    BY <1>1, <2>1 DEF Return
<1>2. CASE ErpMiss(c)
  BY <1>2 DEF ErpMiss, Call
<1>3. QED
  BY <1>1, <1>2 DEF ErpStep, ErpRefuse, ErpReplayByKey, ErpReplayByInvoice,
                    ErpCreate

\* Moving a thread to a program point, or ending its request, keeps req typed.
LEMMA ReqTypes ==
    ASSUME req \in [Callers -> Request], NEW r \in Callers
    PROVE  /\ \A pc \in {"idle", "decide"} \cup MatchSteps \cup PostSteps :
                Goto(r, pc) => req' \in [Callers -> Request]
           /\ Finish(r) => req' \in [Callers -> Request]
BY RequestTypes DEF Goto, Finish, Request

\* An answered call, and a thread that has its answer, hold a journal: what
\* SaveJournal adds to the repository is one.  TypeOK is inductive only with it.
JournalAtHand ==
    /\ \A c \in calls : c.phase = "answered" => c.journal # NoJournal
    /\ \A r \in Callers :
         req[r].pc \in {"set_posted", "save_journal"} => req[r].journal # NoJournal

TypeInv == TypeOK /\ JournalAtHand

\* The system starts typed.
LEMMA TypeInit == Init => TypeInv
<1> SUFFICES ASSUME Init PROVE TypeInv
  OBVIOUS
<1>1. ErpTypeOK
  BY DEF Init, ErpInit, ErpTypeOK
<1>2. TypeOK
  BY <1>1, RequestTypes DEF Init, TypeOK
<1>3. JournalAtHand
  BY RequestTypes DEF Init, ErpInit, JournalAtHand
<1>4. QED
  BY <1>2, <1>3 DEF TypeInv

\* Every step keeps it typed.
LEMMA TypeStep == TypeInv /\ [Next]_vars => TypeOK'
<1> SUFFICES ASSUME TypeOK, JournalAtHand, [Next]_vars PROVE TypeOK'
  BY DEF TypeInv
<1> USE DEF TypeOK, Status, Events
<1>1. ASSUME NEW i \in Invoices, Ingest(i) PROVE TypeOK'
  BY <1>1 DEF Ingest, erpVars, ErpTypeOK
<1>2. ASSUME NEW r \in Callers, MatchStep(r) PROVE TypeOK'
  <2> USE DEF erpVars, ErpTypeOK
  <2>1. req[r] \in Request
    OBVIOUS
  <2>2. CASE RetrievePolicy(r)
    BY <2>2, ReqTypes DEF RetrievePolicy, MatchSteps
  <2>3. CASE RunMatch(r)
    BY <2>3, <2>1 DEF RunMatch, Request, MatchSteps, Matches
  <2>4. CASE SaveMatch(r)
    BY <2>4, <2>1, ReqTypes DEF SaveMatch, Request, MatchSteps
  <2>5. CASE SetMatchStatus(r)
    BY <2>5, <2>1, ReqTypes DEF SetMatchStatus, Request, MatchSteps
  <2>6. ASSUME NEW q \in AgentActions, EvaluateMatch(r, q) PROVE TypeOK'
    <3>1. [req[r] EXCEPT !.pc = "finalize", !.requested = q] \in Request
      BY <2>1 DEF Request, MatchSteps
    <3>2. PostRequest(req[r].inv, AutoKey[req[r].inv]) \in Request
      BY <2>1, RequestTypes, ApConstants DEF Request
    <3>3. QED
      BY <2>6, <3>1, <3>2 DEF EvaluateMatch
  <2>7. CASE Finalize(r)
    BY <2>7, <2>1, ReqTypes DEF Finalize, Request
  <2>8. CASE MatchFails(r)
    BY <2>8, ReqTypes DEF MatchFails
  <2>9. QED
    BY <1>2, <2>2, <2>3, <2>4, <2>5, <2>6, <2>7, <2>8 DEF MatchStep
<1>3. ASSUME NEW r \in Callers, PostStep(r) PROVE TypeOK'
  <2> USE DEF erpVars, ErpTypeOK
  <2>1. req[r] \in Request
    OBVIOUS
  <2>2. CASE ReplayJournal(r)
    BY <2>2, ReqTypes DEF ReplayJournal
  <2>3. CASE NoKnownJournal(r)
    BY <2>3, ReqTypes DEF NoKnownJournal, PostSteps
  <2>4. CASE PostGuard(r)
    BY <2>4, ReqTypes DEF PostGuard, PostSteps
  <2>5. CASE SendJournal(r)
    <3>0. ASSUME NEW b \in BOOLEAN
          PROVE [caller |-> r, inv |-> req[r].inv, key |-> req[r].key,
                 approved |-> b, phase |-> "sent", journal |-> NoJournal,
                 live |-> TRUE] \in Call
      BY <2>1 DEF Call, Request, Phases
    <3>1. calls' \subseteq Call
      BY <2>5, <3>0, Zenon DEF SendJournal
    <3>2. QED
      BY <2>5, <3>1, ReqTypes DEF SendJournal, PostSteps
  <2>6. ASSUME NEW c \in calls, ReceiveJournal(r, c) PROVE TypeOK'
    <3>1. [req[r] EXCEPT !.pc = "set_posted", !.journal = c.journal] \in Request
      BY <2>1, <2>6 DEF Request, PostSteps, Call
    <3>2. QED
      BY <2>6, <3>1 DEF ReceiveJournal
  <2>7. ASSUME NEW c \in calls, ReceiveConflict(r, c) PROVE TypeOK'
    BY <2>7, ReqTypes DEF ReceiveConflict
  <2>8. ASSUME NEW c \in calls, CallLost(r, c) PROVE TypeOK'
    BY <2>8, ReqTypes DEF CallLost
  <2>9. ASSUME NEW c \in calls, CallTimesOut(r, c) PROVE TypeOK'
    <3>1. [c EXCEPT !.live = FALSE] \in Call
      BY <2>9 DEF Call
    <3>2. QED
      BY <2>9, <3>1, ReqTypes DEF CallTimesOut
  <2>10. CASE SetPosted(r)
    BY <2>10, <2>1, ReqTypes DEF SetPosted, PostSteps, Request
  <2>11. CASE SaveJournal(r)
    <3>1. req[r].journal \in Journal
      BY <2>11, <2>1 DEF SaveJournal, At, JournalAtHand, Request
    <3>2. QED
      BY <2>11, <3>1, ReqTypes DEF SaveJournal
  <2>12. QED
    BY <1>3, <2>2, <2>3, <2>4, <2>5, <2>6, <2>7, <2>8, <2>9, <2>10, <2>11
    DEF PostStep
<1>4. ASSUME NEW r \in Callers, RecordDecision(r) PROVE TypeOK'
  BY <1>4, ReqTypes DEF RecordDecision, erpVars, ErpTypeOK, Request
<1>5. ASSUME NEW r \in Callers, ErpServes(r) PROVE TypeOK'
  BY <1>5, ErpStepTypes DEF ErpServes, apVars
<1>6. ASSUME NEW r \in Callers, NEW i \in Invoices, NewRequest(r, i)
      PROVE  TypeOK'
  <2> USE DEF erpVars, ErpTypeOK
  <2>1. ASSUME NEW b \in BOOLEAN, StartMatch(r, i, b) PROVE TypeOK'
    <3>1. [IdleRequest EXCEPT !.pc = "retrieve_policy", !.inv = i,
                              !.receipt = b] \in Request
      BY RequestTypes DEF Request, MatchSteps
    <3>2. QED
      BY <2>1, <3>1 DEF StartMatch
  <2>2. ASSUME NEW k \in ClientKeys[i], StartPost(r, i, k) PROVE TypeOK'
    <3>1. k \in Keys
      BY ApConstants
    <3>2. QED
      BY <2>2, <3>1, RequestTypes DEF StartPost
  <2>3. ASSUME NEW b \in BOOLEAN, StartDecision(r, i, b) PROVE TypeOK'
    <3>1. [IdleRequest EXCEPT !.pc = "decide", !.inv = i,
                              !.approved = b] \in Request
      BY RequestTypes DEF Request
    <3>2. QED
      BY <2>3, <3>1 DEF StartDecision
  <2>4. QED
    BY <1>6, <2>1, <2>2, <2>3 DEF NewRequest
<1>7. CASE UNCHANGED vars
  BY <1>7 DEF vars, apVars, erpVars, ErpTypeOK
<1>8. QED
  BY <1>1, <1>2, <1>3, <1>4, <1>5, <1>6, <1>7 DEF Next, HandlerStep

\* Every step keeps a journal in the hands of those that are past the ERP.
LEMMA HandStep == TypeInv /\ [Next]_vars => JournalAtHand'
<1> SUFFICES ASSUME TypeOK, JournalAtHand, [Next]_vars PROVE JournalAtHand'
  BY DEF TypeInv
<1> USE DEF JournalAtHand
<1> USE DEF TypeOK, ErpTypeOK, erpVars
<1>1. ASSUME NEW r \in Callers, ErpServes(r) PROVE JournalAtHand'
  <2>1. PICK c \in calls : ErpStep(c) /\ UNCHANGED apVars
    BY <1>1 DEF ErpServes
  <2>2. c \in Call /\ NewJournal(c) \in Journal
    BY DEF Call, NewJournal, Journal
  <2>3. ASSUME NEW j \in Journal \cup {NoJournal}, NEW p \in Phases,
               Return(c, p, j), p = "answered" => j # NoJournal
        PROVE  JournalAtHand'
    <3>1. [c EXCEPT !.phase = p, !.journal = j].phase = p
          /\ [c EXCEPT !.phase = p, !.journal = j].journal = j
      BY <2>2 DEF Call
    <3>2. QED
      BY <2>1, <2>3, <3>1 DEF Return, apVars
  <2>4. CASE ErpRefuse(c)
    BY <2>3, <2>4 DEF ErpRefuse, Phases
  <2>5. CASE ErpReplayByKey(c)
    BY <2>2, <2>3, <2>5 DEF ErpReplayByKey, Phases, Call
  <2>6. CASE ErpReplayByInvoice(c)
    BY <2>2, <2>3, <2>6 DEF ErpReplayByInvoice, Phases, Call
  <2>7. CASE ErpMiss(c)
    BY <2>1, <2>2, <2>7 DEF ErpMiss, Call, apVars
  <2>8. CASE ErpCreate(c)
    BY <2>2, <2>3, <2>8, ErpConstants DEF ErpCreate, Phases
  <2>9. QED
    BY <2>1, <2>4, <2>5, <2>6, <2>7, <2>8 DEF ErpStep
<1>2. ASSUME NEW i \in Invoices, Ingest(i) PROVE JournalAtHand'
  BY <1>2 DEF Ingest
<1>3. ASSUME NEW r \in Callers, MatchStep(r) PROVE JournalAtHand'
  <2>1. CASE RetrievePolicy(r) \/ SaveMatch(r) \/ SetMatchStatus(r)
    BY <2>1 DEF RetrievePolicy, SaveMatch, SetMatchStatus, Goto, Request
  <2>2. CASE RunMatch(r)
    BY <2>2 DEF RunMatch, Request
  <2>3. ASSUME NEW q \in AgentActions, EvaluateMatch(r, q)
        PROVE  JournalAtHand'
    <3>1. PostRequest(req[r].inv, AutoKey[req[r].inv]).pc = "get_journal"
      BY RequestTypes, ApConstants DEF Request
    <3>2. QED
      BY <2>3, <3>1 DEF EvaluateMatch, Request
  <2>4. CASE Finalize(r) \/ MatchFails(r)
    BY <2>4, RequestTypes DEF Finalize, MatchFails, Finish
  <2>5. QED
    BY <1>3, <2>1, <2>2, <2>3, <2>4 DEF MatchStep
<1>4. ASSUME NEW r \in Callers, PostStep(r) PROVE JournalAtHand'
  <2>1. CASE ReplayJournal(r) \/ NoKnownJournal(r) \/ PostGuard(r)
    BY <2>1, RequestTypes
    DEF ReplayJournal, NoKnownJournal, PostGuard, Goto, Finish, Request
  <2>2. CASE SendJournal(r)
    BY <2>2 DEF SendJournal, Goto, Request
  <2>3. CASE \E c \in calls : \/ ReceiveJournal(r, c) \/ ReceiveConflict(r, c)
                              \/ CallLost(r, c)
    BY <2>3, RequestTypes
    DEF ReceiveJournal, ReceiveConflict, CallLost, Finish, Request
  <2>4. CASE \E c \in calls : CallTimesOut(r, c)
    <3>1. PICK c \in calls : CallTimesOut(r, c)
      BY <2>4
    <3>2. [c EXCEPT !.live = FALSE].phase = c.phase
      BY DEF Call
    <3>3. QED
      BY <3>1, <3>2, RequestTypes DEF CallTimesOut, Finish, Request
  <2>5. CASE SetPosted(r) \/ SaveJournal(r)
    BY <2>5, RequestTypes DEF SetPosted, SaveJournal, At, Goto, Finish, Request
  <2>6. QED
    BY <1>4, <2>1, <2>2, <2>3, <2>4, <2>5 DEF PostStep
<1>5. ASSUME NEW r \in Callers, RecordDecision(r) PROVE JournalAtHand'
  BY <1>5, RequestTypes DEF RecordDecision, Finish
<1>6. ASSUME NEW r \in Callers, NEW i \in Invoices, NewRequest(r, i)
      PROVE  JournalAtHand'
  <2>1. ASSUME NEW b \in BOOLEAN, StartMatch(r, i, b) PROVE JournalAtHand'
    BY <2>1, RequestTypes DEF StartMatch, Request
  <2>2. ASSUME NEW k \in ClientKeys[i], StartPost(r, i, k)
        PROVE  JournalAtHand'
    BY <2>2, RequestTypes, ApConstants DEF StartPost
  <2>3. ASSUME NEW b \in BOOLEAN, StartDecision(r, i, b) PROVE JournalAtHand'
    BY <2>3, RequestTypes DEF StartDecision, Request
  <2>4. QED
    BY <1>6, <2>1, <2>2, <2>3 DEF NewRequest
<1>7. CASE UNCHANGED vars
  BY <1>7 DEF vars, apVars
<1>8. QED
  BY <1>1, <1>2, <1>3, <1>4, <1>5, <1>6, <1>7 DEF Next, HandlerStep

\* Type correctness of the whole system, in every configuration.
THEOREM TypeCorrect == Spec => []TypeOK
<1>1. TypeInv /\ [Next]_vars => TypeInv'
  BY TypeStep, HandStep DEF TypeInv
<1>2. QED
  BY TypeInit, <1>1, PTL DEF Spec, TypeInv

---------------------------------------------------------------------------
(* Payment needs authority.                                                *)

\* Nothing that happened to an invoice is undone and the settings are frozen,
\* so an invoice once authorised stays so.
LEMMA HistoryGrows ==
    ASSUME TypeInv, [Next]_vars
    PROVE  /\ settings' = settings
           /\ \A i \in Invoices : history[i] \subseteq history'[i]
<1> USE DEF TypeInv, TypeOK, erpVars, apVars
<1>1. ASSUME NEW r \in Callers, ErpServes(r)
      PROVE  settings' = settings /\ history' = history
  BY <1>1 DEF ErpServes, ErpStep, ErpRefuse, ErpReplayByKey,
              ErpReplayByInvoice, ErpMiss, ErpCreate
<1>2. ASSUME NEW i \in Invoices, Ingest(i)
      PROVE  settings' = settings /\ history' = history
  BY <1>2 DEF Ingest
<1>3. ASSUME NEW r \in Callers, MatchStep(r)
      PROVE  /\ settings' = settings
             /\ \A i \in Invoices : history[i] \subseteq history'[i]
  BY <1>3 DEF MatchStep, RetrievePolicy, RunMatch, SaveMatch, SetMatchStatus,
              EvaluateMatch, Finalize, MatchFails
<1>4. ASSUME NEW r \in Callers, PostStep(r)
      PROVE  settings' = settings /\ history' = history
  BY <1>4 DEF PostStep, ReplayJournal, NoKnownJournal, PostGuard, SendJournal,
              ReceiveJournal, ReceiveConflict, CallLost, CallTimesOut,
              SetPosted, SaveJournal
<1>5. ASSUME NEW r \in Callers, RecordDecision(r)
      PROVE  /\ settings' = settings
             /\ \A i \in Invoices : history[i] \subseteq history'[i]
  BY <1>5 DEF RecordDecision
<1>6. ASSUME NEW r \in Callers, NEW i \in Invoices, NewRequest(r, i)
      PROVE  settings' = settings /\ history' = history
  BY <1>6 DEF NewRequest, StartMatch, StartPost, StartDecision
<1>7. CASE UNCHANGED vars
  BY <1>7 DEF vars
<1>8. QED
  BY <1>1, <1>2, <1>3, <1>4, <1>5, <1>6, <1>7 DEF Next, HandlerStep

\* What PaidOnlyIfAuthorised rests on.  What post() checked may be stale when
\* the ERP acts, so the authority is carried by the thread that passed the
\* guard and by the call on its way: neither the saved match result nor the
\* APPROVED status exists without the event that authorises the invoice.
MatchIsEvidenced ==
    \A i \in Invoices : TRUE \in latest[i] => "clean_match" \in history[i]

ApprovalIsEvidenced ==
    \A i \in Invoices : status[i] = "APPROVED" => HumanApproved(i)

PosterIsAuthorised ==
    \A r \in Callers : req[r].pc = "erp_call" => Authorised(req[r].inv)

CallIsAuthorised == \A c \in calls : Authorised(c.inv)

AuthorityInv ==
    /\ MatchIsEvidenced
    /\ ApprovalIsEvidenced
    /\ PosterIsAuthorised
    /\ CallIsAuthorised
    /\ PaidOnlyIfAuthorised

\* Initially nothing is matched, approved, in flight or paid.
LEMMA AuthorityInit == Init => AuthorityInv
BY RequestTypes
DEF Init, ErpInit, AuthorityInv, MatchIsEvidenced, ApprovalIsEvidenced,
    PosterIsAuthorised, CallIsAuthorised, PaidOnlyIfAuthorised, Paid

\* A thread that moves or finishes leaves the other threads alone.
LEMMA ReqFrame ==
    ASSUME req \in [Callers -> Request], NEW r \in Callers
    PROVE  /\ \A pc : Goto(r, pc) =>
                /\ req'[r].pc = pc
                /\ req'[r].inv = req[r].inv
                /\ \A s \in Callers \ {r} : req'[s] = req[s]
           /\ Finish(r) =>
                /\ req'[r].pc = "idle"
                /\ \A s \in Callers \ {r} : req'[s] = req[s]
BY RequestTypes DEF Goto, Finish, Request

\* Every step preserves the invariant.
LEMMA AuthorityStep == TypeInv /\ AuthorityInv /\ [Next]_vars => AuthorityInv'
<1> SUFFICES ASSUME TypeInv, AuthorityInv, [Next]_vars PROVE AuthorityInv'
  OBVIOUS
<1> USE DEF AuthorityInv
<1>1. /\ req \in [Callers -> Request]
      /\ status \in [Invoices -> Status \cup {"absent"}]
      /\ latest \in [Invoices -> SUBSET BOOLEAN]
      /\ history \in [Invoices -> SUBSET Events]
      /\ minted \in [Invoices -> Nat]
      /\ calls \subseteq Call
  BY DEF TypeInv, TypeOK, ErpTypeOK
<1>2. \A r \in Callers : req[r] \in Request /\ req[r].inv \in Invoices
  BY <1>1 DEF Request
<1>3. \A c \in calls : c \in Call /\ c.inv \in Invoices
  BY <1>1 DEF Call
<1>4. /\ settings' = settings
      /\ \A i \in Invoices : history[i] \subseteq history'[i]
  BY HistoryGrows
  \* What a step that leaves a part's own variable alone, or does not add to
  \* what the part speaks of, does to it.
<1>5. ASSUME UNCHANGED latest PROVE MatchIsEvidenced'
  BY <1>4, <1>5 DEF MatchIsEvidenced
<1>6. ASSUME \A i \in Invoices : status'[i] = "APPROVED" => status[i] = "APPROVED"
      PROVE  ApprovalIsEvidenced'
  BY <1>4, <1>6 DEF ApprovalIsEvidenced, HumanApproved
<1>7. ASSUME \A s \in Callers : req'[s].pc = "erp_call" =>
               \/ req[s].pc = "erp_call" /\ req'[s].inv = req[s].inv
               \/ req'[s].inv \in Invoices /\ Authorised(req'[s].inv)
      PROVE  PosterIsAuthorised'
  BY <1>2, <1>4, <1>7 DEF PosterIsAuthorised, Authorised, HumanApproved
<1>8. ASSUME \A c \in calls' : c \in calls \/ c.inv \in {d.inv : d \in calls}
      PROVE  CallIsAuthorised'
  BY <1>3, <1>4, <1>8 DEF CallIsAuthorised, Authorised, HumanApproved
<1>9. ASSUME \A i \in Invoices : minted'[i] = minted[i] \/ i \in {d.inv : d \in calls}
      PROVE  PaidOnlyIfAuthorised'
  BY <1>3, <1>4, <1>9
  DEF PaidOnlyIfAuthorised, CallIsAuthorised, Paid, Authorised, HumanApproved
<1>10. ASSUME NEW r \in Callers, ErpServes(r) PROVE AuthorityInv'
  <2>1. PICK c \in calls : ErpStep(c) /\ UNCHANGED apVars
    BY <1>10 DEF ErpServes
  <2>2. \A d \in calls' : d \in calls \/ d.inv = c.inv
    BY <2>1, <1>3, ErpStepCalls
  <2>3. \A i \in Invoices : minted'[i] = minted[i] \/ i = c.inv
    BY <2>1, <1>1 DEF ErpStep, ErpRefuse, ErpReplayByKey, ErpReplayByInvoice,
                ErpMiss, ErpCreate
  <2>4. QED
    BY <2>1, <2>2, <2>3, <1>5, <1>6, <1>7, <1>8, <1>9 DEF apVars
<1>11. ASSUME NEW i \in Invoices, Ingest(i) PROVE AuthorityInv'
  BY <1>11, <1>1, <1>5, <1>6, <1>7, <1>8, <1>9 DEF Ingest, erpVars
<1>12. ASSUME NEW r \in Callers, MatchStep(r) PROVE AuthorityInv'
  <2> USE DEF erpVars
  <2>1. UNCHANGED <<calls, minted>>
    BY <1>12 DEF MatchStep, RetrievePolicy, RunMatch, SaveMatch, SetMatchStatus,
                 EvaluateMatch, Finalize, MatchFails
  <2>2. CallIsAuthorised' /\ PaidOnlyIfAuthorised'
    BY <2>1, <1>8, <1>9
  <2>3. CASE RetrievePolicy(r)
    BY <2>2, <2>3, ReqFrame, <1>1, <1>5, <1>6, <1>7 DEF RetrievePolicy
  <2>4. CASE RunMatch(r)
    BY <2>2, <2>4, <1>1, <1>2, <1>5, <1>6, <1>7 DEF RunMatch, Request
  <2>5. CASE SaveMatch(r)
    <3>1. \A i \in Invoices : TRUE \in latest'[i] => "clean_match" \in history'[i]
      <4>1. \A i \in Invoices : i # req[r].inv => latest'[i] = latest[i]
        BY <2>5, <1>1 DEF SaveMatch
      <4>2. latest'[req[r].inv] = {req[r].matched}
        BY <2>5, <1>1, <1>2 DEF SaveMatch
      <4>3. req[r].matched => "clean_match" \in history'[req[r].inv]
        BY <2>5, <1>1, <1>2 DEF SaveMatch
      <4>4. TRUE \in latest'[req[r].inv] => req[r].matched
        BY <4>2, Zenon
      <4>5. QED
        BY <4>1, <4>3, <4>4, <1>4 DEF MatchIsEvidenced
    <3>2. QED
      BY <2>2, <2>5, <3>1, ReqFrame, <1>1, <1>6, <1>7
      DEF SaveMatch, MatchIsEvidenced
  <2>6. CASE SetMatchStatus(r)
    BY <2>2, <2>6, ReqFrame, <1>1, <1>5, <1>6, <1>7 DEF SetMatchStatus
  <2>7. ASSUME NEW q \in AgentActions, EvaluateMatch(r, q) PROVE AuthorityInv'
    <3>1. PostRequest(req[r].inv, AutoKey[req[r].inv]).pc = "get_journal"
      BY <1>2, RequestTypes, ApConstants
    <3>2. req'[r].pc # "erp_call" /\ \A s \in Callers \ {r} : req'[s] = req[s]
      BY <2>7, <3>1, <1>1, <1>2 DEF EvaluateMatch, Request
    <3>3. QED
      BY <2>2, <2>7, <3>2, <1>5, <1>6, <1>7 DEF EvaluateMatch
  <2>8. CASE Finalize(r)
    BY <2>2, <2>8, ReqFrame, <1>1, <1>5, <1>6, <1>7 DEF Finalize
  <2>9. CASE MatchFails(r)
    BY <2>2, <2>9, ReqFrame, <1>1, <1>5, <1>6, <1>7 DEF MatchFails
  <2>10. QED
    BY <1>12, <2>3, <2>4, <2>5, <2>6, <2>7, <2>8, <2>9 DEF MatchStep
<1>13. ASSUME NEW r \in Callers, PostStep(r) PROVE AuthorityInv'
  <2> USE DEF erpVars
  <2>1. UNCHANGED <<latest, minted>> /\
        \A i \in Invoices : status'[i] = "APPROVED" => status[i] = "APPROVED"
    BY <1>13, <1>1 DEF PostStep, ReplayJournal, NoKnownJournal, PostGuard,
      SendJournal, ReceiveJournal, ReceiveConflict, CallLost, CallTimesOut,
      SetPosted, SaveJournal
  <2>2. MatchIsEvidenced' /\ ApprovalIsEvidenced' /\ PaidOnlyIfAuthorised'
    BY <2>1, <1>5, <1>6, <1>9
  <2>3. CASE ReplayJournal(r) \/ NoKnownJournal(r)
    BY <2>2, <2>3, ReqFrame, <1>1, <1>7, <1>8 DEF ReplayJournal, NoKnownJournal
  <2>4. CASE PostGuard(r)
    <3>1. MayPost(req[r].inv) => Authorised(req[r].inv)
      BY <1>2 DEF MayPost, Authorised, MatchIsEvidenced, ApprovalIsEvidenced
    <3>2. QED
      BY <2>2, <2>4, <3>1, ReqFrame, <1>1, <1>2, <1>7, <1>8 DEF PostGuard
  <2>5. CASE SendJournal(r)
    <3>1. \A c \in calls' : c \in calls \/ c.inv = req[r].inv
      BY <2>5 DEF SendJournal
    <3>2. Authorised(req[r].inv)
      BY <2>5 DEF SendJournal, At, PosterIsAuthorised
    <3>3. CallIsAuthorised'
      BY <3>1, <3>2, <1>2, <1>3, <1>4
      DEF CallIsAuthorised, Authorised, HumanApproved
    <3>4. QED
      BY <2>2, <2>5, <3>3, ReqFrame, <1>1, <1>7 DEF SendJournal
  <2>6. ASSUME NEW c \in calls, ReceiveJournal(r, c) PROVE AuthorityInv'
    <3>1. req'[r].pc # "erp_call" /\ \A s \in Callers \ {r} : req'[s] = req[s]
      BY <2>6, <1>1, <1>2 DEF ReceiveJournal, Request
    <3>2. QED
      BY <2>2, <2>6, <3>1, <1>7, <1>8 DEF ReceiveJournal
  <2>7. ASSUME NEW c \in calls, ReceiveConflict(r, c) \/ CallLost(r, c)
        PROVE  AuthorityInv'
    BY <2>2, <2>7, ReqFrame, <1>1, <1>7, <1>8 DEF ReceiveConflict, CallLost
  <2>8. ASSUME NEW c \in calls, CallTimesOut(r, c) PROVE AuthorityInv'
    <3>1. [c EXCEPT !.live = FALSE].inv = c.inv
      BY <1>3 DEF Call
    <3>2. \A d \in calls' : d \in calls \/ d.inv \in {e.inv : e \in calls}
      BY <2>8, <3>1 DEF CallTimesOut
    <3>3. QED
      BY <2>2, <2>8, <3>2, ReqFrame, <1>1, <1>7, <1>8 DEF CallTimesOut
  <2>9. CASE SetPosted(r) \/ SaveJournal(r)
    BY <2>2, <2>9, ReqFrame, <1>1, <1>7, <1>8 DEF SetPosted, SaveJournal
  <2>10. QED
    BY <1>13, <2>3, <2>4, <2>5, <2>6, <2>7, <2>8, <2>9 DEF PostStep
<1>14. ASSUME NEW r \in Callers, RecordDecision(r) PROVE AuthorityInv'
  <2>1. ApprovalIsEvidenced'
    BY <1>14, <1>1, <1>2, <1>4
    DEF RecordDecision, ApprovalIsEvidenced, HumanApproved
  <2>2. QED
    BY <1>14, <2>1, ReqFrame, <1>1, <1>5, <1>7, <1>8, <1>9
    DEF RecordDecision, erpVars
<1>15. ASSUME NEW r \in Callers, NEW i \in Invoices, NewRequest(r, i)
       PROVE  AuthorityInv'
  <2>1. UNCHANGED <<latest, status, calls, minted>>
    BY <1>15 DEF NewRequest, StartMatch, StartPost, StartDecision, erpVars
  <2>2. req'[r].pc # "erp_call" /\ \A s \in Callers \ {r} : req'[s] = req[s]
    <3>1. \A b \in BOOLEAN : StartMatch(r, i, b) =>
            req'[r].pc # "erp_call" /\ \A s \in Callers \ {r} : req'[s] = req[s]
      BY <1>1, RequestTypes DEF StartMatch, Request
    <3>2. \A k \in ClientKeys[i] : StartPost(r, i, k) =>
            req'[r].pc # "erp_call" /\ \A s \in Callers \ {r} : req'[s] = req[s]
      BY <1>1, RequestTypes, ApConstants DEF StartPost
    <3>3. \A b \in BOOLEAN : StartDecision(r, i, b) =>
            req'[r].pc # "erp_call" /\ \A s \in Callers \ {r} : req'[s] = req[s]
      BY <1>1, RequestTypes DEF StartDecision, Request
    <3>4. QED
      BY <1>15, <3>1, <3>2, <3>3 DEF NewRequest
  <2>3. QED
    BY <2>1, <2>2, <1>5, <1>6, <1>7, <1>8, <1>9
<1>16. CASE UNCHANGED vars
  BY <1>16, <1>5, <1>6, <1>7, <1>8, <1>9 DEF vars, apVars, erpVars
<1>17. QED
  BY <1>10, <1>11, <1>12, <1>13, <1>14, <1>15, <1>16 DEF Next, HandlerStep

\* No payment without authority, with any number of invoices and threads, any
\* keys, and every configuration.
THEOREM PaymentNeedsAuthority == Spec => []PaidOnlyIfAuthorised
<1>1. TypeInv /\ [Next]_vars => TypeInv'
  BY TypeStep, HandStep DEF TypeInv
<1>2. AuthorityInv => PaidOnlyIfAuthorised
  BY DEF AuthorityInv
<1>3. QED
  BY TypeInit, <1>1, AuthorityInit, AuthorityStep, <1>2, PTL DEF Spec

---------------------------------------------------------------------------
(* Duplicates need a reviewer.                                             *)

\* An invoice that passed the controls, or is about to have it recorded.
CleanOrPending(i) ==
    \/ "clean_match" \in history[i]
    \/ \E r \in Callers :
         req[r].pc = "save_match" /\ req[r].inv = i /\ req[r].matched

\* A thread works on an ingested invoice.
ActiveIsIngested ==
    \A r \in Callers : req[r].pc # "idle" => Ingested(req[r].inv)

\* What DuplicateNeedsReviewer rests on: a clean result is computed after its
\* invoice was saved, so the later of two such computations sees the other
\* invoice.
OneCleanPerDocument ==
    \A i, j \in Invoices :
        i # j /\ DocKey[i] = DocKey[j] => ~(CleanOrPending(i) /\ CleanOrPending(j))

CleanIsIngested == \A i \in Invoices : CleanOrPending(i) => Ingested(i)

DuplicateInv == ActiveIsIngested /\ CleanIsIngested /\ OneCleanPerDocument

\* Initially no invoice is clean and no thread is active.
LEMMA DuplicateInit == Init => DuplicateInv
BY RequestTypes
DEF Init, DuplicateInv, ActiveIsIngested, CleanIsIngested, OneCleanPerDocument,
    CleanOrPending

\* An ingested invoice is never forgotten.
LEMMA IngestedStays ==
    ASSUME TypeInv, [Next]_vars
    PROVE  \A i \in Invoices : Ingested(i) => status'[i] # "absent"
<1> USE DEF TypeInv, TypeOK, Ingested
<1>1. ASSUME NEW r \in Callers, ErpServes(r) PROVE status' = status
  BY <1>1 DEF ErpServes, apVars
<1>2. ASSUME NEW r \in Callers, MatchStep(r)
      PROVE  \A i \in Invoices : Ingested(i) => status'[i] # "absent"
  BY <1>2 DEF MatchStep, RetrievePolicy, RunMatch, SaveMatch, SetMatchStatus,
              EvaluateMatch, Finalize, MatchFails
<1>3. ASSUME NEW r \in Callers, PostStep(r)
      PROVE  \A i \in Invoices : Ingested(i) => status'[i] # "absent"
  BY <1>3 DEF PostStep, ReplayJournal, NoKnownJournal, PostGuard, SendJournal,
              ReceiveJournal, ReceiveConflict, CallLost, CallTimesOut,
              SetPosted, SaveJournal
<1>4. ASSUME NEW r \in Callers, NEW i \in Invoices, NewRequest(r, i)
      PROVE  status' = status
  BY <1>4 DEF NewRequest, StartMatch, StartPost, StartDecision
<1>5. QED
  BY <1>1, <1>2, <1>3, <1>4
  DEF Next, HandlerStep, Ingest, RecordDecision, vars, apVars

\* Every step preserves the invariant.
LEMMA DuplicateStep == TypeInv /\ DuplicateInv /\ [Next]_vars => DuplicateInv'
<1> SUFFICES ASSUME TypeInv, DuplicateInv, [Next]_vars PROVE DuplicateInv'
  OBVIOUS
<1> USE DEF DuplicateInv
<1>1. /\ req \in [Callers -> Request]
      /\ history \in [Invoices -> SUBSET Events]
  BY DEF TypeInv, TypeOK
<1>2. \A r \in Callers : req[r] \in Request /\ req[r].inv \in Invoices
  BY <1>1 DEF Request
<1>3. \A i \in Invoices : Ingested(i) => Ingested(i)'
  BY IngestedStays DEF Ingested
<1>4. ASSUME \A s \in Callers : req'[s].pc # "idle" =>
               \/ req[s].pc # "idle" /\ req'[s].inv = req[s].inv
               \/ req'[s].inv \in Invoices /\ Ingested(req'[s].inv)
      PROVE  ActiveIsIngested'
  BY <1>2, <1>3, <1>4 DEF ActiveIsIngested, Ingested
<1>5. ASSUME \A i \in Invoices : CleanOrPending(i)' => CleanOrPending(i)
      PROVE  CleanIsIngested' /\ OneCleanPerDocument'
  BY <1>3, <1>5 DEF CleanIsIngested, OneCleanPerDocument
  \* Most steps move one thread, not to save_match, and add no clean match.
<1>6. ASSUME NEW r \in Callers,
             \A s \in Callers \ {r} : req'[s] = req[s],
             req'[r].pc # "save_match",
             req'[r].pc # "idle" =>
               \/ req[r].pc # "idle" /\ req'[r].inv = req[r].inv
               \/ req'[r].inv \in Invoices /\ Ingested(req'[r].inv),
             \A i \in Invoices : "clean_match" \in history'[i] => CleanOrPending(i)
      PROVE  DuplicateInv'
  <2>1. \A i \in Invoices : CleanOrPending(i)' => CleanOrPending(i)
    BY <1>6 DEF CleanOrPending
  <2>2. QED
    BY <2>1, <1>4, <1>5, <1>6
<1>7. ASSUME UNCHANGED <<req, history>> PROVE DuplicateInv'
  BY <1>4, <1>5, <1>7 DEF CleanOrPending
<1>8. \A i \in Invoices : "clean_match" \in history[i] => CleanOrPending(i)
  BY DEF CleanOrPending
<1>9. ASSUME NEW r \in Callers, MatchStep(r) PROVE DuplicateInv'
  <2>1. CASE RetrievePolicy(r)
    BY <2>1, <1>1, <1>6, <1>8, ReqFrame DEF RetrievePolicy, At
  <2>2. CASE RunMatch(r)
    <3> DEFINE i == req[r].inv
    <3>1. /\ \A s \in Callers \ {r} : req'[s] = req[s]
          /\ req'[r].pc = "save_match" /\ req'[r].inv = i
          /\ req'[r].matched = Matches(i, req[r].receipt)
          /\ req[r].pc = "request_match" /\ UNCHANGED <<status, history>>
      BY <2>2, <1>1, <1>2 DEF RunMatch, At, Request
    <3>2. \A j \in Invoices :
            CleanOrPending(j)' => CleanOrPending(j) \/ (j = i /\ ~Duplicate(i))
      <4>1. Matches(i, req[r].receipt) => ~Duplicate(i)
        BY DEF Matches, Variances
      <4>2. QED
        BY <3>1, <4>1 DEF CleanOrPending
    <3>3. Ingested(i)
      BY <3>1 DEF ActiveIsIngested
    <3>4. ActiveIsIngested'
      BY <3>1, <3>3, <1>2, <1>4
    <3>5. CleanIsIngested'
      BY <3>2, <3>3, <1>2, <1>3 DEF CleanIsIngested
    <3>6. OneCleanPerDocument'
      <4>1. ~Duplicate(i) => \A j \in Invoices \ {i} :
              DocKey[j] = DocKey[i] => ~CleanOrPending(j)
        BY DEF Duplicate, CleanIsIngested
      <4>2. QED
        BY <3>2, <4>1, <1>2 DEF OneCleanPerDocument
    <3>7. QED
      BY <3>4, <3>5, <3>6
  <2>3. CASE SaveMatch(r)
    <3>1. \A i \in Invoices : "clean_match" \in history'[i] => CleanOrPending(i)
      BY <2>3, <1>1, <1>2 DEF SaveMatch, At, CleanOrPending
    <3>2. QED
      BY <2>3, <3>1, <1>1, <1>6, ReqFrame DEF SaveMatch, At
  <2>4. CASE SetMatchStatus(r)
    BY <2>4, <1>1, <1>6, <1>8, ReqFrame DEF SetMatchStatus, At
  <2>5. ASSUME NEW q \in AgentActions, EvaluateMatch(r, q) PROVE DuplicateInv'
    <3>1. /\ PostRequest(req[r].inv, AutoKey[req[r].inv]).pc = "get_journal"
          /\ PostRequest(req[r].inv, AutoKey[req[r].inv]).inv = req[r].inv
      BY <1>2, RequestTypes, ApConstants
    <3>2. /\ req'[r].pc # "save_match" /\ req'[r].inv = req[r].inv
          /\ \A s \in Callers \ {r} : req'[s] = req[s]
      BY <2>5, <3>1, <1>1, <1>2 DEF EvaluateMatch, Request
    <3>3. QED
      BY <2>5, <3>2, <1>6, <1>8 DEF EvaluateMatch, At
  <2>6. CASE Finalize(r) \/ MatchFails(r)
    BY <2>6, <1>1, <1>6, <1>8, ReqFrame DEF Finalize, MatchFails
  <2>7. QED
    BY <1>9, <2>1, <2>2, <2>3, <2>4, <2>5, <2>6 DEF MatchStep
<1>10. ASSUME NEW r \in Callers, PostStep(r) PROVE DuplicateInv'
  <2>1. CASE ReplayJournal(r) \/ NoKnownJournal(r) \/ PostGuard(r)
    BY <2>1, <1>1, <1>6, <1>8, ReqFrame
    DEF ReplayJournal, NoKnownJournal, PostGuard, At
  <2>2. CASE SendJournal(r) \/ SetPosted(r) \/ SaveJournal(r)
    BY <2>2, <1>1, <1>6, <1>8, ReqFrame DEF SendJournal, SetPosted, SaveJournal, At
  <2>3. ASSUME NEW c \in calls, ReceiveJournal(r, c) PROVE DuplicateInv'
    <3>1. /\ req'[r].pc = "set_posted" /\ req'[r].inv = req[r].inv
          /\ \A s \in Callers \ {r} : req'[s] = req[s]
      BY <2>3, <1>1, <1>2 DEF ReceiveJournal, Request
    <3>2. QED
      BY <2>3, <3>1, <1>6, <1>8 DEF ReceiveJournal, At
  <2>4. ASSUME NEW c \in calls,
               ReceiveConflict(r, c) \/ CallLost(r, c) \/ CallTimesOut(r, c)
        PROVE  DuplicateInv'
    BY <2>4, <1>1, <1>6, <1>8, ReqFrame
    DEF ReceiveConflict, CallLost, CallTimesOut
  <2>5. QED
    BY <1>10, <2>1, <2>2, <2>3, <2>4 DEF PostStep
<1>11. ASSUME NEW r \in Callers, RecordDecision(r) PROVE DuplicateInv'
  <2>1. \A i \in Invoices :
          "clean_match" \in history'[i] => "clean_match" \in history[i]
    BY <1>11, <1>1 DEF RecordDecision
  <2>2. QED
    BY <1>11, <2>1, <1>1, <1>6, <1>8, ReqFrame DEF RecordDecision
<1>12. ASSUME NEW r \in Callers, NEW i \in Invoices, NewRequest(r, i)
       PROVE  DuplicateInv'
  <2>1. ASSUME NEW b \in BOOLEAN, StartMatch(r, i, b) PROVE DuplicateInv'
    <3>1. /\ req'[r].pc = "retrieve_policy" /\ req'[r].inv = i
          /\ \A s \in Callers \ {r} : req'[s] = req[s]
      BY <2>1, <1>1, RequestTypes DEF StartMatch, Request
    <3>2. QED
      BY <2>1, <3>1, <1>6, <1>8 DEF StartMatch, MayStartMatch
  <2>2. ASSUME NEW k \in ClientKeys[i], StartPost(r, i, k) PROVE DuplicateInv'
    <3>1. /\ req'[r].pc = "get_journal" /\ req'[r].inv = i
          /\ \A s \in Callers \ {r} : req'[s] = req[s]
      BY <2>2, <1>1, RequestTypes, ApConstants DEF StartPost
    <3>2. QED
      BY <2>2, <3>1, <1>6, <1>8 DEF StartPost
  <2>3. ASSUME NEW b \in BOOLEAN, StartDecision(r, i, b) PROVE DuplicateInv'
    <3>1. /\ req'[r].pc = "decide" /\ req'[r].inv = i
          /\ \A s \in Callers \ {r} : req'[s] = req[s]
      BY <2>3, <1>1, RequestTypes DEF StartDecision, Request
    <3>2. QED
      BY <2>3, <3>1, <1>6, <1>8 DEF StartDecision, Reviewable, Ingested
  <2>4. QED
    BY <1>12, <2>1, <2>2, <2>3 DEF NewRequest
<1>13. QED
  BY <1>7, <1>9, <1>10, <1>11, <1>12
  DEF Next, HandlerStep, ErpServes, Ingest, vars, apVars

\* Of any invoices with the same vendor and number, all that are paid but one
\* were approved by a reviewer.
THEOREM DuplicatesNeedReviewer == Spec => []DuplicateNeedsReviewer
<1>1. TypeInv /\ [Next]_vars => TypeInv'
  BY TypeStep, HandStep DEF TypeInv
<1>2. AuthorityInv /\ DuplicateInv => DuplicateNeedsReviewer
  BY DEF AuthorityInv, PaidOnlyIfAuthorised, Authorised, DuplicateInv,
         OneCleanPerDocument, CleanOrPending, DuplicateNeedsReviewer
<1>3. QED
  BY TypeInit, <1>1, AuthorityInit, AuthorityStep, DuplicateInit,
     DuplicateStep, <1>2, PTL DEF Spec

---------------------------------------------------------------------------
(* The workflow implements the abstract payment.                           *)

PaidSet == {i \in Invoices : Paid(i)}

\* A step of the ERP pays nothing new, or exactly one invoice.
LEMMA ErpPaysOne ==
    ASSUME ErpTypeOK, NEW c \in calls, ErpStep(c)
    PROVE  PaidSet' = PaidSet \/ \E i \in Invoices : PaidSet' = PaidSet \cup {i}
<1> USE DEF ErpTypeOK, PaidSet, Paid
<1>1. c.inv \in Invoices
  BY DEF Call
<1>2. CASE ErpCreate(c)
  <2>1. minted' = [minted EXCEPT ![c.inv] = @ + 1]
    BY <1>2 DEF ErpCreate
  <2>2. minted'[c.inv] > 0
    BY <2>1, <1>1
  <2>3. \A i \in Invoices \ {c.inv} : minted'[i] = minted[i]
    BY <2>1
  <2>4. PaidSet' = PaidSet \cup {c.inv}
    BY <2>2, <2>3, <1>1
  <2>5. QED
    BY <2>4, <1>1
<1>3. CASE minted' = minted
  BY <1>3
<1>4. QED
  BY <1>2, <1>3 DEF ErpStep, ErpRefuse, ErpReplayByKey, ErpReplayByInvoice, ErpMiss

\* A step gathers evidence about one invoice, lets the ERP pay at most one, or
\* does neither.
LEMMA StepLearnsOrPays ==
    ASSUME TypeInv, [Next]_vars
    PROVE  \/ /\ PaidSet' = PaidSet
              /\ \/ history' = history
                 \/ \E i \in Invoices, e \in SUBSET Events :
                      history' = [history EXCEPT ![i] = @ \cup e]
           \/ /\ history' = history
              /\ \E i \in Invoices : PaidSet' = PaidSet \cup {i}
<1> DEFINE Learns == \/ history' = history
                     \/ \E i \in Invoices, e \in SUBSET Events :
                          history' = [history EXCEPT ![i] = @ \cup e]
<1> USE DEF TypeInv, TypeOK
<1>1. ASSUME minted' = minted PROVE PaidSet' = PaidSet
  BY <1>1 DEF PaidSet, Paid
<1>2. ASSUME NEW r \in Callers, ErpServes(r)
      PROVE  /\ history' = history
             /\ PaidSet' = PaidSet \/ \E i \in Invoices : PaidSet' = PaidSet \cup {i}
  BY <1>2, ErpPaysOne DEF ErpServes, apVars
<1>3. ASSUME NEW i \in Invoices, Ingest(i)
      PROVE  minted' = minted /\ Learns
  BY <1>3 DEF Ingest, erpVars
<1>4. ASSUME NEW r \in Callers, MatchStep(r)
      PROVE  minted' = minted /\ Learns
  <2>1. req[r].inv \in Invoices
    BY DEF Request
  <2>2. CASE SaveMatch(r)
    <3> DEFINE e == IF req[r].matched THEN {"clean_match"} ELSE {}
    <3>1. e \in SUBSET Events
      BY DEF Events
    <3>2. history' = [history EXCEPT ![req[r].inv] = @ \cup e]
      BY <2>2 DEF SaveMatch
    <3>3. minted' = minted
      BY <2>2 DEF SaveMatch, erpVars
    <3>4. QED
      BY <2>1, <3>1, <3>2, <3>3
  <2>3. CASE ~SaveMatch(r)
    <3> DEFINE Frame == minted' = minted /\ history' = history
    <3>1. RetrievePolicy(r) => Frame
      BY DEF RetrievePolicy, erpVars
    <3>2. RunMatch(r) => Frame
      BY DEF RunMatch, erpVars
    <3>3. SetMatchStatus(r) => Frame
      BY DEF SetMatchStatus, erpVars
    <3>4. \A q \in AgentActions : EvaluateMatch(r, q) => Frame
      BY DEF EvaluateMatch, erpVars
    <3>5. Finalize(r) \/ MatchFails(r) => Frame
      BY DEF Finalize, MatchFails, erpVars
    <3>6. Frame
      BY <1>4, <2>3, <3>1, <3>2, <3>3, <3>4, <3>5 DEF MatchStep
    <3>7. QED
      BY <3>6
  <2>4. QED
    BY <2>2, <2>3
<1>5. ASSUME NEW r \in Callers, PostStep(r)
      PROVE  minted' = minted /\ Learns
  BY <1>5 DEF PostStep, ReplayJournal, NoKnownJournal, PostGuard, SendJournal,
              ReceiveJournal, ReceiveConflict, CallLost, CallTimesOut,
              SetPosted, SaveJournal, erpVars
<1>6. ASSUME NEW r \in Callers, RecordDecision(r)
      PROVE  minted' = minted /\ Learns
  <2> DEFINE e == {IF req[r].approved THEN "human_approved" ELSE "human_rejected"}
  <2>1. req[r].inv \in Invoices /\ e \in SUBSET Events
    BY DEF Request, Events
  <2>2. history' = [history EXCEPT ![req[r].inv] = @ \cup e]
    BY <1>6 DEF RecordDecision
  <2>3. minted' = minted
    BY <1>6 DEF RecordDecision, erpVars
  <2>4. QED
    BY <2>1, <2>2, <2>3
<1>7. ASSUME NEW r \in Callers, NEW i \in Invoices, NewRequest(r, i)
      PROVE  minted' = minted /\ Learns
  <2> DEFINE Frame == minted' = minted /\ history' = history
  <2>1. \A b \in BOOLEAN : StartMatch(r, i, b) => Frame
    BY DEF StartMatch, erpVars
  <2>2. \A k \in ClientKeys[i] : StartPost(r, i, k) => Frame
    BY DEF StartPost, erpVars
  <2>3. \A b \in BOOLEAN : StartDecision(r, i, b) => Frame
    BY DEF StartDecision, erpVars
  <2>4. Frame
    BY <1>7, <2>1, <2>2, <2>3 DEF NewRequest
  <2>5. QED
    BY <2>4
<1>8. CASE UNCHANGED vars
  BY <1>8, <1>1 DEF vars, apVars, erpVars
<1>9. QED
  BY <1>1, <1>2, <1>3, <1>4, <1>5, <1>6, <1>7, <1>8 DEF Next, HandlerStep

\* The initial states of the workflow are initial states of the abstract
\* payment.
LEMMA ControlInit == Init => Control!Init
<1> SUFFICES ASSUME Init PROVE Control!Init
  OBVIOUS
<1>1. settings.requireApproval \in BOOLEAN
  BY ErpConstants DEF Init, ErpInit
<1>2. history = [i \in Invoices |-> {}]
  BY DEF Init
<1>3. {i \in Invoices : Paid(i)} = {}
  BY DEF Init, ErpInit, Paid
<1>4. QED
  BY <1>1, <1>2, <1>3 DEF Control!Init

\* Every step is a step of the abstract payment or changes nothing of it.  What
\* the payment needs is read off the invariants of the state after the step: the
\* step that pays changes no evidence.
LEMMA ControlStep ==
    ASSUME TypeInv, [Next]_vars, PaidOnlyIfAuthorised', DuplicateNeedsReviewer'
    PROVE  [Control!Next]_(Control!vars)
<1>1. settings' = settings
  BY HistoryGrows
<1>2. CASE PaidSet' = PaidSet /\ history' = history
  BY <1>1, <1>2 DEF Control!vars, PaidSet
<1>3. ASSUME NEW i \in Invoices, NEW e \in SUBSET Events, PaidSet' = PaidSet,
             history' = [history EXCEPT ![i] = @ \cup e]
      PROVE  Control!Next
  <2>1. Control!Learn(i, e)
    BY <1>1, <1>3 DEF Control!Learn, PaidSet
  <2>2. e \in SUBSET Control!Evidence
    BY DEF Events, Control!Evidence
  <2>3. QED
    BY <2>1, <2>2 DEF Control!Next
<1>4. ASSUME NEW i \in Invoices, history' = history, PaidSet' = PaidSet \cup {i}
      PROVE  Control!Next
  <2>1. \A j \in Invoices : HumanApproved(j)' = HumanApproved(j)
    BY <1>4 DEF HumanApproved
  <2>2. Authorised(i)' = Authorised(i)
    BY <1>1, <1>4 DEF Authorised, HumanApproved
  <2>3. i \in PaidSet' /\ PaidSet \subseteq PaidSet'
    BY <1>4
  <2>4. \A j \in PaidSet' : j \in Invoices /\ Paid(j)'
    BY DEF PaidSet, Paid
  <2>5. Control!Authorised(i)
    <3>1. Authorised(i)
      BY <2>2, <2>3, <2>4 DEF PaidOnlyIfAuthorised
    <3>2. QED
      BY <3>1 DEF Authorised, HumanApproved, Control!Authorised,
                  Control!HumanApproved
  <2>6. Control!NoUnreviewedCopy(i)
    <3>1. ASSUME NEW j \in PaidSet \ {i}, DocKey[j] = DocKey[i]
          PROVE  HumanApproved(i) \/ HumanApproved(j)
      BY <3>1, <2>1, <2>3, <2>4 DEF DuplicateNeedsReviewer
    <3>2. QED
      BY <3>1 DEF PaidSet, HumanApproved, Control!NoUnreviewedCopy,
                  Control!HumanApproved
  <2>7. Control!Pay(i)
    BY <1>1, <1>4, <2>5, <2>6 DEF Control!Pay, PaidSet
  <2>8. QED
    BY <2>7 DEF Control!Next
<1>5. QED
  BY StepLearnsOrPays, <1>2, <1>3, <1>4

\* For any invoices, threads, keys and configurations the concurrent workflow,
\* with its stale guards and its lost and late calls, implements the abstract
\* payment: a payment is authorised, and is no unreviewed copy, when it is made.
THEOREM PaymentRefines == Spec => PaymentIsControlled
<1>1. TypeInv /\ [Next]_vars => TypeInv'
  BY TypeStep, HandStep DEF TypeInv
<1>2. AuthorityInv => PaidOnlyIfAuthorised
  BY DEF AuthorityInv
<1>3. AuthorityInv /\ DuplicateInv => DuplicateNeedsReviewer
  BY DEF AuthorityInv, PaidOnlyIfAuthorised, Authorised, DuplicateInv,
         OneCleanPerDocument, CleanOrPending, DuplicateNeedsReviewer
<1>4. TypeInv /\ [Next]_vars /\ PaidOnlyIfAuthorised' /\ DuplicateNeedsReviewer'
        => [Control!Next]_(Control!vars)
  BY ControlStep
<1>5. QED
  BY TypeInit, <1>1, AuthorityInit, AuthorityStep, DuplicateInit,
     DuplicateStep, <1>2, <1>3, ControlInit, <1>4, PTL
  DEF Spec, PaymentIsControlled, Control!Spec

---------------------------------------------------------------------------
(* An approved invoice can be posted.                                      *)

\* No status that a reviewer sees, or sets, is reached before a match has been
\* saved; the handlers save it before they write the status.
ReviewedIsMatched ==
    /\ \A i \in Invoices :
         status[i] \in {"MATCHED", "APPROVED"} \cup Reviewable => latest[i] # {}
    /\ \A r \in Callers :
         req[r].pc \in {"set_status", "evaluate_match", "finalize", "decide"}
             => latest[req[r].inv] # {}

\* Initially nothing has been matched, and nothing says so.
LEMMA MatchedInit == Init => ReviewedIsMatched
BY RequestTypes DEF Init, ReviewedIsMatched, Reviewable

\* Every step preserves the invariant.
LEMMA MatchedStep ==
    TypeInv /\ ReviewedIsMatched /\ [Next]_vars => ReviewedIsMatched'
<1> SUFFICES ASSUME TypeInv, ReviewedIsMatched, [Next]_vars
             PROVE  ReviewedIsMatched'
  OBVIOUS
<1> USE DEF ReviewedIsMatched, Reviewable
<1>1. /\ req \in [Callers -> Request]
      /\ status \in [Invoices -> Status \cup {"absent"}]
      /\ latest \in [Invoices -> SUBSET BOOLEAN]
  BY DEF TypeInv, TypeOK
<1>2. \A r \in Callers : req[r] \in Request /\ req[r].inv \in Invoices
  BY <1>1 DEF Request
  \* A step that leaves the matches alone, and moves no thread past a save.
<1>3. ASSUME UNCHANGED <<latest, status>>,
             NEW r \in Callers, \A s \in Callers \ {r} : req'[s] = req[s],
             \/ req'[r].pc \notin {"set_status", "evaluate_match", "finalize", "decide"}
             \/ req'[r].inv = req[r].inv /\ latest[req[r].inv] # {}
      PROVE  ReviewedIsMatched'
  BY <1>2, <1>3
<1>4. ASSUME NEW r \in Callers, ErpServes(r) PROVE ReviewedIsMatched'
  BY <1>4 DEF ErpServes, apVars
<1>5. ASSUME NEW i \in Invoices, Ingest(i) PROVE ReviewedIsMatched'
  BY <1>5, <1>1 DEF Ingest
<1>6. ASSUME NEW r \in Callers, MatchStep(r) PROVE ReviewedIsMatched'
  <2>1. CASE RetrievePolicy(r)
    BY <2>1, <1>1, <1>3, ReqFrame DEF RetrievePolicy
  <2>2. CASE RunMatch(r)
    BY <2>2, <1>1, <1>2, <1>3 DEF RunMatch, Request
  <2>3. CASE SaveMatch(r)
    <3>1. \A i \in Invoices : latest[i] # {} => latest'[i] # {}
      BY <2>3, <1>1 DEF SaveMatch
    <3>2. latest'[req[r].inv] # {} /\ status' = status
      BY <2>3, <1>1, <1>2 DEF SaveMatch
    <3>3. /\ req'[r].inv = req[r].inv
          /\ \A s \in Callers \ {r} : req'[s] = req[s]
      BY <2>3, <1>1, ReqFrame DEF SaveMatch
    <3>4. QED
      BY <3>1, <3>2, <3>3, <1>2
  <2>4. CASE SetMatchStatus(r)
    BY <2>4, <1>1, <1>2, ReqFrame DEF SetMatchStatus, At
  <2>5. ASSUME NEW q \in AgentActions, EvaluateMatch(r, q)
        PROVE  ReviewedIsMatched'
    <3>1. PostRequest(req[r].inv, AutoKey[req[r].inv]).pc = "get_journal"
      BY <1>2, RequestTypes, ApConstants
    <3>2. QED
      BY <2>5, <3>1, <1>1, <1>2, <1>3 DEF EvaluateMatch, At, Request
  <2>6. CASE Finalize(r)
    BY <2>6, <1>1, <1>2, ReqFrame DEF Finalize, At
  <2>7. CASE MatchFails(r)
    BY <2>7, <1>1, <1>3, ReqFrame DEF MatchFails
  <2>8. QED
    BY <1>6, <2>1, <2>2, <2>3, <2>4, <2>5, <2>6, <2>7 DEF MatchStep
<1>7. ASSUME NEW r \in Callers, PostStep(r) PROVE ReviewedIsMatched'
  <2>1. CASE ReplayJournal(r) \/ NoKnownJournal(r) \/ PostGuard(r)
    BY <2>1, <1>1, <1>3, ReqFrame DEF ReplayJournal, NoKnownJournal, PostGuard
  <2>2. CASE SendJournal(r)
    BY <2>2, <1>1, <1>3, ReqFrame DEF SendJournal
  <2>3. ASSUME NEW c \in calls, ReceiveJournal(r, c) PROVE ReviewedIsMatched'
    BY <2>3, <1>1, <1>2, <1>3 DEF ReceiveJournal, Request
  <2>4. ASSUME NEW c \in calls,
               ReceiveConflict(r, c) \/ CallLost(r, c) \/ CallTimesOut(r, c)
        PROVE  ReviewedIsMatched'
    BY <2>4, <1>1, <1>3, ReqFrame DEF ReceiveConflict, CallLost, CallTimesOut
  <2>5. CASE SetPosted(r)
    BY <2>5, <1>1, <1>2, ReqFrame DEF SetPosted
  <2>6. CASE SaveJournal(r)
    BY <2>6, <1>1, <1>3, ReqFrame DEF SaveJournal
  <2>7. QED
    BY <1>7, <2>1, <2>2, <2>3, <2>4, <2>5, <2>6 DEF PostStep
<1>8. ASSUME NEW r \in Callers, RecordDecision(r) PROVE ReviewedIsMatched'
  BY <1>8, <1>1, <1>2, ReqFrame DEF RecordDecision, At
<1>9. ASSUME NEW r \in Callers, NEW i \in Invoices, NewRequest(r, i)
      PROVE  ReviewedIsMatched'
  <2>1. ASSUME NEW b \in BOOLEAN, StartMatch(r, i, b)
        PROVE  ReviewedIsMatched'
    BY <2>1, <1>1, <1>3, RequestTypes DEF StartMatch, Request
  <2>2. ASSUME NEW k \in ClientKeys[i], StartPost(r, i, k)
        PROVE  ReviewedIsMatched'
    BY <2>2, <1>1, <1>3, RequestTypes, ApConstants DEF StartPost
  <2>3. ASSUME NEW b \in BOOLEAN, StartDecision(r, i, b)
        PROVE  ReviewedIsMatched'
    BY <2>3, <1>1, <1>2, RequestTypes DEF StartDecision, Request
  <2>4. QED
    BY <1>9, <2>1, <2>2, <2>3 DEF NewRequest
<1>10. CASE UNCHANGED vars
  BY <1>10 DEF vars, apVars
<1>11. QED
  BY <1>4, <1>5, <1>6, <1>7, <1>8, <1>9, <1>10 DEF Next, HandlerStep

\* Whatever else happens to it, an approved invoice passes the guard of post().
THEOREM ApprovedCanBePosted == Spec => []ApprovedIsPostable
<1>1. TypeInv /\ [Next]_vars => TypeInv'
  BY TypeStep, HandStep DEF TypeInv
<1>2. ReviewedIsMatched => ApprovedIsPostable
  BY DEF ReviewedIsMatched, ApprovedIsPostable, MayPost
<1>3. QED
  BY TypeInit, <1>1, MatchedInit, MatchedStep, <1>2, PTL DEF Spec

---------------------------------------------------------------------------
(* A thread and the call it waits for.                                     *)

\* The ERP moves one call on: what it leaves in the place of c is for the same
\* caller, invoice and key, and only c's own caller may be waiting for it.
LEMMA ErpServesOneCall ==
    ASSUME NEW c \in calls, c \in Call, ErpStep(c)
    PROVE  \A d \in calls' \ (calls \ {c}) :
             /\ d.caller = c.caller
             /\ d.inv = c.inv
             /\ d.key = c.key
             /\ d.live = c.live
             /\ \A e \in calls' \ (calls \ {c}) : e = d
<1>3. ASSUME NEW p, NEW j, Return(c, p, j)
      PROVE  \A d \in calls' \ (calls \ {c}) :
             /\ d.caller = c.caller
             /\ d.inv = c.inv
             /\ d.key = c.key
             /\ d.live = c.live
             /\ \A e \in calls' \ (calls \ {c}) : e = d
  <2> DEFINE served == [c EXCEPT !.phase = p, !.journal = j]
  <2>1. /\ served.caller = c.caller
        /\ served.inv = c.inv
        /\ served.key = c.key
        /\ served.live = c.live
    BY DEF Call
  <2>2. \A d \in calls' \ (calls \ {c}) : d = served
    BY <1>3 DEF Return
  <2> HIDE DEF served
  <2>3. QED
    BY <2>1, <2>2
<1>4. CASE ErpMiss(c)
  BY <1>4 DEF ErpMiss, Call
<1>5. QED
  BY <1>3, <1>4 DEF ErpStep, ErpRefuse, ErpReplayByKey, ErpReplayByInvoice,
                    ErpCreate

\* Whoever waits for a call's answer is the thread that sent it, for the same
\* invoice, and it waits for no other.
CallsAreAwaited ==
    /\ \A c \in calls : c.live =>
         req[c.caller].pc = "await_erp" /\ req[c.caller].inv = c.inv
    /\ \A c, d \in calls : c.live /\ d.live /\ c.caller = d.caller => c = d

\* Initially the ERP has no calls.
LEMMA AwaitedInit == Init => CallsAreAwaited
BY DEF Init, ErpInit, CallsAreAwaited

\* Every step preserves the invariant.
LEMMA AwaitedStep ==
    TypeInv /\ CallsAreAwaited /\ [Next]_vars => CallsAreAwaited'
<1> SUFFICES ASSUME TypeInv, CallsAreAwaited, [Next]_vars
             PROVE  CallsAreAwaited'
  OBVIOUS
<1> USE DEF CallsAreAwaited
<1>1. /\ req \in [Callers -> Request]
      /\ calls \subseteq Call
  BY DEF TypeInv, TypeOK, ErpTypeOK
<1>2. \A c \in calls : c \in Call /\ c.caller \in Callers
  BY <1>1 DEF Call
  \* A thread that waits for no answer may move.
<1>3. ASSUME UNCHANGED calls, NEW r \in Callers, req[r].pc # "await_erp",
             \A s \in Callers \ {r} : req'[s] = req[s]
      PROVE  CallsAreAwaited'
  BY <1>2, <1>3
  \* A thread that is done with its call may move.
<1>4. ASSUME NEW r \in Callers, NEW c \in CallOf(r),
             \A s \in Callers \ {r} : req'[s] = req[s],
             \A d \in calls' : d \in calls \ {c} \/ ~d.live
      PROVE  CallsAreAwaited'
  BY <1>2, <1>4 DEF CallOf
<1>5. ASSUME NEW r \in Callers, ErpServes(r) PROVE CallsAreAwaited'
  <2>1. PICK c \in calls : ErpStep(c) /\ UNCHANGED apVars
    BY <1>5 DEF ErpServes
  <2>2. \A d \in calls' \ (calls \ {c}) :
          /\ d.caller = c.caller /\ d.inv = c.inv /\ d.live = c.live
          /\ \A e \in calls' \ (calls \ {c}) : e = d
    BY <2>1, <1>2, ErpServesOneCall
  <2>3. req' = req
    BY <2>1 DEF apVars
  <2>4. QED
    BY <2>2, <2>3
<1>6. ASSUME NEW i \in Invoices, Ingest(i) PROVE CallsAreAwaited'
  BY <1>6 DEF Ingest, erpVars
<1>7. ASSUME NEW r \in Callers, MatchStep(r) PROVE CallsAreAwaited'
  <2>1. UNCHANGED calls /\ req[r].pc # "await_erp"
    BY <1>7 DEF MatchStep, RetrievePolicy, RunMatch, SaveMatch, SetMatchStatus,
                EvaluateMatch, Finalize, MatchFails, At, erpVars
  <2>2. \A s \in Callers \ {r} : req'[s] = req[s]
    BY <1>7, <1>1, ReqFrame DEF MatchStep, RetrievePolicy, RunMatch, SaveMatch,
                SetMatchStatus, EvaluateMatch, Finalize, MatchFails
  <2>3. QED
    BY <2>1, <2>2, <1>3
<1>8. ASSUME NEW r \in Callers, PostStep(r) PROVE CallsAreAwaited'
  <2>1. CASE ReplayJournal(r) \/ NoKnownJournal(r) \/ PostGuard(r)
    BY <2>1, <1>1, <1>3, ReqFrame
    DEF ReplayJournal, NoKnownJournal, PostGuard, At, erpVars
  <2>2. CASE SendJournal(r)
    <3>1. \A c \in calls' \ calls : c.caller = r /\ c.inv = req[r].inv
      BY <2>2 DEF SendJournal
    <3>2. \A c, d \in calls' \ calls : c = d
      BY <2>2 DEF SendJournal
    <3>3. \A c \in calls : c.live => c.caller # r
      BY <2>2 DEF SendJournal, At
    <3>4. /\ req'[r].pc = "await_erp" /\ req'[r].inv = req[r].inv
          /\ \A s \in Callers \ {r} : req'[s] = req[s]
      BY <2>2, <1>1, ReqFrame DEF SendJournal
    <3>5. QED
      BY <3>1, <3>2, <3>3, <3>4, <1>2
  <2>3. ASSUME NEW c \in calls, ReceiveJournal(r, c) PROVE CallsAreAwaited'
    BY <2>3, <1>1, <1>4 DEF ReceiveJournal
  <2>4. ASSUME NEW c \in calls, ReceiveConflict(r, c) \/ CallLost(r, c)
        PROVE  CallsAreAwaited'
    BY <2>4, <1>1, <1>4, ReqFrame DEF ReceiveConflict, CallLost
  <2>5. ASSUME NEW c \in calls, CallTimesOut(r, c) PROVE CallsAreAwaited'
    <3>1. ~[c EXCEPT !.live = FALSE].live
      BY <1>2 DEF Call
    <3>2. \A d \in calls' : d \in calls \ {c} \/ ~d.live
      BY <2>5, <3>1 DEF CallTimesOut
    <3>3. c \in CallOf(r) /\ \A s \in Callers \ {r} : req'[s] = req[s]
      BY <2>5, <1>1, ReqFrame DEF CallTimesOut
    <3>4. QED
      BY <3>2, <3>3, <1>4
  <2>6. CASE SetPosted(r) \/ SaveJournal(r)
    BY <2>6, <1>1, <1>3, ReqFrame DEF SetPosted, SaveJournal, At, erpVars
  <2>7. QED
    BY <1>8, <2>1, <2>2, <2>3, <2>4, <2>5, <2>6 DEF PostStep
<1>9. ASSUME NEW r \in Callers, RecordDecision(r) PROVE CallsAreAwaited'
  BY <1>9, <1>1, <1>3, ReqFrame DEF RecordDecision, At, erpVars
<1>10. ASSUME NEW r \in Callers, NEW i \in Invoices, NewRequest(r, i)
       PROVE  CallsAreAwaited'
  BY <1>10, <1>1, <1>3
  DEF NewRequest, StartMatch, StartPost, StartDecision, At, erpVars
<1>11. CASE UNCHANGED vars
  BY <1>11 DEF vars, apVars, erpVars
<1>12. QED
  BY <1>5, <1>6, <1>7, <1>8, <1>9, <1>10, <1>11 DEF Next, HandlerStep
---------------------------------------------------------------------------
(* A posted invoice is paid, and its journal can be found.                 *)

KeysOf(i) == ClientKeys[i] \cup {AutoKey[i]}

\* No key is used for two invoices: an "auto:" key contains the invoice's id, and
\* the clients keep theirs apart.
PrivateKeys ==
    \A i, j \in Invoices : i # j => KeysOf(i) \cap KeysOf(j) = {}

\* A journal that pays invoice i.
Pays(j, i) == j.invoice = i /\ Paid(i)

\* What a key, an invoice or a call leads to in the ERP is a journal of the
\* invoice in question.  A thread that has got an answer holds such a journal.
KeysAreOwn ==
    /\ \A r \in Callers : req[r].pc \in PostSteps => req[r].key \in KeysOf(req[r].inv)
    /\ \A c \in calls : c.key \in KeysOf(c.inv)

ErpJournalsAreOwn ==
    /\ \A i \in Invoices : \A k \in KeysOf(i) :
         postedByKey[k] # NoJournal => Pays(postedByKey[k], i)
    /\ \A i \in Invoices :
         postedByInvoice[i] # NoJournal => Pays(postedByInvoice[i], i)
    /\ \A c \in calls : c.phase = "answered" => Pays(c.journal, c.inv)

HeldJournalIsOwn ==
    \A r \in Callers : req[r].pc \in {"set_posted", "save_journal"}
        => Pays(req[r].journal, req[r].inv)

PostedInv ==
    /\ KeysAreOwn
    /\ ErpJournalsAreOwn
    /\ HeldJournalIsOwn
    /\ PostedIsPaid
    /\ PostedIsReplayable

\* Initially nothing is in the ERP, on its way to it, or posted.
LEMMA PostedInit == Init => PostedInv
<1> SUFFICES ASSUME Init PROVE PostedInv
  OBVIOUS
<1>1. \A i \in Invoices : KeysOf(i) \subseteq Keys
  BY ApConstants DEF KeysOf
<1>2. QED
  BY <1>1, RequestTypes
  DEF Init, ErpInit, PostedInv, KeysAreOwn, ErpJournalsAreOwn, HeldJournalIsOwn,
      PostedIsPaid, PostedIsReplayable, PostSteps

\* A journal, once created, exists.
LEMMA PaidStays ==
    ASSUME TypeInv, [Next]_vars
    PROVE  \A i \in Invoices : Paid(i) => Paid(i)'
<1> USE DEF Paid
<1>1. minted \in [Invoices -> Nat]
  BY DEF TypeInv, TypeOK, ErpTypeOK
<1>2. ASSUME NEW r \in Callers, ErpServes(r)
      PROVE  \A i \in Invoices : Paid(i) => Paid(i)'
  BY <1>1, <1>2 DEF ErpServes, ErpStep, ErpRefuse, ErpReplayByKey,
                    ErpReplayByInvoice, ErpMiss, ErpCreate
<1>3. ASSUME NEW r \in Callers, HandlerStep(r) PROVE minted' = minted
  BY <1>3 DEF HandlerStep, MatchStep, RetrievePolicy, RunMatch, SaveMatch,
              SetMatchStatus, EvaluateMatch, Finalize, MatchFails, PostStep,
              ReplayJournal, NoKnownJournal, PostGuard, SendJournal,
              ReceiveJournal, ReceiveConflict, CallLost, CallTimesOut,
              SetPosted, SaveJournal, RecordDecision, erpVars
<1>4. ASSUME NEW r \in Callers, NEW i \in Invoices, NewRequest(r, i)
      PROVE  minted' = minted
  BY <1>4 DEF NewRequest, StartMatch, StartPost, StartDecision, erpVars
<1>5. QED
  BY <1>2, <1>3, <1>4 DEF Next, Ingest, vars, erpVars

\* A step of the ERP preserves it: the journal it creates is filed under the
\* call's own key and invoice.
LEMMA PostedErpStep ==
    ASSUME PrivateKeys, TypeInv, PostedInv, NEW r \in Callers, ErpServes(r)
    PROVE  PostedInv'
<1> USE DEF PostedInv, Pays
<1>1. /\ calls \subseteq Call
      /\ postedByKey \in [Keys -> Journal \cup {NoJournal}]
      /\ postedByInvoice \in [Invoices -> Journal \cup {NoJournal}]
      /\ minted \in [Invoices -> Nat]
  BY DEF TypeInv, TypeOK, ErpTypeOK
<1>2. PICK c \in calls : ErpStep(c) /\ UNCHANGED apVars
  BY DEF ErpServes
<1>3. c \in Call /\ c.inv \in Invoices /\ c.key \in Keys
  BY <1>1 DEF Call
<1>4. \A i \in Invoices : Paid(i) => Paid(i)'
  BY PaidStays DEF Next
<1>5. \A d \in calls' : d \in calls \/ (d.inv = c.inv /\ d.key = c.key)
  BY <1>2, <1>3, ErpServesOneCall
<1>6. KeysAreOwn'
  BY <1>2, <1>5 DEF KeysAreOwn, apVars
<1>7. HeldJournalIsOwn' /\ PostedIsPaid' /\ PostedIsReplayable'
  <2>1. \A s \in Callers : req[s].inv \in Invoices
    BY DEF TypeInv, TypeOK, Request
  <2>2. QED
    BY <1>2, <1>4, <2>1
    DEF HeldJournalIsOwn, PostedIsPaid, PostedIsReplayable, At, apVars
<1>8. ASSUME NEW p, NEW j, Return(c, p, j),
             p = "answered" => j.invoice = c.inv /\ Paid(c.inv)'
      PROVE  \A d \in calls' : d.phase = "answered" => Pays(d.journal, d.inv)'
  <2> DEFINE served == [c EXCEPT !.phase = p, !.journal = j]
  <2>1. served.phase = p /\ served.journal = j /\ served.inv = c.inv
    BY <1>3 DEF Call
  <2>2. \A d \in calls' : d \in calls \/ d = served
    BY <1>8 DEF Return
  <2>3. \A d \in calls : d.phase = "answered" => Pays(d.journal, d.inv)'
    BY <1>1, <1>4 DEF ErpJournalsAreOwn, Call
  <2> HIDE DEF served
  <2>4. QED
    BY <1>8, <2>1, <2>2, <2>3
<1>9. ErpJournalsAreOwn'
  <2> USE DEF ErpJournalsAreOwn
  <2>1. \A i \in Invoices : \A k \in KeysOf(i) :
          postedByKey[k] # NoJournal => postedByKey[k].invoice = i /\ Paid(i)'
    BY <1>4
  <2>2. \A i \in Invoices :
          postedByInvoice[i] # NoJournal =>
            postedByInvoice[i].invoice = i /\ Paid(i)'
    BY <1>4
  <2>3. c.key \in KeysOf(c.inv)
    BY DEF KeysAreOwn
  <2>4. \A i \in Invoices : c.key \in KeysOf(i) => i = c.inv
    BY <2>3, <1>3 DEF PrivateKeys
  <2>5. CASE ErpRefuse(c)
    BY <2>5, <2>1, <2>2, <1>8 DEF ErpRefuse
  <2>6. CASE ErpReplayByKey(c)
    BY <2>6, <2>1, <2>2, <2>3, <1>3, <1>8 DEF ErpReplayByKey
  <2>7. CASE ErpReplayByInvoice(c)
    BY <2>7, <2>1, <2>2, <2>4, <1>1, <1>3, <1>8 DEF ErpReplayByInvoice
  <2>8. CASE ErpMiss(c)
    <3>1. \A d \in calls' : d.phase = "answered" => d \in calls
      BY <2>8, <1>3 DEF ErpMiss, Call
    <3>2. \A d \in calls : d.phase = "answered" => Pays(d.journal, d.inv)'
      BY <1>1, <1>4 DEF Call
    <3>3. UNCHANGED <<postedByKey, postedByInvoice>>
      BY <2>8 DEF ErpMiss
    <3>4. QED
      BY <3>1, <3>2, <3>3, <2>1, <2>2
  <2>9. CASE ErpCreate(c)
    <3>1. /\ postedByKey' = [postedByKey EXCEPT ![c.key] = NewJournal(c)]
          /\ postedByInvoice' = [postedByInvoice EXCEPT ![c.inv] = NewJournal(c)]
          /\ Return(c, "answered", NewJournal(c))
      BY <2>9 DEF ErpCreate
    <3>2. NewJournal(c).invoice = c.inv
      BY DEF NewJournal
    <3>3. Paid(c.inv)'
      BY <2>9, <1>1, <1>3 DEF ErpCreate, Paid
    <3>4. \A d \in calls' : d.phase = "answered" => Pays(d.journal, d.inv)'
      BY <3>1, <3>2, <3>3, <1>8
    <3>5. \A i \in Invoices : \A k \in KeysOf(i) :
            postedByKey'[k] # NoJournal => postedByKey'[k].invoice = i /\ Paid(i)'
      BY <3>1, <3>2, <3>3, <2>1, <2>4, <1>1, <1>3
    <3>6. \A i \in Invoices :
            postedByInvoice'[i] # NoJournal =>
              postedByInvoice'[i].invoice = i /\ Paid(i)'
      BY <3>1, <3>2, <3>3, <2>2, <1>1, <1>3
    <3>7. QED
      BY <3>4, <3>5, <3>6
  <2>10. QED
    BY <1>2, <2>5, <2>6, <2>7, <2>8, <2>9 DEF ErpStep
<1>10. QED
  BY <1>6, <1>7, <1>9
\* Every step preserves the invariant.
LEMMA PostedStep ==
    ASSUME PrivateKeys
    PROVE  TypeInv /\ CallsAreAwaited /\ PostedInv /\ [Next]_vars => PostedInv'
<1> SUFFICES ASSUME TypeInv, CallsAreAwaited, PostedInv, [Next]_vars
             PROVE  PostedInv'
  OBVIOUS
<1> USE DEF PostedInv
<1>1. /\ req \in [Callers -> Request]
      /\ status \in [Invoices -> Status \cup {"absent"}]
      /\ calls \subseteq Call
  BY DEF TypeInv, TypeOK, ErpTypeOK
<1>2. \A r \in Callers : req[r] \in Request /\ req[r].inv \in Invoices
  BY <1>1 DEF Request
  \* Most steps leave the ERP alone, mark nothing as posted and move one thread
  \* that was not about to save a journal.
<1>3. ASSUME UNCHANGED <<postedByKey, postedByInvoice, minted, journals>>,
             \A c \in calls' : c \in calls \/ (c.phase # "answered" /\ c.key \in KeysOf(c.inv)),
             \A i \in Invoices : status'[i] = "POSTED" => status[i] = "POSTED",
             NEW r \in Callers, \A s \in Callers \ {r} : req'[s] = req[s],
             req[r].pc # "save_journal",
             req'[r].pc \in PostSteps => req'[r].key \in KeysOf(req'[r].inv),
             req'[r].pc \in {"set_posted", "save_journal"} =>
               Pays(req'[r].journal, req'[r].inv)
      PROVE  PostedInv'
  <2> USE <1>3
  <2>1. \A i \in Invoices : Paid(i)' = Paid(i)
    BY DEF Paid
  <2>2. KeysAreOwn'
    BY DEF KeysAreOwn
  <2>3. ErpJournalsAreOwn'
    BY <2>1, <1>1 DEF ErpJournalsAreOwn, Pays, Call
  <2>4. HeldJournalIsOwn'
    BY <2>1, <1>2 DEF HeldJournalIsOwn, Pays, Paid
  <2>5. PostedIsPaid' /\ PostedIsReplayable'
    BY <2>1 DEF PostedIsPaid, PostedIsReplayable, At
  <2>6. QED
    BY <2>2, <2>3, <2>4, <2>5
<1>4. ASSUME NEW r \in Callers, ErpServes(r) PROVE PostedInv'
  BY <1>4, PostedErpStep
<1>5. CASE UNCHANGED <<req, journals, erpVars>>
           /\ \A i \in Invoices : status'[i] = "POSTED" => status[i] = "POSTED"
  BY <1>5 DEF KeysAreOwn, ErpJournalsAreOwn, HeldJournalIsOwn, PostedIsPaid,
              PostedIsReplayable, Pays, Paid, At, erpVars
<1>6. ASSUME NEW i \in Invoices, Ingest(i) PROVE PostedInv'
  BY <1>6, <1>1, <1>5 DEF Ingest
<1>7. ASSUME NEW r \in Callers, MatchStep(r) PROVE PostedInv'
  <2> USE DEF erpVars
  <2>1. CASE RetrievePolicy(r) \/ SaveMatch(r) \/ SetMatchStatus(r)
    <3>1. req'[r].pc \notin PostSteps /\ req[r].pc # "save_journal"
      BY <2>1, <1>1, ReqFrame
      DEF RetrievePolicy, SaveMatch, SetMatchStatus, PostSteps, At
    <3>2. QED
      BY <2>1, <3>1, <1>1, <1>3, ReqFrame
      DEF RetrievePolicy, SaveMatch, SetMatchStatus, PostSteps
  <2>2. CASE RunMatch(r)
    BY <2>2, <1>1, <1>2, <1>3 DEF RunMatch, Request, PostSteps, At
  <2>3. ASSUME NEW q \in AgentActions, EvaluateMatch(r, q) PROVE PostedInv'
    <3> DEFINE post == PostRequest(req[r].inv, AutoKey[req[r].inv])
    <3>1. /\ post.pc = "get_journal" /\ post.inv = req[r].inv
          /\ post.key \in KeysOf(post.inv)
      BY <1>2, RequestTypes, ApConstants DEF PostRequest, KeysOf, Request
    <3>2. /\ req'[r].pc \in {"get_journal", "finalize"}
          /\ req'[r].pc = "get_journal" => req'[r] = post
          /\ \A s \in Callers \ {r} : req'[s] = req[s]
      BY <2>3, <3>1, <1>1, <1>2 DEF EvaluateMatch, Request
    <3>3. UNCHANGED <<status, journals, erpVars>> /\ req[r].pc # "save_journal"
      BY <2>3 DEF EvaluateMatch, At
    <3> HIDE DEF post
    <3>4. QED
      BY <3>1, <3>2, <3>3, <1>3 DEF PostSteps
  <2>4. CASE Finalize(r) \/ MatchFails(r)
    BY <2>4, <1>1, <1>3, ReqFrame DEF Finalize, MatchFails, PostSteps, At
  <2>5. QED
    BY <1>7, <2>1, <2>2, <2>3, <2>4 DEF MatchStep
<1>8. ASSUME NEW r \in Callers, PostStep(r) PROVE PostedInv'
  <2> USE DEF erpVars
  <2>1. CASE ReplayJournal(r) \/ NoKnownJournal(r) \/ PostGuard(r)
    <3>1. req[r].pc \in PostSteps /\ req[r].pc # "save_journal"
      BY <2>1 DEF ReplayJournal, NoKnownJournal, PostGuard, At, PostSteps
    <3>2. \/ req'[r].pc = "idle"
          \/ /\ req'[r].pc \in {"post_guard", "erp_call"}
             /\ req'[r].key = req[r].key /\ req'[r].inv = req[r].inv
      BY <2>1, <1>1, <1>2, RequestTypes
      DEF ReplayJournal, NoKnownJournal, PostGuard, Goto, Finish, Request
    <3>3. QED
      BY <2>1, <3>1, <3>2, <1>1, <1>3, ReqFrame
      DEF ReplayJournal, NoKnownJournal, PostGuard, KeysAreOwn, PostSteps
  <2>2. CASE SendJournal(r)
    <3>1. req[r].key \in KeysOf(req[r].inv)
      BY <2>2 DEF SendJournal, At, PostSteps, KeysAreOwn
    <3>2. /\ req'[r].pc = "await_erp"
          /\ req'[r].key = req[r].key /\ req'[r].inv = req[r].inv
      BY <2>2, <1>1, <1>2 DEF SendJournal, Goto, Request
    <3>3. \A c \in calls' :
            c \in calls \/ (c.phase # "answered" /\ c.key \in KeysOf(c.inv))
      BY <2>2, <3>1 DEF SendJournal
    <3>4. QED
      BY <2>2, <3>1, <3>2, <3>3, <1>1, <1>3, ReqFrame
      DEF SendJournal, At, PostSteps
  <2>3. ASSUME NEW c \in calls, ReceiveJournal(r, c) PROVE PostedInv'
    <3>1. /\ req'[r].pc = "set_posted" /\ req'[r].journal = c.journal
          /\ req'[r].key = req[r].key /\ req'[r].inv = req[r].inv
          /\ \A s \in Callers \ {r} : req'[s] = req[s]
      BY <2>3, <1>1, <1>2 DEF ReceiveJournal, Request
    <3>2. c.inv = req[r].inv /\ Pays(c.journal, c.inv)
      BY <2>3 DEF ReceiveJournal, CallOf, CallsAreAwaited, ErpJournalsAreOwn
    <3>3. req[r].key \in KeysOf(req[r].inv) /\ req[r].pc # "save_journal"
      BY <2>3 DEF ReceiveJournal, At, PostSteps, KeysAreOwn
    <3>4. UNCHANGED <<status, journals, postedByKey, postedByInvoice, minted>>
          /\ calls' \subseteq calls
      BY <2>3 DEF ReceiveJournal
    <3>5. QED
      BY <3>1, <3>2, <3>3, <3>4, <1>3
  <2>4. ASSUME NEW c \in calls, ReceiveConflict(r, c) \/ CallLost(r, c)
        PROVE  PostedInv'
    BY <2>4, <1>1, <1>3, ReqFrame
    DEF ReceiveConflict, CallLost, PostSteps, At
  <2>5. ASSUME NEW c \in calls, CallTimesOut(r, c) PROVE PostedInv'
    <3> DEFINE orphan == [c EXCEPT !.live = FALSE]
    <3>1. /\ orphan.phase = c.phase /\ orphan.key = c.key /\ orphan.inv = c.inv
          /\ orphan.journal = c.journal
      BY <1>1 DEF Call
    <3>2. c.phase # "answered" /\ calls' = (calls \ {c}) \cup {orphan}
      BY <2>5 DEF CallTimesOut
    <3>3. c.key \in KeysOf(c.inv)
      BY DEF KeysAreOwn
    <3> HIDE DEF orphan
    <3>4. \A d \in calls' :
            d \in calls \/ (d.phase # "answered" /\ d.key \in KeysOf(d.inv))
      BY <3>1, <3>2, <3>3
    <3>5. QED
      BY <2>5, <3>4, <1>1, <1>3, ReqFrame DEF CallTimesOut, PostSteps, At
  <2>6. CASE SetPosted(r)
    <3>1. /\ req'[r].pc = "save_journal" /\ req'[r].inv = req[r].inv
          /\ req'[r].key = req[r].key /\ req'[r].journal = req[r].journal
          /\ \A s \in Callers \ {r} : req'[s] = req[s]
      BY <2>6, <1>1, <1>2 DEF SetPosted, Goto, Request
    <3>2. /\ \A i \in Invoices \ {req[r].inv} : status'[i] = status[i]
          /\ UNCHANGED <<journals, erpVars>>
      BY <2>6, <1>1 DEF SetPosted
    <3>3. /\ Pays(req[r].journal, req[r].inv)
          /\ req[r].key \in KeysOf(req[r].inv)
          /\ req[r].pc = "set_posted"
      BY <2>6 DEF SetPosted, At, HeldJournalIsOwn, KeysAreOwn, PostSteps
    <3>4. KeysAreOwn' /\ ErpJournalsAreOwn' /\ HeldJournalIsOwn'
      BY <3>1, <3>2, <3>3
      DEF KeysAreOwn, ErpJournalsAreOwn, HeldJournalIsOwn, Pays, Paid
    <3>5. PostedIsPaid' /\ PostedIsReplayable'
      BY <3>1, <3>2, <3>3
      DEF PostedIsPaid, PostedIsReplayable, Pays, Paid, At
    <3>6. QED
      BY <3>4, <3>5
  <2>7. CASE SaveJournal(r)
    <3>1. /\ req'[r].pc = "idle"
          /\ \A s \in Callers \ {r} : req'[s] = req[s]
      BY <2>7, <1>1, ReqFrame DEF SaveJournal
    <3>2. /\ UNCHANGED <<status, erpVars>>
          /\ journals' = journals \cup {req[r].journal}
          /\ req[r].pc = "save_journal"
      BY <2>7 DEF SaveJournal, At
    <3>3. req[r].journal.invoice = req[r].inv
      BY <3>2 DEF HeldJournalIsOwn, Pays
    <3>4. KeysAreOwn' /\ ErpJournalsAreOwn' /\ HeldJournalIsOwn'
      BY <3>1, <3>2
      DEF KeysAreOwn, ErpJournalsAreOwn, HeldJournalIsOwn, Pays, Paid, PostSteps
    <3>5. PostedIsPaid' /\ PostedIsReplayable'
      BY <3>1, <3>2, <3>3 DEF PostedIsPaid, PostedIsReplayable, Paid, At
    <3>6. QED
      BY <3>4, <3>5
  <2>8. QED
    BY <1>8, <2>1, <2>2, <2>3, <2>4, <2>5, <2>6, <2>7 DEF PostStep
<1>9. ASSUME NEW r \in Callers, RecordDecision(r) PROVE PostedInv'
  BY <1>9, <1>1, <1>3, ReqFrame DEF RecordDecision, At, PostSteps, erpVars
<1>10. ASSUME NEW r \in Callers, NEW i \in Invoices, NewRequest(r, i)
       PROVE  PostedInv'
  <2> USE DEF erpVars
  <2>1. ASSUME NEW b \in BOOLEAN, StartMatch(r, i, b) PROVE PostedInv'
    BY <2>1, <1>1, <1>3, RequestTypes DEF StartMatch, Request, At, PostSteps
  <2>2. ASSUME NEW k \in ClientKeys[i], StartPost(r, i, k) PROVE PostedInv'
    <3>0. /\ PostRequest(i, k).pc = "get_journal"
          /\ PostRequest(i, k).key = k /\ PostRequest(i, k).inv = i
      BY RequestTypes DEF PostRequest, Request
    <3>1. /\ req'[r].pc = "get_journal"
          /\ req'[r].key = k /\ req'[r].inv = i
          /\ \A s \in Callers \ {r} : req'[s] = req[s]
      BY <2>2, <3>0, <1>1 DEF StartPost
    <3>2. k \in KeysOf(i)
      BY DEF KeysOf
    <3>3. QED
      BY <2>2, <3>1, <3>2, <1>3 DEF StartPost, At, PostSteps
  <2>3. ASSUME NEW b \in BOOLEAN, StartDecision(r, i, b) PROVE PostedInv'
    BY <2>3, <1>1, <1>3, RequestTypes DEF StartDecision, Request, At, PostSteps
  <2>4. QED
    BY <1>10, <2>1, <2>2, <2>3 DEF NewRequest
<1>11. CASE UNCHANGED vars
  BY <1>11, <1>5 DEF vars, apVars
<1>12. QED
  BY <1>4, <1>6, <1>7, <1>8, <1>9, <1>10, <1>11 DEF Next, HandlerStep

\* With keys of one's own, what says POSTED has been paid: what the ERP hands out
\* under a key is never another invoice's journal.
THEOREM PostedHasBeenPaid == ASSUME PrivateKeys PROVE Spec => []PostedIsPaid
<1>1. TypeInv /\ [Next]_vars => TypeInv'
  BY TypeStep, HandStep DEF TypeInv
<1>2. TypeInv /\ CallsAreAwaited /\ PostedInv /\ [Next]_vars => PostedInv'
  BY PostedStep
<1>3. PostedInv => PostedIsPaid
  BY DEF PostedInv
<1>4. QED
  BY TypeInit, <1>1, AwaitedInit, AwaitedStep, PostedInit, <1>2, <1>3, PTL
  DEF Spec

\* With keys of one's own, whoever posts a posted invoice again finds its journal in
\* the repository, or the thread that marked it is about to save it.
THEOREM PostedCanBeReplayed ==
    ASSUME PrivateKeys PROVE Spec => []PostedIsReplayable
<1>1. TypeInv /\ [Next]_vars => TypeInv'
  BY TypeStep, HandStep DEF TypeInv
<1>2. TypeInv /\ CallsAreAwaited /\ PostedInv /\ [Next]_vars => PostedInv'
  BY PostedStep
<1>3. PostedInv => PostedIsReplayable
  BY DEF PostedInv
<1>4. QED
  BY TypeInit, <1>1, AwaitedInit, AwaitedStep, PostedInit, <1>2, <1>3, PTL
  DEF Spec
---------------------------------------------------------------------------
(* One request at a time.                                                  *)

\* One worker thread, and no call outlives its caller's patience: what the code
\* promises for every order of requests, failures and lost answers.
OneAtATime ==
    /\ \A r, s \in Callers : r = s
    /\ MaxOrphans = 0

\* What a handler found in the status when it started is still there when it
\* acts on it.
ThreadsSeeStatus ==
    \A r \in Callers :
        /\ req[r].pc \in MatchSteps => status[req[r].inv] \notin Settled
        /\ req[r].pc = "decide" => status[req[r].inv] \in Reviewable
        /\ req[r].pc \in {"erp_call", "await_erp", "set_posted"}
             => status[req[r].inv] \in {"MATCHED", "APPROVED"}

\* A call is awaited until it has been answered; the in-process ERP refuses none.
CallsAreLive ==
    \A c \in calls : c.live /\ (~settings.http => c.phase # "conflict")

\* A journal that exists is filed under its invoice, and a call that is about to
\* create one has found none.
JournalsAreFiled ==
    /\ \A i \in Invoices : postedByInvoice[i] = NoJournal => minted[i] = 0
    /\ \A c \in calls : c.phase = "create" => postedByInvoice[c.inv] = NoJournal
    /\ AtMostOneJournal

\* With the in-process ERP a paid invoice is POSTED, or the thread that is to
\* mark it so is on its way.
PaidIsPosted ==
    ~settings.http => \A i \in Invoices : Paid(i) =>
        \/ status[i] = "POSTED"
        \/ \E r \in Callers :
             req[r].pc \in {"await_erp", "set_posted"} /\ req[r].inv = i

SerialInv == ThreadsSeeStatus /\ CallsAreLive /\ JournalsAreFiled /\ PaidIsPosted

\* Initially all threads are idle and the ERP is empty.
LEMMA SerialInit == Init => SerialInv
BY RequestTypes
DEF Init, ErpInit, SerialInv, ThreadsSeeStatus, CallsAreLive, JournalsAreFiled,
    AtMostOneJournal, PaidIsPosted, Paid, MatchSteps

\* No other thread changes a status while a handler is at work.
LEMMA ThreadsSeeStatusStep ==
    ASSUME OneAtATime, TypeInv, DuplicateInv, ThreadsSeeStatus, [Next]_vars
    PROVE  ThreadsSeeStatus'
<1> USE DEF ThreadsSeeStatus
<1>1. /\ req \in [Callers -> Request]
      /\ status \in [Invoices -> Status \cup {"absent"}]
  BY DEF TypeInv, TypeOK
<1>2. \A r \in Callers : /\ req[r] \in Request /\ req[r].inv \in Invoices
                         /\ \A s \in Callers : s = r
  BY <1>1 DEF Request, OneAtATime
<1>3. ASSUME NEW r \in Callers, ErpServes(r) PROVE ThreadsSeeStatus'
  BY <1>3 DEF ErpServes, apVars
<1>4. ASSUME NEW i \in Invoices, Ingest(i) PROVE ThreadsSeeStatus'
  BY <1>4, <1>1, <1>2
  DEF Ingest, Ingested, Settled, DuplicateInv, ActiveIsIngested, MatchSteps
<1>5. ASSUME NEW r \in Callers, MatchStep(r) PROVE ThreadsSeeStatus'
  <2>1. CASE RetrievePolicy(r) \/ SaveMatch(r)
    BY <2>1, <1>1, <1>2, ReqFrame DEF RetrievePolicy, SaveMatch, At, MatchSteps
  <2>2. CASE RunMatch(r)
    BY <2>2, <1>1, <1>2 DEF RunMatch, At, MatchSteps, Request
  <2>3. CASE SetMatchStatus(r)
    BY <2>3, <1>1, <1>2, ReqFrame DEF SetMatchStatus, At, MatchSteps, Settled
  <2>4. ASSUME NEW q \in AgentActions, EvaluateMatch(r, q)
        PROVE  ThreadsSeeStatus'
    <3>1. PostRequest(req[r].inv, AutoKey[req[r].inv]).pc = "get_journal"
      BY <1>2, RequestTypes, ApConstants
    <3>2. status' = status /\ req[r].pc = "evaluate_match"
      BY <2>4 DEF EvaluateMatch, At
    <3>3. req'[r].pc = "get_journal"
          \/ (req'[r].pc = "finalize" /\ req'[r].inv = req[r].inv)
      BY <2>4, <3>1, <1>1, <1>2 DEF EvaluateMatch, Request
    <3>4. QED
      BY <3>2, <3>3, <1>2 DEF MatchSteps
  <2>5. CASE Finalize(r) \/ MatchFails(r)
    BY <2>5, <1>1, <1>2, ReqFrame DEF Finalize, MatchFails, MatchSteps
  <2>6. QED
    BY <1>5, <2>1, <2>2, <2>3, <2>4, <2>5 DEF MatchStep
<1>6. ASSUME NEW r \in Callers, PostStep(r) PROVE ThreadsSeeStatus'
  <2>1. CASE ReplayJournal(r) \/ NoKnownJournal(r) \/ PostGuard(r)
    <3>1. status' = status /\ req'[r].pc \in {"idle", "post_guard", "erp_call"}
      BY <2>1, <1>1, ReqFrame DEF ReplayJournal, NoKnownJournal, PostGuard
    <3>2. req'[r].pc = "erp_call" =>
            req'[r].inv = req[r].inv /\ MayPost(req[r].inv)
      BY <2>1, <1>1, ReqFrame DEF ReplayJournal, NoKnownJournal, PostGuard
    <3>3. QED
      BY <3>1, <3>2, <1>2 DEF MayPost, MatchSteps
  <2>2. CASE SendJournal(r)
    BY <2>2, <1>1, <1>2, ReqFrame DEF SendJournal, At, MatchSteps
  <2>3. ASSUME NEW c \in calls, ReceiveJournal(r, c) PROVE ThreadsSeeStatus'
    BY <2>3, <1>1, <1>2 DEF ReceiveJournal, At, MatchSteps, Request
  <2>4. ASSUME NEW c \in calls,
               ReceiveConflict(r, c) \/ CallLost(r, c) \/ CallTimesOut(r, c)
        PROVE  ThreadsSeeStatus'
    BY <2>4, <1>1, <1>2, ReqFrame
    DEF ReceiveConflict, CallLost, CallTimesOut, MatchSteps
  <2>5. CASE SetPosted(r) \/ SaveJournal(r)
    BY <2>5, <1>1, <1>2, ReqFrame DEF SetPosted, SaveJournal, MatchSteps
  <2>6. QED
    BY <1>6, <2>1, <2>2, <2>3, <2>4, <2>5 DEF PostStep
<1>7. ASSUME NEW r \in Callers, RecordDecision(r) PROVE ThreadsSeeStatus'
  BY <1>7, <1>1, <1>2, ReqFrame DEF RecordDecision, MatchSteps
<1>8. ASSUME NEW r \in Callers, NEW i \in Invoices, NewRequest(r, i)
      PROVE  ThreadsSeeStatus'
  <2>1. ASSUME NEW b \in BOOLEAN, StartMatch(r, i, b) PROVE ThreadsSeeStatus'
    BY <2>1, <1>1, <1>2, RequestTypes
    DEF StartMatch, MayStartMatch, MatchSteps, Request
  <2>2. ASSUME NEW k \in ClientKeys[i], StartPost(r, i, k)
        PROVE  ThreadsSeeStatus'
    <3>1. PostRequest(i, k).pc = "get_journal"
      BY RequestTypes, ApConstants
    <3>2. req'[r].pc = "get_journal"
      BY <2>2, <3>1, <1>1 DEF StartPost
    <3>3. QED
      BY <3>2, <1>2 DEF MatchSteps
  <2>3. ASSUME NEW b \in BOOLEAN, StartDecision(r, i, b)
        PROVE  ThreadsSeeStatus'
    BY <2>3, <1>1, <1>2, RequestTypes DEF StartDecision, MatchSteps, Request
  <2>4. QED
    BY <1>8, <2>1, <2>2, <2>3 DEF NewRequest
<1>9. CASE UNCHANGED vars
  BY <1>9 DEF vars, apVars
<1>10. QED
  BY <1>3, <1>4, <1>5, <1>6, <1>7, <1>8, <1>9 DEF Next, HandlerStep

\* With no call left behind there is at most one call, its caller's.
LEMMA OneCall ==
    ASSUME OneAtATime, TypeInv, CallsAreAwaited, CallsAreLive
    PROVE  /\ \A c, d \in calls : c = d
           /\ \A c \in calls : \A r \in Callers :
                req[r].pc = "await_erp" /\ req[r].inv = c.inv
<1>1. \A c \in calls : c.caller \in Callers
  BY DEF TypeInv, TypeOK, ErpTypeOK, Call
<1>2. QED
  BY <1>1 DEF OneAtATime, CallsAreAwaited, CallsAreLive

\* A step of the ERP keeps its journals filed, and pays only an invoice whose
\* poster waits for the answer.
LEMMA SerialErpStep ==
    ASSUME OneAtATime, TypeInv, CallsAreAwaited, SerialInv,
           NEW r \in Callers, ErpServes(r)
    PROVE  CallsAreLive' /\ JournalsAreFiled' /\ PaidIsPosted'
<1> USE DEF SerialInv
<1>1. /\ calls \subseteq Call
      /\ postedByInvoice \in [Invoices -> Journal \cup {NoJournal}]
      /\ minted \in [Invoices -> Nat]
  BY DEF TypeInv, TypeOK, ErpTypeOK
<1>2. PICK c \in calls : ErpStep(c) /\ UNCHANGED apVars
  BY DEF ErpServes
<1>3. c \in Call /\ c.inv \in Invoices
  BY <1>1 DEF Call
<1>4. /\ \A d \in calls : d = c
      /\ req[r].pc = "await_erp" /\ req[r].inv = c.inv
  BY OneCall
<1>5. ASSUME NEW p, NEW j, Return(c, p, j)
      PROVE  \A d \in calls' : d.phase = p /\ d.live /\ d.inv = c.inv
  <2> DEFINE served == [c EXCEPT !.phase = p, !.journal = j]
  <2>1. served.phase = p /\ served.live = c.live /\ served.inv = c.inv
    BY <1>3 DEF Call
  <2>2. \A d \in calls' : d = served
    BY <1>4, <1>5 DEF Return
  <2> HIDE DEF served
  <2>3. QED
    BY <2>1, <2>2 DEF CallsAreLive
<1>6. settings' = settings
  BY <1>2 DEF ErpStep, ErpRefuse, ErpReplayByKey, ErpReplayByInvoice, ErpMiss,
              ErpCreate
<1>7. CASE ErpCreate(c)
  <2>1. \A d \in calls' : d.phase = "answered" /\ d.live
    BY <1>7, <1>5 DEF ErpCreate
  <2>2. minted[c.inv] = 0
    BY <1>3, <1>7 DEF ErpCreate, JournalsAreFiled
  <2>3. postedByInvoice'[c.inv] # NoJournal
    <3>1. NewJournal(c) \in Journal
      BY <1>1, <1>3 DEF NewJournal, Journal, Call
    <3>2. QED
      BY <1>7, <3>1, <1>1, <1>3, ErpConstants DEF ErpCreate
  <2>4. /\ minted'[c.inv] = 1
        /\ \A i \in Invoices \ {c.inv} :
             minted'[i] = minted[i] /\ postedByInvoice'[i] = postedByInvoice[i]
    BY <1>7, <2>2, <1>1, <1>3 DEF ErpCreate
  <2>5. CallsAreLive'
    BY <2>1 DEF CallsAreLive
  <2>6. JournalsAreFiled'
    BY <2>1, <2>3, <2>4 DEF JournalsAreFiled, AtMostOneJournal
  <2>7. PaidIsPosted'
    BY <2>4, <1>2, <1>4, <1>6 DEF PaidIsPosted, Paid, apVars
  <2>8. QED
    BY <2>5, <2>6, <2>7
<1>8. CASE minted' = minted
  <2>1. PaidIsPosted'
    BY <1>8, <1>2, <1>6 DEF PaidIsPosted, Paid, apVars
  <2>2. CASE ErpRefuse(c)
    <3>1. \A d \in calls' : d.phase = "conflict" /\ d.live
      BY <2>2, <1>5 DEF ErpRefuse
    <3>2. settings.http
      BY <2>2 DEF ErpRefuse, Accepts
    <3>3. UNCHANGED <<postedByInvoice, minted>>
      BY <2>2 DEF ErpRefuse
    <3>4. QED
      BY <2>1, <3>1, <3>2, <3>3, <1>6
      DEF CallsAreLive, JournalsAreFiled, AtMostOneJournal
  <2>3. CASE ErpReplayByKey(c) \/ ErpReplayByInvoice(c)
    BY <2>1, <2>3, <1>5
    DEF ErpReplayByKey, ErpReplayByInvoice, CallsAreLive, JournalsAreFiled,
        AtMostOneJournal
  <2>4. CASE ErpMiss(c)
    <3>1. \A d \in calls' : d.phase = "create" /\ d.live /\ d.inv = c.inv
      BY <2>4, <1>3, <1>4 DEF ErpMiss, Call, CallsAreLive
    <3>2. QED
      BY <2>1, <2>4, <3>1
      DEF ErpMiss, CallsAreLive, JournalsAreFiled, AtMostOneJournal
  <2>5. QED
    BY <1>2, <1>7, <2>2, <2>3, <2>4 DEF ErpStep
<1>9. QED
  BY <1>2, <1>7, <1>8
  DEF ErpStep, ErpRefuse, ErpReplayByKey, ErpReplayByInvoice, ErpMiss
\* A decision or a payment is final, one step at a time.
LEMMA StatusMoves ==
    ASSUME OneAtATime, TypeInv, ThreadsSeeStatus, [Next]_vars
    PROVE  \A i \in Invoices :
             /\ status[i] \in {"POSTED", "REJECTED"} => status'[i] = status[i]
             /\ status[i] = "APPROVED" => status'[i] \in {"APPROVED", "POSTED"}
<1> DEFINE Final == \A i \in Invoices :
             /\ status[i] \in {"POSTED", "REJECTED"} => status'[i] = status[i]
             /\ status[i] = "APPROVED" => status'[i] \in {"APPROVED", "POSTED"}
<1> USE DEF ThreadsSeeStatus
<1>1. status \in [Invoices -> Status \cup {"absent"}]
  BY DEF TypeInv, TypeOK
<1>2. CASE status' = status
  BY <1>2
<1>3. ASSUME NEW i \in Invoices, Ingest(i) PROVE Final
  BY <1>3, <1>1 DEF Ingest, Ingested
<1>4. ASSUME NEW r \in Callers, MatchStep(r) PROVE Final
  <2>1. CASE SetMatchStatus(r) \/ Finalize(r)
    <3>1. status[req[r].inv] \notin Settled
      BY <2>1 DEF SetMatchStatus, Finalize, At, MatchSteps
    <3>2. \A i \in Invoices \ {req[r].inv} : status'[i] = status[i]
      BY <2>1, <1>1 DEF SetMatchStatus, Finalize
    <3>3. QED
      BY <3>1, <3>2 DEF Settled
  <2>2. CASE ~(SetMatchStatus(r) \/ Finalize(r))
    BY <1>4, <2>2, <1>2
    DEF MatchStep, RetrievePolicy, RunMatch, SaveMatch, EvaluateMatch, MatchFails
  <2>3. QED
    BY <2>1, <2>2
<1>5. ASSUME NEW r \in Callers, PostStep(r) PROVE Final
  <2>1. CASE SetPosted(r)
    BY <2>1, <1>1 DEF SetPosted, At
  <2>2. CASE ~SetPosted(r)
    BY <1>5, <2>2, <1>2
    DEF PostStep, ReplayJournal, NoKnownJournal, PostGuard, SendJournal,
        ReceiveJournal, ReceiveConflict, CallLost, CallTimesOut, SaveJournal
  <2>3. QED
    BY <2>1, <2>2
<1>6. ASSUME NEW r \in Callers, RecordDecision(r) PROVE Final
  <2>1. status[req[r].inv] \in Reviewable
    BY <1>6 DEF RecordDecision, At
  <2>2. QED
    BY <1>6, <2>1, <1>1 DEF RecordDecision, Reviewable
<1>7. QED
  BY <1>2, <1>3, <1>4, <1>5, <1>6
  DEF Next, HandlerStep, NewRequest, StartMatch, StartPost, StartDecision,
      ErpServes, vars, apVars

\* Every step preserves what the calls and the journals are known to be.
LEMMA SerialStep ==
    ASSUME OneAtATime
    PROVE  TypeInv /\ DuplicateInv /\ CallsAreAwaited /\ SerialInv /\ [Next]_vars
             => SerialInv'
<1> SUFFICES ASSUME TypeInv, DuplicateInv, CallsAreAwaited, SerialInv, [Next]_vars
             PROVE  SerialInv'
  OBVIOUS
<1> USE DEF SerialInv
<1>1. /\ req \in [Callers -> Request]
      /\ calls \subseteq Call
  BY DEF TypeInv, TypeOK, ErpTypeOK
<1>2. \A r, s \in Callers : r = s
  BY DEF OneAtATime
<1>3. ThreadsSeeStatus'
  BY ThreadsSeeStatusStep
<1>4. settings' = settings
  BY HistoryGrows
<1>5. \A i \in Invoices : status[i] = "POSTED" => status'[i] = "POSTED"
  BY StatusMoves
  \* What a handler's step has to show.
<1>6. ASSUME UNCHANGED <<postedByInvoice, minted>>,
             \A c \in calls' : c \in calls \/ (c.phase = "sent" /\ c.live),
             NEW r \in Callers,
             \/ req[r].pc \notin {"await_erp", "set_posted"}
             \/ settings.http
             \/ /\ req'[r].pc \in {"await_erp", "set_posted"}
                /\ req'[r].inv = req[r].inv
             \/ req[r].inv \in Invoices => status'[req[r].inv] = "POSTED"
      PROVE  SerialInv'
  <2>1. CallsAreLive'
    BY <1>4, <1>6 DEF CallsAreLive
  <2>2. JournalsAreFiled'
    BY <1>6 DEF JournalsAreFiled, AtMostOneJournal
  <2>3. PaidIsPosted'
    BY <1>2, <1>4, <1>5, <1>6 DEF PaidIsPosted, Paid
  <2>4. QED
    BY <1>3, <2>1, <2>2, <2>3
<1>7. ASSUME NEW r \in Callers, ErpServes(r) PROVE SerialInv'
  BY <1>7, <1>3, SerialErpStep
<1>8. CASE UNCHANGED <<req, erpVars>>
  <2>1. CallsAreLive' /\ JournalsAreFiled'
    BY <1>8 DEF CallsAreLive, JournalsAreFiled, AtMostOneJournal, erpVars
  <2>2. PaidIsPosted'
    BY <1>5, <1>8 DEF PaidIsPosted, Paid, erpVars
  <2>3. QED
    BY <1>3, <2>1, <2>2
<1>9. ASSUME NEW r \in Callers, MatchStep(r) PROVE SerialInv'
  <2>1. req[r].pc \notin {"await_erp", "set_posted"} /\ UNCHANGED erpVars
    BY <1>9 DEF MatchStep, RetrievePolicy, RunMatch, SaveMatch, SetMatchStatus,
                EvaluateMatch, Finalize, MatchFails, At, erpVars
  <2>2. QED
    BY <2>1, <1>6 DEF erpVars
<1>10. ASSUME NEW r \in Callers, PostStep(r) PROVE SerialInv'
  <2>1. CASE ReplayJournal(r) \/ NoKnownJournal(r) \/ PostGuard(r)
             \/ SaveJournal(r)
    <3>1. req[r].pc \notin {"await_erp", "set_posted"} /\ UNCHANGED erpVars
      BY <2>1 DEF ReplayJournal, NoKnownJournal, PostGuard, SaveJournal, At, erpVars
    <3>2. QED
      BY <3>1, <1>6 DEF erpVars
  <2>2. CASE SendJournal(r)
    <3>1. \A c \in calls' : c \in calls \/ (c.phase = "sent" /\ c.live)
      BY <2>2 DEF SendJournal
    <3>2. QED
      BY <2>2, <3>1, <1>6 DEF SendJournal, At
  <2>3. ASSUME NEW c \in calls, ReceiveJournal(r, c) PROVE SerialInv'
    <3>1. req'[r].pc = "set_posted" /\ req'[r].inv = req[r].inv
      BY <2>3, <1>1 DEF ReceiveJournal, Request
    <3>2. calls' \subseteq calls /\ UNCHANGED <<postedByInvoice, minted>>
      BY <2>3 DEF ReceiveJournal
    <3>3. QED
      BY <3>1, <3>2, <1>6
  <2>4. ASSUME NEW c \in calls, ReceiveConflict(r, c) \/ CallLost(r, c)
        PROVE  SerialInv'
    <3>1. settings.http
      BY <2>4 DEF ReceiveConflict, CallLost, CallsAreLive
    <3>2. calls' \subseteq calls /\ UNCHANGED <<postedByInvoice, minted>>
      BY <2>4 DEF ReceiveConflict, CallLost
    <3>3. QED
      BY <3>1, <3>2, <1>6
  <2>5. ASSUME NEW c \in calls, CallTimesOut(r, c) PROVE SerialInv'
    <3>1. {d \in calls : ~d.live} = {}
      BY DEF CallsAreLive
    <3>2. Cardinality({d \in calls : ~d.live}) = 0
      BY <3>1, FS_EmptySet
    <3>3. QED
      BY <2>5, <3>2 DEF CallTimesOut, OneAtATime
  <2>6. CASE SetPosted(r)
    <3>1. req[r].inv \in Invoices
      BY <1>1 DEF Request
    <3>2. status'[req[r].inv] = "POSTED" /\ UNCHANGED erpVars
      BY <2>6, <3>1 DEF SetPosted, TypeInv, TypeOK
    <3>3. QED
      BY <3>2, <1>6 DEF erpVars
  <2>7. QED
    BY <1>10, <2>1, <2>2, <2>3, <2>4, <2>5, <2>6 DEF PostStep
<1>11. ASSUME NEW r \in Callers, RecordDecision(r) PROVE SerialInv'
  BY <1>11, <1>6 DEF RecordDecision, At, erpVars
<1>12. ASSUME NEW r \in Callers, NEW i \in Invoices, NewRequest(r, i)
       PROVE  SerialInv'
  BY <1>12, <1>6 DEF NewRequest, StartMatch, StartPost, StartDecision, At, erpVars
<1>13. QED
  BY <1>7, <1>8, <1>9, <1>10, <1>11, <1>12
  DEF Next, HandlerStep, Ingest, vars, apVars

\* The strengthened invariant holds of every run.
LEMMA SerialInvariant ==
    ASSUME OneAtATime
    PROVE  Spec => [](TypeInv /\ CallsAreAwaited /\ SerialInv)
<1>1. TypeInv /\ [Next]_vars => TypeInv'
  BY TypeStep, HandStep DEF TypeInv
<1>2. TypeInv /\ DuplicateInv /\ CallsAreAwaited /\ SerialInv /\ [Next]_vars
        => SerialInv'
  BY SerialStep
<1>3. QED
  BY TypeInit, <1>1, DuplicateInit, DuplicateStep, AwaitedInit, AwaitedStep,
     SerialInit, <1>2, PTL DEF Spec

\* One request at a time, the ERP creates one journal per invoice at most: every
\* retry finds the first one.
THEOREM OneJournalPerInvoice ==
    ASSUME OneAtATime PROVE Spec => []AtMostOneJournal
<1>1. SerialInv => AtMostOneJournal
  BY DEF SerialInv, JournalsAreFiled
<1>2. QED
  BY SerialInvariant, <1>1, PTL

\* One request at a time, a rejected invoice has not been paid by an in-process
\* ERP.
THEOREM RejectedHasNotBeenPaid ==
    ASSUME OneAtATime PROVE Spec => []RejectedIsUnpaid
<1>1. SerialInv => RejectedIsUnpaid
  BY DEF SerialInv, PaidIsPosted, ThreadsSeeStatus, RejectedIsUnpaid
<1>2. QED
  BY SerialInvariant, <1>1, PTL

\* One request at a time, a decision or a payment is final.
THEOREM SettledStaysSettled == ASSUME OneAtATime PROVE Spec => SettledIsFinal
<1> DEFINE Final == \A i \in Invoices :
             /\ status[i] \in {"POSTED", "REJECTED"} => status'[i] = status[i]
             /\ status[i] = "APPROVED" => status'[i] \in {"APPROVED", "POSTED"}
<1>1. TypeInv /\ SerialInv /\ [Next]_vars => [Final]_vars
  BY StatusMoves DEF SerialInv
<1>2. QED
  BY SerialInvariant, <1>1, PTL DEF Spec, SettledIsFinal

\* One request at a time, a journal is created only for an invoice that at that
\* moment is matched or approved.
THEOREM CreatedOnlyForPostable ==
    ASSUME OneAtATime PROVE Spec => CreatedOnlyWhenPostable
<1> DEFINE Postable == \A i \in Invoices :
             minted'[i] > minted[i] => status[i] \in {"MATCHED", "APPROVED"}
<1>1. ASSUME TypeInv, CallsAreAwaited, SerialInv, [Next]_vars PROVE Postable
  <2>1. minted \in [Invoices -> Nat]
    BY <1>1 DEF TypeInv, TypeOK, ErpTypeOK
  <2>2. CASE minted' = minted
    BY <2>1, <2>2
  <2>3. ASSUME NEW r \in Callers, ErpServes(r) PROVE Postable
    <3>1. PICK c \in calls : ErpStep(c)
      BY <2>3 DEF ErpServes
    <3>2. req[r].pc = "await_erp" /\ req[r].inv = c.inv
      BY <1>1, OneCall DEF SerialInv
    <3>3. status[c.inv] \in {"MATCHED", "APPROVED"}
      BY <1>1, <3>2 DEF SerialInv, ThreadsSeeStatus
    <3>4. \A i \in Invoices \ {c.inv} : minted'[i] = minted[i]
      BY <3>1, <2>1 DEF ErpStep, ErpRefuse, ErpReplayByKey, ErpReplayByInvoice,
                        ErpMiss, ErpCreate
    <3>5. QED
      BY <3>3, <3>4, <2>1
  <2>4. ASSUME NEW r \in Callers, HandlerStep(r) PROVE minted' = minted
    BY <2>4 DEF HandlerStep, MatchStep, RetrievePolicy, RunMatch, SaveMatch,
                SetMatchStatus, EvaluateMatch, Finalize, MatchFails, PostStep,
                ReplayJournal, NoKnownJournal, PostGuard, SendJournal,
                ReceiveJournal, ReceiveConflict, CallLost, CallTimesOut,
                SetPosted, SaveJournal, RecordDecision, erpVars
  <2>5. ASSUME NEW r \in Callers, NEW i \in Invoices, NewRequest(r, i)
        PROVE  minted' = minted
    BY <2>5 DEF NewRequest, StartMatch, StartPost, StartDecision, erpVars
  <2>6. ASSUME NEW i \in Invoices, Ingest(i) PROVE minted' = minted
    BY <2>6 DEF Ingest, erpVars
  <2>7. CASE UNCHANGED vars
    BY <2>2, <2>7 DEF vars, erpVars
  <2>8. QED
    BY <1>1, <2>2, <2>3, <2>4, <2>5, <2>6, <2>7 DEF Next
<1>2. TypeInv /\ CallsAreAwaited /\ SerialInv /\ [Next]_vars => [Postable]_vars
  BY <1>1
<1>3. QED
  BY SerialInvariant, <1>2, PTL DEF Spec, CreatedOnlyWhenPostable
=============================================================================
