----------------------------- MODULE ARRemittance -----------------------------
(***************************************************************************)
(* The accounts-receivable workflow: RemittanceWorkflow                    *)
(* (src/app/ar_workflow.py) as the API serves it, over MemoryRepository    *)
(* and the ERP of ERPCash.                                                 *)
(*                                                                         *)
(* /ingest-remittance and /remittance-exceptions/decision run in threads   *)
(* of FastAPI's pool, /ingest-document in its event loop; req[r] is such a *)
(* thread.  They share one Remittance object per id.  A step is a stretch  *)
(* of a handler between two accesses to what others read.                  *)
(***************************************************************************)
EXTENDS ERPCash

CONSTANT MaxOrphans  \* bound: calls in the ERP whose caller gave up

ASSUME ArConstants ==
    /\ Remittances # {}
    /\ Contents # {}
    /\ MaxOrphans \in Nat

Status == {"EXTRACTED", "MATCHED", "EXCEPTION", "AWAITING_APPROVAL",
           "REJECTED", "RESOLVED", "POSTED"}

Settled == {"REJECTED", "RESOLVED", "POSTED"}

Reviewable == {"EXCEPTION", "AWAITING_APPROVAL"}

AgentActions == {"APPLY_CASH", "ESCALATE"}

Decisions == {"REJECT", "MARK_MANUALLY_RESOLVED", "RETRY_WITH_CORRECTION",
              "APPROVE_APPLY"}

\* Where a thread stands in ingest(), run() or decide().
ArSteps == {"decide", "retrieve_policy", "request_match", "save_match",
            "evaluate_match", "finalize", "erp_call", "await_erp", "set_posted"}

\* matched: result["matched"] of this run; requested: the agent's choice;
\* decision and correction: the reviewer's; answer: the ERP's.
Request ==
    [pc : {"idle"} \cup ArSteps, rem : Remittances, matched : BOOLEAN,
     requested : AgentActions, decision : Decisions, correction : Contents,
     answer : Application \cup {NoApplication}]

\* What speaks for applying cash: a passed match, a reviewer's approval.
Evidence == {"match", "approval"}

VARIABLES
    status,    \* Remittance.status, or "absent" before it is ingested
    content,   \* content[m]: the fields of remittance m
    result,    \* remittance_results[m]["matched"], as a set: {} when it is {}
    req,       \* the worker threads
    current,   \* current[m]: the Evidence for the fields m has now
    history    \* history[m]: the Evidence there ever was for m

arVars == <<status, content, result, req, current, history>>
vars == <<arVars, erpVars>>

TypeOK ==
    /\ ErpTypeOK
    /\ status \in [Remittances -> Status \cup {"absent"}]
    /\ content \in [Remittances -> Contents]
    /\ result \in [Remittances -> SUBSET BOOLEAN]
    /\ req \in [Callers -> Request]
    /\ current \in [Remittances -> SUBSET Evidence]
    /\ history \in [Remittances -> SUBSET Evidence]

Ingested(m) == status[m] # "absent"

IdleRequest ==
    [pc |-> "idle", rem |-> CHOOSE m \in Remittances : TRUE, matched |-> FALSE,
     requested |-> "ESCALATE", decision |-> "REJECT",
     correction |-> CHOOSE k \in Contents : TRUE, answer |-> NoApplication]

\* The fields of a remittance that does not exist yet are arbitrary.
Init ==
    /\ ErpInit
    /\ status = [m \in Remittances |-> "absent"]
    /\ content = [m \in Remittances |-> CHOOSE k \in Contents : TRUE]
    /\ result = [m \in Remittances |-> {}]
    /\ req = [r \in Callers |-> IdleRequest]
    /\ current = [m \in Remittances |-> {}]
    /\ history = [m \in Remittances |-> {}]

Active(r, pc, m) == [IdleRequest EXCEPT !.pc = pc, !.rem = m]

At(r, pc) == req[r].pc = pc
Become(r, request) == req' = [req EXCEPT ![r] = request]
Goto(r, pc) == req' = [req EXCEPT ![r].pc = pc]
Finish(r) == Become(r, IdleRequest)

Record(m, evidence) ==
    /\ current' = [current EXCEPT ![m] = @ \cup evidence]
    /\ history' = [history EXCEPT ![m] = @ \cup evidence]

---------------------------------------------------------------------------
(* ingest(run = True), then run(): the four nodes of the graph.            *)

\* Mutant: the remittance is saved with the status it was built with.
IngestAsReceived(r, m, k) ==
    /\ At(r, "idle")
    /\ ~Ingested(m)
    /\ content' = [content EXCEPT ![m] = k]
    /\ status' = [status EXCEPT ![m] = "RECEIVED"]
    /\ Become(r, Active(r, "retrieve_policy", m))
    /\ UNCHANGED <<result, current, history, erpVars>>

Ingest(r, m, k) ==
    /\ At(r, "idle")
    /\ ~Ingested(m)
    /\ content' = [content EXCEPT ![m] = k]
    /\ status' = [status EXCEPT ![m] = "EXTRACTED"]
    /\ Become(r, Active(r, "retrieve_policy", m))
    /\ UNCHANGED <<result, current, history, erpVars>>

RetrievePolicy(r) ==
    /\ At(r, "retrieve_policy")
    /\ Goto(r, "request_match")
    /\ UNCHANGED <<status, content, result, current, history, erpVars>>

SameDocument(k, l) == k.customer = l.customer /\ k.reference = l.reference

\* Mutant: the search stops at the remittances already posted.
DuplicateOfPosted(m) ==
    \E n \in Remittances \ {m} :
        status[n] = "POSTED" /\ SameDocument(content[n], content[m])

\* find_duplicate_remittance: a rejected remittance does not count.
Duplicate(m) ==
    \E n \in Remittances \ {m} :
        /\ status[n] \notin {"absent", "REJECTED"}
        /\ SameDocument(content[n], content[m])

\* match_remittance over the ERP's open items.
Matches(m) == ~Duplicate(m) /\ Applicable(content[m], openItems)

RunMatch(r) ==
    LET m == req[r].rem IN
    /\ At(r, "request_match")
    /\ req' = [req EXCEPT ![r].pc = "save_match", ![r].matched = Matches(m)]
    /\ Record(m, IF Matches(m) THEN {"match"} ELSE {})
    /\ UNCHANGED <<status, content, result, erpVars>>

SaveMatch(r) ==
    LET m == req[r].rem IN
    /\ At(r, "save_match")
    /\ status' = [status EXCEPT ![m] =
                    IF req[r].matched THEN "MATCHED" ELSE "EXCEPTION"]
    /\ result' = [result EXCEPT ![m] = {req[r].matched}]
    /\ Goto(r, "evaluate_match")
    /\ UNCHANGED <<content, current, history, erpVars>>

AutoActionPermitted(matched) ==
    matched /\ settings.autoPost /\ ~settings.requireApproval

\* Mutant: the configured approval does not hold the agent back.
RoutesToApplyUngated(matched, requested) ==
    requested = "APPLY_CASH" /\ matched /\ settings.autoPost

RoutesToApply(matched, requested) ==
    requested = "APPLY_CASH" /\ AutoActionPermitted(matched)

EvaluateMatch(r, requested) ==
    /\ At(r, "evaluate_match")
    /\ IF RoutesToApply(req[r].matched, requested)
       THEN Become(r, Active(r, "erp_call", req[r].rem))
       ELSE Become(r, [req[r] EXCEPT !.pc = "finalize", !.requested = requested])
    /\ UNCHANGED <<status, content, result, current, history, erpVars>>

ApprovalRequired(matched, requested) ==
    matched /\ (settings.requireApproval \/ (settings.autoPost /\ requested = "ESCALATE"))

\* The result saved is the one of this run, {TRUE} when approval is required.
Finalize(r) ==
    LET m == req[r].rem
        gated == ApprovalRequired(req[r].matched, req[r].requested) IN
    /\ At(r, "finalize")
    /\ status' = [status EXCEPT ![m] = IF gated THEN "AWAITING_APPROVAL" ELSE @]
    /\ result' = [result EXCEPT ![m] = IF gated THEN {TRUE} ELSE @]
    /\ Finish(r)
    /\ UNCHANGED <<content, current, history, erpVars>>

\* An agent call, the policy evidence or the open-item lookup fails: the
\* exception leaves the handler with everything written so far in place.
RunFails(r) ==
    /\ req[r].pc \in {"retrieve_policy", "request_match", "evaluate_match"}
    /\ Finish(r)
    /\ UNCHANGED <<status, content, result, current, history, erpVars>>

---------------------------------------------------------------------------
(* _graph_apply(): entered by run() and by APPROVE_APPLY.                  *)

\* The fields go out as they are when the call is made.
SendCash(r) ==
    LET m == req[r].rem IN
    /\ At(r, "erp_call")
    /\ cashCalls' = cashCalls \cup
         {[caller |-> r, rem |-> m, content |-> content[m], phase |-> "sent",
           application |-> NoApplication, live |-> TRUE]}
    /\ Goto(r, "await_erp")
    /\ UNCHANGED <<status, content, result, current, history,
                   settings, openItems, cashByRemittance, timesClosed>>

CallOf(r) == {c \in cashCalls : c.caller = r /\ c.live}

ReceiveCash(r, c) ==
    /\ At(r, "await_erp")
    /\ c \in CallOf(r)
    /\ c.phase = "answered"
    /\ cashCalls' = cashCalls \ {c}
    /\ req' = [req EXCEPT ![r].pc = "set_posted", ![r].answer = c.application]
    /\ UNCHANGED <<status, content, result, current, history,
                   settings, openItems, cashByRemittance, timesClosed>>

\* ERPUnavailableError: the call or its answer is lost.
CashLost(r, c) ==
    /\ settings.http
    /\ At(r, "await_erp")
    /\ c \in CallOf(r)
    /\ c.phase \in {"sent", "answered"}
    /\ cashCalls' = cashCalls \ {c}
    /\ Finish(r)
    /\ UNCHANGED <<status, content, result, current, history,
                   settings, openItems, cashByRemittance, timesClosed>>

\* ERPUnavailableError: the timeout expires while the ERP still works on it.
CashTimesOut(r, c) ==
    /\ settings.http
    /\ At(r, "await_erp")
    /\ c \in CallOf(r)
    /\ c.phase # "answered"
    /\ Cardinality({d \in cashCalls : ~d.live}) < MaxOrphans
    /\ cashCalls' = (cashCalls \ {c}) \cup {[c EXCEPT !.live = FALSE]}
    /\ Finish(r)
    /\ UNCHANGED <<status, content, result, current, history,
                   settings, openItems, cashByRemittance, timesClosed>>

\* Mutants: a refusal is taken for success; the answer is not recorded.
SetPostedAlways(r) ==
    LET m == req[r].rem IN
    /\ At(r, "set_posted")
    /\ status' = [status EXCEPT ![m] = "POSTED"]
    /\ result' = [result EXCEPT ![m] = {TRUE}]
    /\ Finish(r)
    /\ UNCHANGED <<content, current, history, erpVars>>

SetPostedNever(r) ==
    /\ At(r, "set_posted")
    /\ Finish(r)
    /\ UNCHANGED <<status, content, result, current, history, erpVars>>

SetPosted(r) ==
    LET m == req[r].rem IN
    /\ At(r, "set_posted")
    /\ status' = [status EXCEPT ![m] =
                    IF req[r].answer # NoApplication THEN "POSTED" ELSE "EXCEPTION"]
    /\ result' = [result EXCEPT ![m] = {TRUE}]
    /\ Finish(r)
    /\ UNCHANGED <<content, current, history, erpVars>>

---------------------------------------------------------------------------
(* decide(): a reviewer's decision, checked and then carried out.          *)

\* Mutant: any remittance may be decided upon.
MayAlwaysDecide(m) == Ingested(m)

MayDecide(m) == status[m] \in Reviewable

StartDecision(r, m, decision, correction) ==
    /\ At(r, "idle")
    /\ MayDecide(m)
    /\ Become(r, [IdleRequest EXCEPT !.pc = "decide", !.rem = m,
                    !.decision = decision, !.correction = correction])
    /\ UNCHANGED <<status, content, result, current, history, erpVars>>

Close(r) ==
    LET m == req[r].rem IN
    /\ At(r, "decide")
    /\ req[r].decision \in {"REJECT", "MARK_MANUALLY_RESOLVED"}
    /\ status' = [status EXCEPT ![m] =
                    IF req[r].decision = "REJECT" THEN "REJECTED" ELSE "RESOLVED"]
    /\ Finish(r)
    /\ UNCHANGED <<content, result, current, history, erpVars>>

Correct(r) ==
    LET m == req[r].rem IN
    /\ At(r, "decide")
    /\ req[r].decision = "RETRY_WITH_CORRECTION"
    /\ content' = [content EXCEPT ![m] = req[r].correction]
    /\ status' = [status EXCEPT ![m] = "EXTRACTED"]
    /\ result' = [result EXCEPT ![m] = {}]
    /\ Become(r, Active(r, "retrieve_policy", m))
    /\ current' = [current EXCEPT ![m] = {}]
    /\ UNCHANGED <<history, erpVars>>

MayApprove(m) == status[m] = "AWAITING_APPROVAL" /\ TRUE \in result[m]

ApproveApply(r) ==
    LET m == req[r].rem IN
    /\ At(r, "decide")
    /\ req[r].decision = "APPROVE_APPLY"
    /\ IF MayApprove(m) THEN Become(r, Active(r, "erp_call", m)) ELSE Finish(r)
    /\ Record(m, IF MayApprove(m) THEN {"approval"} ELSE {})
    /\ UNCHANGED <<status, content, result, erpVars>>

---------------------------------------------------------------------------

HandlerStep(r) ==
    \/ RetrievePolicy(r)
    \/ RunMatch(r)
    \/ SaveMatch(r)
    \/ \E requested \in AgentActions : EvaluateMatch(r, requested)
    \/ Finalize(r)
    \/ RunFails(r)
    \/ SendCash(r)
    \/ \E c \in cashCalls : ReceiveCash(r, c) \/ CashLost(r, c) \/ CashTimesOut(r, c)
    \/ SetPosted(r)
    \/ Close(r)
    \/ Correct(r)
    \/ ApproveApply(r)

\* Only a retry carries corrections.
Corrections(decision) ==
    IF decision = "RETRY_WITH_CORRECTION" THEN Contents ELSE {IdleRequest.correction}

NewRequest(r, m) ==
    \/ \E k \in Contents : Ingest(r, m, k)
    \/ \E decision \in Decisions : \E correction \in Corrections(decision) :
         StartDecision(r, m, decision, correction)

ErpServes(r) ==
    \E c \in cashCalls : c.caller = r /\ CashStep(c) /\ UNCHANGED arVars

Next ==
    \/ \E r \in Callers : HandlerStep(r) \/ ErpServes(r)
    \/ \E r \in Callers, m \in Remittances : NewRequest(r, m)

Spec == Init /\ [][Next]_vars

\* A handler and an ERP thread that can take a step take one; reviewers and
\* senders of documents owe nothing.
Fairness ==
    \A r \in Callers :
        /\ WF_vars(HandlerStep(r))
        /\ WF_vars(ErpServes(r))

FairSpec == Spec /\ Fairness

---------------------------------------------------------------------------
(* Properties.                                                             *)

Applied(m) == cashByRemittance[m] # NoApplication

Sufficient(evidence) ==
    /\ "match" \in evidence
    /\ settings.requireApproval => "approval" \in evidence

\* What m was applied under, from the moment its items are closed.
AppliedUnder(m) ==
    {c.content : c \in {d \in cashCalls : d.rem = m /\ d.phase = "file"}}
    \cup {a.content : a \in {cashByRemittance[m]} \ {NoApplication}}

\* The workflow implements the abstract application: what apply_cash does in
\* three steps is one, of an authorised remittance that pays exactly items that
\* were open until then, and no remittance is applied again, whatever answers
\* are lost.  docs/architecture.md:38: "Corrections always return through the
\* full match and current-state ERP checks."  What authorises is about the fields
\* as they were last corrected, and they are what is applied (erp.py:89-117,
\* ar_workflow.py:264-293, 373-390).
Control == INSTANCE CashControl WITH
    Named <- [k \in Contents |-> Range(k.refs)],
    Exact <- {k \in Contents : Applicable(k, Items)},
    gated <- settings.requireApproval,
    fields <- content,
    evidence <- current,
    open <- openItems,
    applied <- [m \in Remittances |-> AppliedUnder(m)]

CashIsControlled == Control!Spec

\* Cash is applied only to a remittance that has passed a match and, where
\* needed, has been approved: whatever two threads do to it (ar_workflow.py:
\* 258-262, 388).
AppliedNeedsEvidence ==
    \A m \in Remittances : Applied(m) => Sufficient(history[m])

\* A remittance is POSTED only if the ERP has an application of it
\* (ar_workflow.py:292).
PostedIsApplied ==
    \A m \in Remittances : status[m] = "POSTED" => Applied(m)

\* With the in-process ERP a POSTED remittance says what was applied.  Over
\* HTTP a correction made after a lost answer gets the old application back.
PostedAsApplied ==
    \A m \in Remittances :
        status[m] = "POSTED" /\ ~settings.http
            => cashByRemittance[m].content = content[m]

\* No item is closed by two applications (erp.py:97, 110-111).
ItemClosedOnce == \A x \in Items : timesClosed[x] <= 1

SameAccount(fields, x) ==
    fields.customer = ItemFacts[x].customer /\ fields.currency = ItemFacts[x].currency

\* The applications to the account of item x, and the closed items on it.
PaidLike(x) ==
    {a \in Remittances \X Contents : a[2] \in AppliedUnder(a[1]) /\ SameAccount(a[2], x)}
ClosedLike(x) == {y \in Items \ openItems : SameAccount(ItemFacts[y], x)}

\* The books balance: what a customer has paid in a currency is what the closed
\* items of the customer in this currency were worth, whatever is retried,
\* corrected or lost on the way, unless a remittance repeated a reference
\* (erp.py:89-117).
CashBalances ==
    (\A m \in Remittances : \A k \in AppliedUnder(m) : IsInjective(k.refs)) =>
        \A x \in Items :
            SumFunction([a \in PaidLike(x) |-> a[2].amount])
              = SumFunction([y \in ClosedLike(x) |-> ItemFacts[y].amount])

\* With the in-process ERP no two remittances of one customer and reference
\* are both applied, whatever is corrected or rejected in between.
DuplicateAppliedOnce ==
    \A m, n \in Remittances :
        m # n /\ Applied(m) /\ Applied(n) /\ ~settings.http =>
            ~SameDocument(cashByRemittance[m].content, cashByRemittance[n].content)

\* A posted, rejected or resolved remittance stays so (ar_workflow.py:363).
SettledIsFinal ==
    [][\A m \in Remittances : status[m] \in Settled => status'[m] = status[m]]_vars

\* With the in-process ERP an application, once made, is seen by the workflow
\* (ar_workflow.py:269-293).
AppliedIsPosted ==
    \A m \in Remittances : Applied(m) /\ ~settings.http ~> status[m] = "POSTED"
=============================================================================
