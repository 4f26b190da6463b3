------------------------------ MODULE APInvoice ------------------------------
(***************************************************************************)
(* The accounts-payable workflow: InvoiceWorkflow (src/app/workflow.py) as *)
(* the API serves it, over MemoryRepository and the ERP of ERPPayments.    *)
(*                                                                         *)
(* Every /match-po, /post-payment-journal and /exceptions/decision call    *)
(* runs in a thread of FastAPI's pool; req[r] is such a thread.  All       *)
(* threads share one Invoice object per id, so status is read and written  *)
(* in place, and no lock spans two steps of a handler: a step here is a    *)
(* stretch of the handler between two accesses to shared state.            *)
(***************************************************************************)
EXTENDS ERPPayments

CONSTANTS
    DocKey,          \* DocKey[i]: invoice i's (vendor_id, invoice_number)
    AutoKey,         \* AutoKey[i]: the key "auto:{invoice_id}"
    ClientKeys,      \* ClientKeys[i]: keys the clients send for invoice i
    MaxOrphans       \* bound: posting calls in the ERP whose caller gave up

ASSUME ApConstants ==
    /\ Invoices # {}
    /\ AutoKey \in [Invoices -> Keys]
    /\ ClientKeys \in [Invoices -> SUBSET Keys]
    /\ DOMAIN DocKey = Invoices
    /\ MaxOrphans \in Nat

Status == {"EXTRACTED", "MATCHED", "EXCEPTION", "AWAITING_APPROVAL",
           "APPROVED", "REJECTED", "RESOLVED", "POSTED"}

\* Mutant: a posted invoice may be matched again.
SettledButPosted == {"APPROVED", "REJECTED", "RESOLVED"}

\* Every status in which match() refuses to start.
Settled == {"APPROVED", "REJECTED", "RESOLVED", "POSTED"}

Reviewable == {"EXCEPTION", "AWAITING_APPROVAL"}

AgentActions == {"POST_PAYMENT_JOURNAL", "ESCALATE"}

\* Where a thread stands in match(), post() or approve().
MatchSteps == {"retrieve_policy", "request_match", "save_match", "set_status",
               "evaluate_match", "finalize"}
PostSteps == {"get_journal", "post_guard", "erp_call", "await_erp",
              "set_posted", "save_journal"}

\* receipt: require_goods_receipt; matched: result["matched"] of this run;
\* requested: the agent's own choice; key: the Idempotency-Key of post();
\* approved: the reviewer's choice; journal: what the ERP answered.
Request ==
    [pc : {"idle", "decide"} \cup MatchSteps \cup PostSteps,
     inv : Invoices, receipt : BOOLEAN, matched : BOOLEAN,
     requested : AgentActions, key : Keys, approved : BOOLEAN,
     journal : Journal \cup {NoJournal}]

\* What has happened to an invoice, kept for the properties only.
Events == {"clean_match", "human_approved", "human_rejected"}

VARIABLES
    status,    \* Invoice.status, or "absent" before the invoice is ingested
    latest,    \* latest_match(i).matched, as a set: {} while i has no match
    journals,  \* MemoryRepository.journals
    req,       \* the worker threads
    history    \* history[i]: the Events that have happened to i

apVars == <<status, latest, journals, req, history>>
vars == <<apVars, erpVars>>

TypeOK ==
    /\ ErpTypeOK
    /\ status \in [Invoices -> Status \cup {"absent"}]
    /\ latest \in [Invoices -> SUBSET BOOLEAN]
    /\ journals \subseteq Journal
    /\ req \in [Callers -> Request]
    /\ history \in [Invoices -> SUBSET Events]

Ingested(i) == status[i] # "absent"

\* A thread that waits for a request; its fields are those of no request.
IdleRequest ==
    [pc |-> "idle", inv |-> CHOOSE i \in Invoices : TRUE, receipt |-> FALSE,
     matched |-> FALSE, requested |-> "ESCALATE",
     key |-> AutoKey[CHOOSE i \in Invoices : TRUE], approved |-> FALSE,
     journal |-> NoJournal]

Init ==
    /\ ErpInit
    /\ status = [i \in Invoices |-> "absent"]
    /\ latest = [i \in Invoices |-> {}]
    /\ journals = {}
    /\ req = [r \in Callers |-> IdleRequest]
    /\ history = [i \in Invoices |-> {}]

\* A thread that enters post(invoice_id, idempotency_key).
PostRequest(i, key) ==
    [IdleRequest EXCEPT !.pc = "get_journal", !.inv = i, !.key = key]

At(r, pc) == req[r].pc = pc
Goto(r, pc) == req' = [req EXCEPT ![r].pc = pc]
Finish(r) == req' = [req EXCEPT ![r] = IdleRequest]

---------------------------------------------------------------------------
(* ingest(): the orchestrator hands over a freshly extracted invoice.      *)

Ingest(i) ==
    /\ ~Ingested(i)
    /\ status' = [status EXCEPT ![i] = "EXTRACTED"]
    /\ UNCHANGED <<latest, journals, req, history, erpVars>>

---------------------------------------------------------------------------
(* match(): the four nodes of the graph.                                   *)

\* Mutant: match() does not look at the status.
MayAlwaysStartMatch(i) == Ingested(i)

MayStartMatch(i) == Ingested(i) /\ status[i] \notin Settled

StartMatch(r, i, receipt) ==
    /\ At(r, "idle")
    /\ MayStartMatch(i)
    /\ req' = [req EXCEPT ![r] = [IdleRequest EXCEPT
                 !.pc = "retrieve_policy", !.inv = i, !.receipt = receipt]]
    /\ UNCHANGED <<status, latest, journals, history, erpVars>>

RetrievePolicy(r) ==
    /\ At(r, "retrieve_policy")
    /\ Goto(r, "request_match")
    /\ UNCHANGED <<status, latest, journals, history, erpVars>>

\* Mutant: only an invoice already posted counts as the original.
DuplicateOfPosted(i) ==
    \E j \in Invoices \ {i} : status[j] = "POSTED" /\ DocKey[j] = DocKey[i]

\* find_duplicate: any other invoice of the same vendor and number.
Duplicate(i) ==
    \E j \in Invoices \ {i} : Ingested(j) /\ DocKey[j] = DocKey[i]

\* match_invoice: matched iff no blocking variance.
Variances(i, receipt, duplicate) ==
    (Facts[i] \ (IF receipt THEN {} ELSE {"RECEIPT_SHORTFALL"}))
    \cup (IF duplicate THEN {"DUPLICATE_INVOICE"} ELSE {})

Matches(i, receipt) == Variances(i, receipt, Duplicate(i)) = {}

\* The agent asks for RUN_AP_MATCH, the PO is read, the controls are run.
RunMatch(r) ==
    /\ At(r, "request_match")
    /\ req' = [req EXCEPT ![r].pc = "save_match", ![r].receipt = FALSE,
                          ![r].matched = Matches(req[r].inv, req[r].receipt)]
    /\ UNCHANGED <<status, latest, journals, history, erpVars>>

\* Mutant: only a successful match is saved.
SaveMatchIfClean(r) ==
    LET i == req[r].inv IN
    /\ At(r, "save_match")
    /\ latest' = [latest EXCEPT ![i] = IF req[r].matched THEN {TRUE} ELSE @]
    /\ history' = [history EXCEPT ![i] = @ \cup
                     (IF req[r].matched THEN {"clean_match"} ELSE {})]
    /\ Goto(r, "set_status")
    /\ UNCHANGED <<status, journals, erpVars>>

SaveMatch(r) ==
    LET i == req[r].inv IN
    /\ At(r, "save_match")
    /\ latest' = [latest EXCEPT ![i] = {req[r].matched}]
    /\ history' = [history EXCEPT ![i] = @ \cup
                     (IF req[r].matched THEN {"clean_match"} ELSE {})]
    /\ Goto(r, "set_status")
    /\ UNCHANGED <<status, journals, erpVars>>

SetMatchStatus(r) ==
    /\ At(r, "set_status")
    /\ status' = [status EXCEPT ![req[r].inv] =
                    IF req[r].matched THEN "MATCHED" ELSE "EXCEPTION"]
    /\ Goto(r, "evaluate_match")
    /\ UNCHANGED <<latest, journals, history, erpVars>>

AutoActionPermitted(matched) == matched /\ settings.autoPost /\ ~settings.requireApproval

\* The agent's request after the veto, then _route_after_match.
RoutesToPost(matched, requested) ==
    requested = "POST_PAYMENT_JOURNAL" /\ AutoActionPermitted(matched)

EvaluateMatch(r, requested) ==
    /\ At(r, "evaluate_match")
    /\ req' = [req EXCEPT ![r] =
                 IF RoutesToPost(req[r].matched, requested)
                 THEN PostRequest(req[r].inv, AutoKey[req[r].inv])
                 ELSE [@ EXCEPT !.pc = "finalize", !.requested = requested]]
    /\ UNCHANGED <<status, latest, journals, history, erpVars>>

ApprovalRequired(matched, requested) ==
    matched /\ (settings.requireApproval \/ (settings.autoPost /\ requested = "ESCALATE"))

Finalize(r) ==
    /\ At(r, "finalize")
    /\ status' = [status EXCEPT ![req[r].inv] =
                    IF ApprovalRequired(req[r].matched, req[r].requested)
                    THEN "AWAITING_APPROVAL" ELSE @]
    /\ Finish(r)
    /\ UNCHANGED <<latest, journals, history, erpVars>>

\* An agent call, the policy evidence or the PO lookup fails: the exception
\* leaves match() with everything written so far in place.
MatchFails(r) ==
    /\ req[r].pc \in {"retrieve_policy", "request_match", "evaluate_match"}
    /\ Finish(r)
    /\ UNCHANGED <<status, latest, journals, history, erpVars>>

---------------------------------------------------------------------------
(* post(): called by the endpoint, or by match() with the auto key.        *)

StartPost(r, i, key) ==
    /\ At(r, "idle")
    /\ Ingested(i)
    /\ key \in ClientKeys[i]
    /\ req' = [req EXCEPT ![r] = PostRequest(i, key)]
    /\ UNCHANGED <<status, latest, journals, history, erpVars>>

\* repo.get_journal(invoice_id, idempotency_key) finds a journal.
KnownJournal(i, key) ==
    \E j \in journals : j.key = key \/ j.invoice = i

ReplayJournal(r) ==
    /\ At(r, "get_journal")
    /\ KnownJournal(req[r].inv, req[r].key)
    /\ Finish(r)
    /\ UNCHANGED <<status, latest, journals, history, erpVars>>

NoKnownJournal(r) ==
    /\ At(r, "get_journal")
    /\ ~KnownJournal(req[r].inv, req[r].key)
    /\ Goto(r, "post_guard")
    /\ UNCHANGED <<status, latest, journals, history, erpVars>>

\* Mutants: post() without its first and its second guard.
MayPostUnmatched(i) ==
    /\ status[i] \notin {"POSTED", "REJECTED"}
    /\ settings.requireApproval => status[i] = "APPROVED"

MayPostAnyStatus(i) ==
    /\ latest[i] # {}
    /\ TRUE \in latest[i] \/ status[i] = "APPROVED"
    /\ settings.requireApproval => status[i] = "APPROVED"

MayPost(i) ==
    /\ latest[i] # {}
    /\ TRUE \in latest[i] \/ status[i] = "APPROVED"
    /\ status[i] \in {"MATCHED", "APPROVED"}
    /\ settings.requireApproval => status[i] = "APPROVED"

\* Mutant: the status is advanced before the ERP has answered.
PostGuardMarksPosted(r) ==
    LET i == req[r].inv IN
    /\ At(r, "post_guard")
    /\ IF MayPost(i) THEN Goto(r, "erp_call") ELSE Finish(r)
    /\ status' = IF MayPost(i) THEN [status EXCEPT ![i] = "POSTED"] ELSE status
    /\ UNCHANGED <<latest, journals, history, erpVars>>

\* Mutant: a refused post waits for the invoice to become payable.
PostGuardWaits(r) ==
    /\ At(r, "post_guard")
    /\ MayPost(req[r].inv)
    /\ Goto(r, "erp_call")
    /\ UNCHANGED <<status, latest, journals, history, erpVars>>

\* latest_match is read just before the status (workflow.py:405, 408); the two reads
\* are one step here.
PostGuard(r) ==
    /\ At(r, "post_guard")
    /\ IF MayPost(req[r].inv) THEN Goto(r, "erp_call") ELSE Finish(r)
    /\ UNCHANGED <<status, latest, journals, history, erpVars>>

\* approved_exception is the status when the HTTP body is built.
SendJournal(r) ==
    LET i == req[r].inv IN
    /\ At(r, "erp_call")
    /\ calls' = calls \cup
         {[caller |-> r, inv |-> i, key |-> req[r].key,
           approved |-> (status[i] = "APPROVED"), phase |-> "sent",
           journal |-> NoJournal, live |-> TRUE]}
    /\ Goto(r, "await_erp")
    /\ UNCHANGED <<status, latest, journals, history,
                   postedByKey, postedByInvoice, minted, settings>>

CallOf(r) == {c \in calls : c.caller = r /\ c.live}

ReceiveJournal(r, c) ==
    /\ At(r, "await_erp")
    /\ c \in CallOf(r)
    /\ c.phase = "answered"
    /\ calls' = calls \ {c}
    /\ req' = [req EXCEPT ![r].pc = "set_posted", ![r].journal = c.journal]
    /\ UNCHANGED <<status, latest, journals, history,
                   postedByKey, postedByInvoice, minted, settings>>

ReceiveConflict(r, c) ==
    /\ At(r, "await_erp")
    /\ c \in CallOf(r)
    /\ c.phase = "conflict"
    /\ calls' = calls \ {c}
    /\ Finish(r)
    /\ UNCHANGED <<status, latest, journals, history,
                   postedByKey, postedByInvoice, minted, settings>>

\* ERPUnavailableError: the request never reached the ERP, the ERP failed
\* after the work, or the answer was lost.
CallLost(r, c) ==
    /\ settings.http
    /\ At(r, "await_erp")
    /\ c \in CallOf(r)
    /\ c.phase # "create"
    /\ calls' = calls \ {c}
    /\ Finish(r)
    /\ UNCHANGED <<status, latest, journals, history,
                   postedByKey, postedByInvoice, minted, settings>>

\* ERPUnavailableError: the timeout expires while the ERP still works on it.
CallTimesOut(r, c) ==
    /\ settings.http
    /\ At(r, "await_erp")
    /\ c \in CallOf(r)
    /\ c.phase \in {"sent", "create"}
    /\ Cardinality({d \in calls : ~d.live}) < MaxOrphans
    /\ calls' = (calls \ {c}) \cup {[c EXCEPT !.live = FALSE]}
    /\ Finish(r)
    /\ UNCHANGED <<status, latest, journals, history,
                   postedByKey, postedByInvoice, minted, settings>>

\* Mutant: post() returns without keeping the journal.
SetPostedOnly(r) ==
    /\ At(r, "set_posted")
    /\ status' = [status EXCEPT ![req[r].inv] = "POSTED"]
    /\ Finish(r)
    /\ UNCHANGED <<latest, journals, history, erpVars>>

SetPosted(r) ==
    /\ At(r, "set_posted")
    /\ status' = [status EXCEPT ![req[r].inv] = "POSTED"]
    /\ Goto(r, "save_journal")
    /\ UNCHANGED <<latest, journals, history, erpVars>>

SaveJournal(r) ==
    /\ At(r, "save_journal")
    /\ journals' = journals \cup {req[r].journal}
    /\ Finish(r)
    /\ UNCHANGED <<status, latest, history, erpVars>>

---------------------------------------------------------------------------
(* approve(): a reviewer's decision.                                       *)

StartDecision(r, i, approved) ==
    /\ At(r, "idle")
    /\ status[i] \in Reviewable
    /\ req' = [req EXCEPT ![r] = [IdleRequest EXCEPT
                 !.pc = "decide", !.inv = i, !.approved = approved]]
    /\ UNCHANGED <<status, latest, journals, history, erpVars>>

RecordDecision(r) ==
    LET i == req[r].inv IN
    /\ At(r, "decide")
    /\ status' = [status EXCEPT ![i] =
                    IF req[r].approved THEN "APPROVED" ELSE "REJECTED"]
    /\ history' = [history EXCEPT ![i] = @ \cup
                     {IF req[r].approved THEN "human_approved"
                                         ELSE "human_rejected"}]
    /\ Finish(r)
    /\ UNCHANGED <<latest, journals, erpVars>>

---------------------------------------------------------------------------

\* A handler advances on its own; nothing here needs a new client request.
MatchStep(r) ==
    \/ RetrievePolicy(r)
    \/ RunMatch(r)
    \/ SaveMatch(r)
    \/ SetMatchStatus(r)
    \/ \E requested \in AgentActions : EvaluateMatch(r, requested)
    \/ Finalize(r)
    \/ MatchFails(r)

PostStep(r) ==
    \/ ReplayJournal(r)
    \/ NoKnownJournal(r)
    \/ PostGuard(r)
    \/ SendJournal(r)
    \/ \E c \in calls :
         \/ ReceiveJournal(r, c)
         \/ ReceiveConflict(r, c)
         \/ CallLost(r, c)
         \/ CallTimesOut(r, c)
    \/ SetPosted(r)
    \/ SaveJournal(r)

HandlerStep(r) == MatchStep(r) \/ PostStep(r) \/ RecordDecision(r)

NewRequest(r, i) ==
    \/ \E receipt \in BOOLEAN : StartMatch(r, i, receipt)
    \/ \E key \in ClientKeys[i] : StartPost(r, i, key)
    \/ \E approved \in BOOLEAN : StartDecision(r, i, approved)

ErpServes(r) ==
    \E c \in calls : c.caller = r /\ ErpStep(c) /\ UNCHANGED apVars

Next ==
    \/ \E i \in Invoices : Ingest(i)
    \/ \E r \in Callers : HandlerStep(r) \/ ErpServes(r)
    \/ \E r \in Callers, i \in Invoices : NewRequest(r, i)

Spec == Init /\ [][Next]_vars

\* A handler and an ERP thread that can take a step take one: model, ERP and
\* lock waits are bounded by their timeouts, and the pool schedules every
\* thread.  Clients and reviewers owe nothing.
Fairness ==
    \A r \in Callers :
        /\ WF_vars(HandlerStep(r))
        /\ WF_vars(ErpServes(r))

FairSpec == Spec /\ Fairness

---------------------------------------------------------------------------
(* Properties.                                                             *)

Paid(i) == minted[i] > 0

HumanApproved(i) == "human_approved" \in history[i]

Authorised(i) ==
    \/ HumanApproved(i)
    \/ ~settings.requireApproval /\ "clean_match" \in history[i]

\* A journal exists in the ERP only for an invoice that a reviewer approved or,
\* unless every invoice needs a reviewer, that passed the controls: whatever
\* the threads interleave and however stale what post() checked has become
\* when the ERP acts (workflow.py:406-415).
PaidOnlyIfAuthorised ==
    \A i \in Invoices : Paid(i) => Authorised(i)

\* Of two invoices with the same vendor and number at most one is paid without
\* a reviewer: ingest() saves an invoice before any match() of it looks for
\* duplicates, so two concurrent matches cannot both miss each other.
DuplicateNeedsReviewer ==
    \A i, j \in Invoices :
        i # j /\ DocKey[i] = DocKey[j] /\ Paid(i) /\ Paid(j)
            => HumanApproved(i) \/ HumanApproved(j)

\* The workflow implements the abstract payment: every step gathers evidence,
\* pays an invoice that at that moment is authorised and is no unreviewed copy
\* of a paid one, or does neither.
Control == INSTANCE PaymentControl WITH
    gated <- settings.requireApproval,
    evidence <- history,
    paid <- {i \in Invoices : Paid(i)}

PaymentIsControlled == Control!Spec

\* An invoice is POSTED only if the ERP holds a journal of its own: true while
\* clients do not reuse an idempotency key for another invoice
\* (workflow.py:430 trusts whatever journal the ERP returned).
PostedIsPaid ==
    \A i \in Invoices : status[i] = "POSTED" => Paid(i)

\* Once an invoice is POSTED a repeated post finds its journal locally, or the
\* thread that posted it is about to save it (workflow.py:402, 430-432).
PostedIsReplayable ==
    \A i \in Invoices : status[i] = "POSTED" =>
        \/ \E j \in journals : j.invoice = i
        \/ \E r \in Callers : At(r, "save_journal") /\ req[r].inv = i

\* A reviewer approves only what has been matched, so the post that follows is
\* not refused for want of a match (workflow.py:314-316, 378, 406-412).
ApprovedIsPostable ==
    \A i \in Invoices : status[i] = "APPROVED" => MayPost(i)

\* The ERP never creates a second journal for an invoice (erp.py:59-69).
AtMostOneJournal == \A i \in Invoices : minted[i] <= 1

\* A rejected invoice has not been and is not paid.  Over HTTP a lost answer
\* leaves a paid invoice MATCHED, and a later match can send it to review.
RejectedIsUnpaid ==
    \A i \in Invoices : status[i] = "REJECTED" /\ ~settings.http => ~Paid(i)

\* A decision or a payment is final: no step moves a posted or rejected invoice,
\* and an approved one can only be posted (workflow.py:339-345, 378, 408).
SettledIsFinal ==
    [][\A i \in Invoices :
         /\ status[i] \in {"POSTED", "REJECTED"} => status'[i] = status[i]
         /\ status[i] = "APPROVED" => status'[i] \in {"APPROVED", "POSTED"}]_vars

\* docs/architecture.md:45: "Posted, rejected, resolved, or already-approved AP
\* invoices cannot be re-matched into an earlier state."
RematchNeverRegresses ==
    [][\A i \in Invoices : status[i] \in Settled => status'[i] \in Settled]_vars

\* docs/security-and-controls.md:13: no journal is created for an invoice at a
\* moment at which it is rejected, in review, or not yet matched.
CreatedOnlyWhenPostable ==
    [][\A i \in Invoices :
         minted'[i] > minted[i] => status[i] \in {"MATCHED", "APPROVED"}]_vars

\* With the in-process ERP a journal, once created, ends up in the repository,
\* whatever other threads do to the invoice meanwhile (workflow.py:415-432).
PaidIsRecorded ==
    \A i \in Invoices :
        (Paid(i) /\ ~settings.http) ~> (\E j \in journals : j.invoice = i)

\* No handler waits forever: every posting call is answered, refused or lost.
RequestsFinish == \A r \in Callers : ~At(r, "idle") ~> At(r, "idle")

=============================================================================
