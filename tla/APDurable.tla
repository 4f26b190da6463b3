------------------------------ MODULE APDurable ------------------------------
(***************************************************************************)
(* The accounts-payable workflow over PostgresRepository: invoice objects  *)
(* cached in memory in front of the tables, a process that crashes, and    *)
(* database writes that fail.  The handlers are those of APInvoice; here a *)
(* save is the write to the cache, the serialisation of the object and the *)
(* commit of the row, and a look-up may have to load the row first.        *)
(*                                                                         *)
(* The ERP is the service of ERPPayments: it survives the crash.  The      *)
(* invoices here are of distinct documents.                                *)
(***************************************************************************)
EXTENDS ERPPayments

CONSTANTS
    AutoKey,         \* AutoKey[i]: the key "auto:{invoice_id}"
    ClientKeys,      \* ClientKeys[i]: keys the clients send for invoice i
    MaxTroubles      \* bound: restarts, failed writes, time-outs of the ERP
                     \* and requests that overlap another one, together

ASSUME DurableConstants ==
    /\ Invoices # {}
    /\ AutoKey \in [Invoices -> Keys]
    /\ ClientKeys \in [Invoices -> SUBSET Keys]
    /\ MaxTroubles \in Nat
    /\ Callers \cap {"upload", "none"} = {}
    /\ \A s \in Configurations : s.http

Status == {"EXTRACTED", "MATCHED", "EXCEPTION", "AWAITING_APPROVAL",
           "APPROVED", "REJECTED", "POSTED"}
Settled == {"APPROVED", "REJECTED", "POSTED"}
Reviewable == {"EXCEPTION", "AWAITING_APPROVAL"}
AgentActions == {"POST_PAYMENT_JOURNAL", "ESCALATE"}

\* Every Invoice object of i is named after what made it: the upload, or the
\* thread that loaded the row.  A thread loads an invoice at most once between
\* two troubles, because the cache keeps what it loaded.
Makers == Callers \cup {"upload"}

\* Where a thread stands: loading the invoice, saving it, or in a handler.
LoadSteps == {"select_invoice", "cache_invoice"}
SaveSteps == {"serialise", "commit"}
MatchSteps == {"match_guard", "run_match", "save_match", "store_match",
               "set_status", "evaluate_match", "finalize"}
DecideSteps == {"decide_guard", "decide", "decided"}
PostSteps == {"get_journal", "latest_match", "cache_match", "post_guard",
              "erp_call", "await_erp", "set_posted", "save_journal",
              "store_journal"}
Steps == {"idle", "done"} \cup LoadSteps \cup SaveSteps \cup MatchSteps
         \cup DecideSteps \cup PostSteps

\* object: the Invoice object the handler holds; row: the status it serialised;
\* next: where it goes on after a load or a save.  The rest as in APInvoice.
Request ==
    [pc : Steps, next : Steps, inv : Invoices, object : Makers, row : Status,
     receipt : BOOLEAN, matched : BOOLEAN, requested : AgentActions,
     key : Keys, approved : BOOLEAN, journal : Journal \cup {NoJournal}]

Events == {"clean_match", "human_approved", "human_rejected"}

\* What may have come between an invoice and its rows.
Disturbances == {"overlap", "failed_write", "crash"}

VARIABLES
    object,      \* object[i][m]: status in the Invoice object m made of i
    cache,       \* cache[i]: the object in MemoryRepository.invoices, or "none"
    matches,     \* the latest match in memory, as a set; {} if there is none
    journals,    \* MemoryRepository.journals
    invoiceRow,  \* invoices.status, or "absent"
    matchRow,    \* the latest row of match_results for i; {} if there is none
    journalRows, \* payment_journals
    req,         \* the worker threads
    troubles,    \* how many of the troubles MaxTroubles bounds there have been
    history,     \* history[i]: the Events that have happened to i
    answered,    \* the invoices with a decision whose caller was told so
    disturbed    \* disturbed[i]: the Disturbances i has met

memory == <<object, cache, matches, journals>>
tables == <<invoiceRow, matchRow, journalRows>>
watch == <<history, answered, disturbed>>
vars == <<memory, tables, req, troubles, watch, erpVars>>

TypeOK ==
    /\ ErpTypeOK
    /\ object \in [Invoices -> [Makers -> Status \cup {"absent"}]]
    /\ cache \in [Invoices -> Makers \cup {"none"}]
    /\ matches \in [Invoices -> SUBSET BOOLEAN]
    /\ journals \subseteq Journal
    /\ invoiceRow \in [Invoices -> Status \cup {"absent"}]
    /\ matchRow \in [Invoices -> SUBSET BOOLEAN]
    /\ journalRows \subseteq Journal
    /\ req \in [Callers -> Request]
    /\ troubles \in 0 .. MaxTroubles
    /\ history \in [Invoices -> SUBSET Events]
    /\ answered \subseteq Invoices
    /\ disturbed \in [Invoices -> SUBSET Disturbances]

IdleRequest ==
    [pc |-> "idle", next |-> "idle", inv |-> CHOOSE i \in Invoices : TRUE,
     object |-> "upload", row |-> "EXTRACTED", receipt |-> FALSE,
     matched |-> FALSE, requested |-> "ESCALATE",
     key |-> AutoKey[CHOOSE i \in Invoices : TRUE], approved |-> FALSE,
     journal |-> NoJournal]

NoObjects == [i \in Invoices |-> [m \in Makers |-> "absent"]]

NoCache == [i \in Invoices |-> "none"]
NoMatches == [i \in Invoices |-> {}]
NoRequests == [r \in Callers |-> IdleRequest]

Init ==
    /\ ErpInit
    /\ object = NoObjects
    /\ cache = NoCache
    /\ matches = NoMatches
    /\ journals = {}
    /\ req = NoRequests
    /\ invoiceRow = [i \in Invoices |-> "absent"]
    /\ matchRow = NoMatches
    /\ journalRows = {}
    /\ troubles = 0
    /\ history = [i \in Invoices |-> {}]
    /\ answered = {}
    /\ disturbed = [i \in Invoices |-> {}]

At(r, pc) == req[r].pc = pc
Inv(r) == req[r].inv
Goto(r, pc) == req' = [req EXCEPT ![r].pc = pc]
Finish(r) == req' = [req EXCEPT ![r] = IdleRequest]

\* The load or the save is over and the handler goes on.
Resume(r) ==
    req' = [req EXCEPT ![r].pc = req[r].next, ![r].next = "idle",
                       ![r].row = "EXTRACTED"]

Busy(i) == \E r \in Callers : ~At(r, "idle") /\ Inv(r) = i

\* Something comes between invoice i and its rows.
Trouble(i, what) ==
    /\ troubles < MaxTroubles
    /\ troubles' = troubles + 1
    /\ disturbed' = [disturbed EXCEPT ![i] = @ \cup what]

\* The status in the object the handler holds.
HeldStatus(r) == object[Inv(r)][req[r].object]

---------------------------------------------------------------------------
(* Loading and saving an invoice.                                          *)

Exists(i) == cache[i] # "none" \/ invoiceRow[i] # "absent"

\* The endpoint looks the invoice up before it calls the workflow.
Enter(r, i, request) ==
    /\ At(r, "idle")
    /\ Exists(i)
    /\ req' = [req EXCEPT ![r] =
                 IF cache[i] # "none" THEN [request EXCEPT !.object = cache[i]]
                 ELSE [request EXCEPT !.pc = "select_invoice", !.object = r,
                                      !.next = request.pc]]
    /\ IF Busy(i) THEN Trouble(i, {"overlap"}) ELSE UNCHANGED <<troubles, disturbed>>
    /\ UNCHANGED <<memory, tables, history, answered, erpVars>>

\* get_invoice: the row becomes an object of this thread's own ...
SelectInvoice(r) ==
    /\ At(r, "select_invoice")
    /\ object' = [object EXCEPT ![Inv(r)][r] = invoiceRow[Inv(r)]]
    /\ Goto(r, "cache_invoice")
    /\ UNCHANGED <<cache, matches, journals, tables, troubles, watch, erpVars>>

\* ... which replaces whatever another thread has cached meanwhile.
CacheInvoice(r) ==
    /\ At(r, "cache_invoice")
    /\ cache' = [cache EXCEPT ![Inv(r)] = r]
    /\ Resume(r)
    /\ UNCHANGED <<object, matches, journals, tables, troubles, watch, erpVars>>

\* invoice.status = status; super().save_invoice(invoice).
WriteStatus(r, m, status, next) ==
    /\ object' = [object EXCEPT ![Inv(r)][m] = status]
    /\ cache' = [cache EXCEPT ![Inv(r)] = m]
    /\ req' = [req EXCEPT ![r].pc = "serialise", ![r].next = next,
                          ![r].object = m, ![r].approved = FALSE,
                          ![r].requested = "ESCALATE"]
    /\ UNCHANGED <<matches, journals, tables>>

\* The SQL parameters are built from the object, after the connection is taken.
Serialise(r) ==
    /\ At(r, "serialise")
    /\ req' = [req EXCEPT ![r].pc = "commit", ![r].row = HeldStatus(r)]
    /\ UNCHANGED <<memory, tables, troubles, watch, erpVars>>

\* INSERT ... ON CONFLICT (id) DO UPDATE SET status=EXCLUDED.status.
WriteInvoiceRow(r) ==
    /\ At(r, "commit")
    /\ invoiceRow' = [invoiceRow EXCEPT ![Inv(r)] = req[r].row]
    /\ UNCHANGED <<matchRow, journalRows>>

Commit(r) ==
    /\ WriteInvoiceRow(r)
    /\ Resume(r)
    /\ UNCHANGED <<memory, troubles, watch, erpVars>>

Done(r) ==
    /\ At(r, "done")
    /\ Finish(r)
    /\ UNCHANGED <<memory, tables, troubles, watch, erpVars>>

\* An upload saves a new invoice; when the insert fails it stays in memory only.
Ingest(i, stored) ==
    /\ ~Exists(i)
    /\ disturbed[i] = {}
    /\ object' = [object EXCEPT ![i]["upload"] = "EXTRACTED"]
    /\ cache' = [cache EXCEPT ![i] = "upload"]
    /\ invoiceRow' = [invoiceRow EXCEPT ![i] = IF stored THEN "EXTRACTED" ELSE @]
    /\ IF stored THEN UNCHANGED <<troubles, disturbed>>
       ELSE Trouble(i, {"failed_write"})
    /\ UNCHANGED <<matches, journals, matchRow, journalRows, req, history,
                   answered, erpVars>>

---------------------------------------------------------------------------
(* match().                                                                *)

StartMatch(r, i, receipt) ==
    Enter(r, i, [IdleRequest EXCEPT !.pc = "match_guard", !.inv = i,
                                    !.receipt = receipt])

MatchGuard(r) ==
    /\ At(r, "match_guard")
    /\ IF object[Inv(r)][cache[Inv(r)]] \in Settled
       THEN Finish(r) ELSE Goto(r, "run_match")
    /\ UNCHANGED <<memory, tables, troubles, watch, erpVars>>

Matches(i, receipt) == Facts[i] \ (IF receipt THEN {} ELSE {"RECEIPT_SHORTFALL"}) = {}

\* Policy, agent request and PO look-up, then the controls on the object that
\* is cached now.
RunMatch(r) ==
    /\ At(r, "run_match")
    /\ req' = [req EXCEPT ![r].pc = "save_match", ![r].receipt = FALSE,
                          ![r].object = cache[Inv(r)],
                          ![r].matched = Matches(Inv(r), req[r].receipt)]
    /\ UNCHANGED <<memory, tables, troubles, watch, erpVars>>

MatchFails(r) ==
    /\ req[r].pc \in {"run_match", "evaluate_match"}
    /\ Finish(r)
    /\ UNCHANGED <<memory, tables, troubles, watch, erpVars>>

SaveMatch(r) ==
    /\ At(r, "save_match")
    /\ matches' = [matches EXCEPT ![Inv(r)] = {req[r].matched}]
    /\ history' = [history EXCEPT ![Inv(r)] = @ \cup
                     (IF req[r].matched THEN {"clean_match"} ELSE {})]
    /\ Goto(r, "store_match")
    /\ UNCHANGED <<object, cache, journals, tables, troubles, answered,
                   disturbed, erpVars>>

\* Mutant: one row per invoice, which the first match keeps.
WriteFirstMatchRow(r) ==
    /\ At(r, "store_match")
    /\ invoiceRow[Inv(r)] # "absent"
    /\ matchRow' = [matchRow EXCEPT ![Inv(r)] = IF @ = {} THEN {req[r].matched} ELSE @]
    /\ UNCHANGED <<invoiceRow, journalRows>>

\* match_results refers to invoices: an invoice without a row has no match row.
WriteMatchRow(r) ==
    /\ At(r, "store_match")
    /\ invoiceRow[Inv(r)] # "absent"
    /\ matchRow' = [matchRow EXCEPT ![Inv(r)] = {req[r].matched}]
    /\ UNCHANGED <<invoiceRow, journalRows>>

StoreMatch(r) ==
    /\ WriteMatchRow(r)
    /\ Goto(r, "set_status")
    /\ UNCHANGED <<memory, troubles, watch, erpVars>>

SetMatchStatus(r) ==
    /\ At(r, "set_status")
    /\ WriteStatus(r, req[r].object,
                   IF req[r].matched THEN "MATCHED" ELSE "EXCEPTION",
                   "evaluate_match")
    /\ UNCHANGED <<troubles, watch, erpVars>>

\* A thread that enters post(invoice_id, idempotency_key).
PostRequest(i, key) ==
    [IdleRequest EXCEPT !.pc = "get_journal", !.inv = i, !.key = key]

RoutesToPost(matched, requested) ==
    /\ requested = "POST_PAYMENT_JOURNAL"
    /\ matched
    /\ settings.autoPost
    /\ ~settings.requireApproval

EvaluateMatch(r, requested) ==
    /\ At(r, "evaluate_match")
    /\ req' = [req EXCEPT ![r] =
                 IF RoutesToPost(req[r].matched, requested)
                 THEN [PostRequest(Inv(r), AutoKey[Inv(r)])
                         EXCEPT !.object = cache[Inv(r)]]
                 ELSE [@ EXCEPT !.pc = "finalize", !.requested = requested]]
    /\ UNCHANGED <<memory, tables, troubles, watch, erpVars>>

ApprovalRequired(matched, requested) ==
    matched /\ (settings.requireApproval \/ (settings.autoPost /\ requested = "ESCALATE"))

Finalize(r) ==
    /\ At(r, "finalize")
    /\ IF ApprovalRequired(req[r].matched, req[r].requested)
       THEN WriteStatus(r, cache[Inv(r)], "AWAITING_APPROVAL", "done")
       ELSE Finish(r) /\ UNCHANGED <<memory, tables>>
    /\ UNCHANGED <<troubles, watch, erpVars>>

---------------------------------------------------------------------------
(* approve().                                                              *)

StartDecision(r, i, approved) ==
    Enter(r, i, [IdleRequest EXCEPT !.pc = "decide_guard", !.inv = i,
                                    !.approved = approved])

DecideGuard(r) ==
    /\ At(r, "decide_guard")
    /\ req' = [req EXCEPT ![r] =
                 IF object[Inv(r)][cache[Inv(r)]] \in Reviewable
                 THEN [@ EXCEPT !.pc = "decide", !.object = cache[Inv(r)]]
                 ELSE IdleRequest]
    /\ UNCHANGED <<memory, tables, troubles, watch, erpVars>>

RecordDecision(r) ==
    /\ At(r, "decide")
    /\ WriteStatus(r, req[r].object,
                   IF req[r].approved THEN "APPROVED" ELSE "REJECTED", "decided")
    /\ history' = [history EXCEPT ![Inv(r)] = @ \cup
                     {IF req[r].approved THEN "human_approved"
                                         ELSE "human_rejected"}]
    /\ UNCHANGED <<troubles, answered, disturbed, erpVars>>

\* The reviewer is told that the decision stands.
AnswerDecision(r) ==
    /\ At(r, "decided")
    /\ answered' = answered \cup {Inv(r)}
    /\ Finish(r)
    /\ UNCHANGED <<memory, tables, troubles, history, disturbed, erpVars>>

---------------------------------------------------------------------------
(* post().                                                                 *)

StartPost(r, i, key) ==
    /\ key \in ClientKeys[i]
    /\ Enter(r, i, PostRequest(i, key))

\* get_journal searches the cache, then payment_journals.
Known(store, r) ==
    {j \in store : j.key = req[r].key \/ j.invoice = Inv(r)}

ReplayJournal(r, j) ==
    /\ At(r, "get_journal")
    /\ j \in Known(IF Known(journals, r) # {} THEN journals ELSE journalRows, r)
    /\ journals' = journals \cup {j}
    /\ Finish(r)
    /\ UNCHANGED <<object, cache, matches, tables, troubles, watch, erpVars>>

NoKnownJournal(r) ==
    /\ At(r, "get_journal")
    /\ Known(journals \cup journalRows, r) = {}
    /\ Goto(r, "latest_match")
    /\ UNCHANGED <<memory, tables, troubles, watch, erpVars>>

\* latest_match searches the cache, then match_results.
LatestMatch(r, matched) ==
    /\ At(r, "latest_match")
    /\ matched \in IF matches[Inv(r)] # {} THEN matches[Inv(r)] ELSE matchRow[Inv(r)]
    /\ req' = [req EXCEPT
         ![r].matched = matched,
         ![r].pc = IF matches[Inv(r)] # {} THEN "post_guard" ELSE "cache_match"]
    /\ UNCHANGED <<memory, tables, troubles, watch, erpVars>>

NoMatch(r) ==
    /\ At(r, "latest_match")
    /\ matches[Inv(r)] = {} /\ matchRow[Inv(r)] = {}
    /\ Finish(r)
    /\ UNCHANGED <<memory, tables, troubles, watch, erpVars>>

\* The loaded match enters the cache as its newest.
CacheMatch(r) ==
    /\ At(r, "cache_match")
    /\ matches' = [matches EXCEPT ![Inv(r)] = {req[r].matched}]
    /\ Goto(r, "post_guard")
    /\ UNCHANGED <<object, cache, journals, tables, troubles, watch, erpVars>>

\* Mutant: the match is not looked at.
MayPostAnyMatch(r) ==
    /\ HeldStatus(r) \in {"EXCEPTION", "MATCHED", "APPROVED"}
    /\ settings.requireApproval => HeldStatus(r) = "APPROVED"

MayPost(r) ==
    /\ req[r].matched \/ HeldStatus(r) = "APPROVED"
    /\ HeldStatus(r) \in {"MATCHED", "APPROVED"}
    /\ settings.requireApproval => HeldStatus(r) = "APPROVED"

PostGuard(r) ==
    /\ At(r, "post_guard")
    /\ IF MayPost(r)
       THEN req' = [req EXCEPT ![r].pc = "erp_call", ![r].matched = FALSE]
       ELSE Finish(r)
    /\ UNCHANGED <<memory, tables, troubles, watch, erpVars>>

SendJournal(r) ==
    /\ At(r, "erp_call")
    /\ calls' = calls \cup
         {[caller |-> r, inv |-> Inv(r), key |-> req[r].key,
           approved |-> (HeldStatus(r) = "APPROVED"), phase |-> "sent",
           journal |-> NoJournal, live |-> TRUE]}
    /\ Goto(r, "await_erp")
    /\ UNCHANGED <<memory, tables, troubles, watch,
                   settings, postedByKey, postedByInvoice, minted>>

CallOf(r) == {c \in calls : c.caller = r /\ c.live}

ReceiveJournal(r, c) ==
    /\ At(r, "await_erp")
    /\ c.phase = "answered"
    /\ calls' = calls \ {c}
    /\ req' = [req EXCEPT ![r].pc = "set_posted", ![r].journal = c.journal]
    /\ UNCHANGED <<memory, tables, troubles, watch,
                   settings, postedByKey, postedByInvoice, minted>>

\* The ERP refuses, or the request or its answer is lost.
PostFails(r, c) ==
    /\ At(r, "await_erp")
    /\ c.phase # "create"
    /\ calls' = calls \ {c}
    /\ Finish(r)
    /\ UNCHANGED <<memory, tables, troubles, watch,
                   settings, postedByKey, postedByInvoice, minted>>

CallTimesOut(r, c) ==
    /\ At(r, "await_erp")
    /\ c.phase \in {"sent", "create"}
    /\ calls' = (calls \ {c}) \cup {[c EXCEPT !.live = FALSE]}
    /\ Trouble(Inv(r), {})
    /\ Finish(r)
    /\ UNCHANGED <<memory, tables, history, answered,
                   settings, postedByKey, postedByInvoice, minted>>

\* Mutant: the journal is not saved.
SetPostedOnly(r) ==
    /\ At(r, "set_posted")
    /\ WriteStatus(r, req[r].object, "POSTED", "done")
    /\ UNCHANGED <<troubles, watch, erpVars>>

SetPosted(r) ==
    /\ At(r, "set_posted")
    /\ WriteStatus(r, req[r].object, "POSTED", "save_journal")
    /\ UNCHANGED <<troubles, watch, erpVars>>

SaveJournal(r) ==
    /\ At(r, "save_journal")
    /\ journals' = journals \cup {req[r].journal}
    /\ Goto(r, "store_journal")
    /\ UNCHANGED <<object, cache, matches, tables, troubles, watch, erpVars>>

\* ON CONFLICT (idempotency_key) DO NOTHING.
WriteJournalRow(r) ==
    /\ At(r, "store_journal")
    /\ journalRows' = journalRows \cup
         {j \in {req[r].journal} : \A stored \in journalRows : stored.key # j.key}
    /\ UNCHANGED <<invoiceRow, matchRow>>

StoreJournal(r) ==
    /\ WriteJournalRow(r)
    /\ Finish(r)
    /\ UNCHANGED <<memory, troubles, watch, erpVars>>

---------------------------------------------------------------------------
(* Failures.                                                               *)

\* No connection, or no answer to a SELECT: the handler raises.
ReadFails(r) ==
    /\ \/ At(r, "select_invoice")
       \/ At(r, "get_journal") /\ Known(journals, r) = {}
       \/ At(r, "latest_match") /\ matches[Inv(r)] = {}
    /\ Finish(r)
    /\ UNCHANGED <<memory, tables, troubles, watch, erpVars>>

\* Mutant: an error of the database is logged and the handler goes on.
WriteFailsQuietly(r) ==
    /\ At(r, "commit")
    /\ Resume(r)
    /\ Trouble(Inv(r), {"failed_write"})
    /\ UNCHANGED <<memory, tables, history, answered, erpVars>>

\* The row is not written, or is written and the acknowledgement lost: the
\* handler raises, and its caller does not know which.
WriteFails(r) ==
    /\ \/ /\ req[r].pc \in {"store_match", "serialise", "commit", "store_journal"}
          /\ UNCHANGED tables
       \/ WriteMatchRow(r) \/ WriteInvoiceRow(r) \/ WriteJournalRow(r)
    /\ Trouble(Inv(r), {"failed_write"})
    /\ Finish(r)
    /\ UNCHANGED <<memory, history, answered, erpVars>>

\* The process dies and a new one starts.  The tables and the ERP stay; a call
\* the ERP is still working on loses its caller.
Restart ==
    /\ troubles < MaxTroubles
    /\ troubles' = troubles + 1
    /\ object' = NoObjects
    /\ cache' = NoCache
    /\ matches' = NoMatches
    /\ journals' = {}
    /\ req' = NoRequests
    /\ calls' = {[c EXCEPT !.live = FALSE] : c \in {d \in calls : d.phase \in {"sent", "create"}}}
    /\ disturbed' = [i \in Invoices |->
                        disturbed[i] \cup IF Busy(i) THEN {"crash"} ELSE {}]
    /\ UNCHANGED <<tables, history, answered,
                   settings, postedByKey, postedByInvoice, minted>>

---------------------------------------------------------------------------

SaveStep(r) ==
    \/ SelectInvoice(r)
    \/ CacheInvoice(r)
    \/ Serialise(r)
    \/ Commit(r)
    \/ Done(r)
    \/ ReadFails(r)
    \/ WriteFails(r)

MatchStep(r) ==
    \/ MatchGuard(r)
    \/ RunMatch(r)
    \/ MatchFails(r)
    \/ SaveMatch(r)
    \/ StoreMatch(r)
    \/ SetMatchStatus(r)
    \/ \E requested \in AgentActions : EvaluateMatch(r, requested)
    \/ Finalize(r)

DecideStep(r) == DecideGuard(r) \/ RecordDecision(r) \/ AnswerDecision(r)

PostStep(r) ==
    \/ \E j \in journals \cup journalRows : ReplayJournal(r, j)
    \/ NoKnownJournal(r)
    \/ \E matched \in BOOLEAN : LatestMatch(r, matched)
    \/ NoMatch(r)
    \/ CacheMatch(r)
    \/ PostGuard(r)
    \/ SendJournal(r)
    \/ \E c \in CallOf(r) :
         ReceiveJournal(r, c) \/ PostFails(r, c) \/ CallTimesOut(r, c)
    \/ SetPosted(r)
    \/ SaveJournal(r)
    \/ StoreJournal(r)

NewRequest(r, i) ==
    \/ \E receipt \in BOOLEAN : StartMatch(r, i, receipt)
    \/ \E key \in ClientKeys[i] : StartPost(r, i, key)
    \/ \E approved \in BOOLEAN : StartDecision(r, i, approved)

ErpServes ==
    \E c \in calls :
        ErpStep(c) /\ UNCHANGED <<memory, tables, req, troubles, watch>>

Next ==
    \/ \E i \in Invoices, stored \in BOOLEAN : Ingest(i, stored)
    \/ \E r \in Callers : SaveStep(r) \/ MatchStep(r) \/ DecideStep(r) \/ PostStep(r)
    \/ \E r \in Callers, i \in Invoices : NewRequest(r, i)
    \/ ErpServes
    \/ Restart

Spec == Init /\ [][Next]_vars

---------------------------------------------------------------------------
(* Properties.                                                             *)

\* The durable workflow implements the abstract payment: no crash, failed write,
\* stale object or reordered commit makes it pay what is not authorised
\* (workflow.py:402-415 over repository.py:316-326, 356-383).
Control == INSTANCE PaymentControl WITH
    DocKey <- [i \in Invoices |-> i],
    gated <- settings.requireApproval,
    evidence <- history,
    paid <- {i \in Invoices : minted[i] > 0}

PaymentIsControlled == Control!Spec

\* A decision the reviewer was told of is in the database, and so outlives a
\* restart, whatever failed or crashed since: as long as no two requests for the
\* invoice overlapped (workflow.py:380-381, repository.py:277-297).
DecisionIsStored ==
    \A i \in answered :
        "overlap" \notin disturbed[i] => invoiceRow[i] \in Settled

\* Unless requests overlapped or a write failed, an invoice nobody works on is
\* in memory what it is in the tables: a restart loses nothing and invents
\* nothing (repository.py:276-298, 316-326, 356-369, 493-507).
CacheIsCurrent ==
    \A i \in Invoices :
        disturbed[i] \subseteq {"crash"} /\ ~Busy(i) =>
            /\ cache[i] # "none" => object[i][cache[i]] = invoiceRow[i]
            /\ matches[i] \in {{}, matchRow[i]}
            /\ \A j \in journals : j.invoice = i => j \in journalRows

\* A stored POSTED has its journal stored beside it, or about to be, unless a
\* crash or a failed write came between the two (workflow.py:430-432).
PostedHasJournal ==
    \A i \in Invoices :
        invoiceRow[i] = "POSTED" /\ disturbed[i] \subseteq {"overlap"} /\ ~Busy(i)
            => \E j \in journalRows : j.invoice = i
=============================================================================
