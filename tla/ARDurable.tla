------------------------------ MODULE ARDurable ------------------------------
(***************************************************************************)
(* Remittances in PostgresRepository, with the audit ledger: what ingest,  *)
(* match, cash application and review write to memory, to the remittances  *)
(* table and to audit_events, and what a failed write or a crash leaves of *)
(* it.                                                                     *)
(*                                                                         *)
(* The handlers are those of ARRemittance, which models them and the ERP   *)
(* in detail.  Here the ERP accepts or refuses, the open items suit a      *)
(* remittance or not, and only the events that say what became of a        *)
(* remittance are kept: those of the agent are appended in the same way.   *)
(***************************************************************************)
EXTENDS AuditLedger

CONSTANTS
    Remittances,
    References,     \* the pairs of customer_id and reference
    Callers,        \* worker threads
    MaxRequests,    \* bound: requests in all
    MaxTroubles     \* bound: restarts and failed writes together

Outcomes == {"remittance_extracted", "ar_match_completed",
             "cash_application_posted", "cash_application_blocked"}
Reviews == {"human_reject", "human_mark_manually_resolved",
            "human_retry_with_correction", "human_approve_apply"}

ASSUME DurableConstants ==
    /\ Remittances # {} /\ References # {}
    /\ Appenders = Callers /\ Subjects = Remittances
    /\ Actions = Outcomes \cup Reviews
    /\ MaxRequests \in Nat /\ MaxTroubles \in Nat
    /\ "none" \notin Callers \cup Remittances

Status == {"EXTRACTED", "MATCHED", "EXCEPTION", "AWAITING_APPROVAL",
           "REJECTED", "RESOLVED", "POSTED"}
Reviewable == {"EXCEPTION", "AWAITING_APPROVAL"}

\* A remittance in memory or in the payload column, with its latest result.
Remittance == [status : Status, reference : References, matched : BOOLEAN]

\* Where a thread stands; a save is followed by next.
Steps == {"idle", "commit", "append", "store", "search_memory", "search_table",
          "save_match", "route", "apply", "answer"}

\* action and event: what it has to append, and the id it got; raises: whether
\* an ERPError is raised after that; duplicate: what its search found; review:
\* what the reviewer asked for, if one did.
Request ==
    [pc : Steps, next : Steps, rem : Remittances \cup {"none"},
     action : Actions, event : Nat, raises : BOOLEAN, duplicate : BOOLEAN,
     review : Reviews \cup {"none"}]

VARIABLES
    memory,     \* memory[m]: MemoryRepository.remittances, as a set: {} if not cached
    payload,    \* payload[m]: the payload column; {} if there is no row
    column,     \* column[m]: the columns customer_id and reference; {} if no row
    req,        \* the worker threads
    requests,   \* how many requests there have been
    troubles,   \* how many restarts and failed writes
    answered,   \* the reviews whose caller was told that they succeeded
    cleared,    \* the remittances whose last match found no duplicate
    corrected,  \* the remittances a correction has changed
    reloaded,   \* those a correction had changed when the process started
    disturbed   \* the remittances a crash or a failed write has met

tables == <<payload, column>>
bounds == <<requests, troubles>>
watch == <<answered, cleared, corrected, reloaded, disturbed>>
vars == <<memory, tables, req, bounds, watch, ledgerVars>>

TypeOK ==
    /\ LedgerTypeOK
    /\ memory \in [Remittances -> SUBSET Remittance]
    /\ payload \in [Remittances -> SUBSET Remittance]
    /\ column \in [Remittances -> SUBSET References]
    /\ req \in [Callers -> Request]
    /\ requests \in 0 .. MaxRequests
    /\ troubles \in 0 .. MaxTroubles
    /\ answered \subseteq Remittances \X Reviews
    /\ cleared \subseteq Remittances
    /\ corrected \subseteq Remittances
    /\ reloaded \subseteq Remittances
    /\ disturbed \subseteq Remittances

IdleRequest ==
    [pc |-> "idle", next |-> "idle", rem |-> "none",
     action |-> "remittance_extracted", event |-> 0, raises |-> FALSE,
     duplicate |-> FALSE, review |-> "none"]

NoRequests == [r \in Callers |-> IdleRequest]
Nothing == [m \in Remittances |-> {}]

Init ==
    /\ LedgerInit
    /\ memory = Nothing
    /\ payload = Nothing
    /\ column = Nothing
    /\ req = NoRequests
    /\ requests = 0
    /\ troubles = 0
    /\ answered = {} /\ cleared = {}
    /\ corrected = {} /\ reloaded = {} /\ disturbed = {}

At(r, pc) == req[r].pc = pc
Rem(r) == req[r].rem
Goto(r, pc) == req' = [req EXCEPT ![r].pc = pc]
Finish(r) == req' = [req EXCEPT ![r] = IdleRequest]
Busy(m) == \E r \in Callers : ~At(r, "idle") /\ Rem(r) = m

\* get_remittance: the cached object, or a new one from the payload.
Known(m) == IF memory[m] # {} THEN memory[m] ELSE payload[m]
Fields(m) == CHOOSE f \in Known(m) : TRUE

Trouble(m) ==
    /\ troubles < MaxTroubles
    /\ troubles' = troubles + 1
    /\ disturbed' = disturbed \cup {m}

---------------------------------------------------------------------------
(* save_remittance and append.                                             *)

\* The handler sets the fields and saves them: in memory first.
Write(r, m, fields, request) ==
    /\ memory' = [memory EXCEPT ![m] = {fields}]
    /\ req' = [req EXCEPT ![r] = [request EXCEPT !.pc = "commit", !.rem = m]]
    /\ UNCHANGED tables

\* ON CONFLICT (id) DO UPDATE SET status, payload: the other columns stay.
Upsert(m) ==
    /\ payload' = [payload EXCEPT ![m] = memory[m]]
    /\ column' = [column EXCEPT ![m] =
                    IF @ = {} THEN {f.reference : f \in memory[m]} ELSE @]

Commit(r) ==
    /\ At(r, "commit")
    /\ Upsert(Rem(r))
    /\ Goto(r, req[r].next)
    /\ UNCHANGED <<memory, bounds, watch, ledgerVars>>

\* The handler raises; memory keeps what the table may not have.
CommitFails(r, written) ==
    /\ At(r, "commit")
    /\ IF written THEN Upsert(Rem(r)) ELSE UNCHANGED tables
    /\ Trouble(Rem(r))
    /\ Finish(r)
    /\ UNCHANGED <<memory, requests, answered, cleared, corrected,
                   reloaded, ledgerVars>>

Audit(r) ==
    /\ At(r, "append")
    /\ AppendEvent(r, Rem(r), req[r].action)
    /\ req' = [req EXCEPT ![r].pc = "store", ![r].event = minted + 1]
    /\ UNCHANGED <<memory, tables, bounds, watch>>

OwnEvent(r) == CHOOSE e \in Range(events) : e.id = req[r].event

\* The run is over: a reviewer's request has its own event to append.
AfterRun(request) ==
    IF request.review = "none" THEN [request EXCEPT !.pc = "answer"]
    ELSE [request EXCEPT !.pc = "append", !.action = request.review]

\* Where the handler goes on after its event, unless it raises: an application
\* ends the run, whether the ERP made it or refused it.
AfterEvent(request) ==
    IF request.raises THEN IdleRequest ELSE
    CASE request.action = "remittance_extracted" -> [request EXCEPT !.pc = "search_memory"]
      [] request.action = "ar_match_completed" -> [request EXCEPT !.pc = "route"]
      [] request.action = "cash_application_posted" -> AfterRun(request)
      [] request.action = "cash_application_blocked" -> AfterRun(request)
      [] request.action \in Reviews -> [request EXCEPT !.pc = "answer"]

Store(r) ==
    /\ At(r, "store")
    /\ StoreEvent(OwnEvent(r))
    /\ req' = [req EXCEPT ![r] = [AfterEvent(@) EXCEPT !.event = 0]]
    /\ UNCHANGED <<memory, tables, bounds, watch>>

\* Mutant: an error of the sink is logged and the handler goes on.
StoreFailsQuietly(r, written) ==
    /\ At(r, "store")
    /\ StoreEventFails(OwnEvent(r), written)
    /\ Trouble(Rem(r))
    /\ req' = [req EXCEPT ![r] = [AfterEvent(@) EXCEPT !.event = 0]]
    /\ UNCHANGED <<memory, tables, requests, answered, cleared,
                   corrected, reloaded>>

StoreFails(r, written) ==
    /\ At(r, "store")
    /\ StoreEventFails(OwnEvent(r), written)
    /\ Trouble(Rem(r))
    /\ Finish(r)
    /\ UNCHANGED <<memory, tables, requests, answered, cleared,
                   corrected, reloaded>>

---------------------------------------------------------------------------
(* ingest() and run().                                                     *)

NewRequest(r) ==
    /\ At(r, "idle")
    /\ requests < MaxRequests
    /\ requests' = requests + 1

\* Mutant: the remittance is saved with the status it was built with.
IngestAsReceived(r, m, reference) ==
    /\ NewRequest(r)
    /\ Known(m) = {} /\ m \notin disturbed
    /\ Write(r, m, [status |-> "RECEIVED", reference |-> reference, matched |-> FALSE],
             [IdleRequest EXCEPT !.next = "append"])
    /\ UNCHANGED <<troubles, watch, ledgerVars>>

\* Every upload gets an id of its own: one whose insert failed is gone for good.
Ingest(r, m, reference) ==
    /\ NewRequest(r)
    /\ Known(m) = {} /\ m \notin disturbed
    /\ Write(r, m, [status |-> "EXTRACTED", reference |-> reference, matched |-> FALSE],
             [IdleRequest EXCEPT !.next = "append"])
    /\ UNCHANGED <<troubles, watch, ledgerVars>>

\* The policy, the agent, the ERP or a SELECT fails: the handler raises.
RunFails(r) ==
    /\ req[r].pc \in {"search_memory", "search_table", "route"}
    /\ Finish(r)
    /\ UNCHANGED <<memory, tables, bounds, watch, ledgerVars>>

SameReference(m, n) == Fields(m).reference = Fields(n).reference

Live(n) == Known(n) # {} /\ Fields(n).status # "REJECTED"

\* The search has found, or not found, another remittance.
Judge(r, found) ==
    /\ req' = [req EXCEPT ![r].pc = "save_match", ![r].duplicate = found]
    /\ cleared' = IF found THEN cleared \ {Rem(r)} ELSE cleared \cup {Rem(r)}
    /\ UNCHANGED <<answered, corrected, reloaded, disturbed>>

\* find_duplicate_remittance: first what is cached ...
InMemory(m) ==
    \E n \in Remittances \ {m} : memory[n] # {} /\ Live(n) /\ SameReference(m, n)

SearchMemory(r) ==
    /\ At(r, "search_memory")
    /\ IF InMemory(Rem(r)) THEN Judge(r, TRUE)
       ELSE Goto(r, "search_table") /\ UNCHANGED watch
    /\ UNCHANGED <<memory, tables, bounds, ledgerVars>>

\* Mutant: what is not cached is not looked for.
NoRow(m) == {}

\* ... then the table, by its columns.
InTable(m) ==
    {n \in Remittances \ {m} :
        /\ column[n] = {Fields(m).reference}
        /\ \A f \in payload[n] : f.status # "REJECTED"}

\* The remittance that is found is loaded.
SearchTable(r) ==
    /\ At(r, "search_table")
    /\ \/ InTable(Rem(r)) = {} /\ UNCHANGED memory
       \/ \E n \in InTable(Rem(r)) : memory' = [memory EXCEPT ![n] = Known(n)]
    /\ Judge(r, InTable(Rem(r)) # {})
    /\ UNCHANGED <<tables, bounds, ledgerVars>>

\* match_remittance: suits says what it finds against the open items.
SaveMatch(r, suits) ==
    LET matched == suits /\ ~req[r].duplicate IN
    /\ At(r, "save_match")
    /\ Write(r, Rem(r), [Fields(Rem(r)) EXCEPT !.matched = matched,
                           !.status = IF matched THEN "MATCHED" ELSE "EXCEPTION"],
             [req[r] EXCEPT !.next = "append", !.action = "ar_match_completed",
                            !.duplicate = FALSE])
    /\ UNCHANGED <<bounds, watch, ledgerVars>>

\* The agent and the settings: apply, ask for approval, or leave it as it is.
RouteToApply(r) ==
    /\ At(r, "route")
    /\ Fields(Rem(r)).matched
    /\ Goto(r, "apply")
    /\ UNCHANGED <<memory, tables, bounds, watch, ledgerVars>>

RouteToReview(r) ==
    /\ At(r, "route")
    /\ Fields(Rem(r)).matched
    /\ Write(r, Rem(r), [Fields(Rem(r)) EXCEPT !.status = "AWAITING_APPROVAL"],
             LET then == AfterRun(req[r]) IN [then EXCEPT !.next = then.pc])
    /\ UNCHANGED <<bounds, watch, ledgerVars>>

RouteNowhere(r) ==
    /\ At(r, "route")
    /\ req' = [req EXCEPT ![r] = AfterRun(@)]
    /\ UNCHANGED <<memory, tables, bounds, watch, ledgerVars>>

\* apply_cash: the ERP applies the cash ...
Apply(r) ==
    /\ At(r, "apply")
    /\ Write(r, Rem(r), [Fields(Rem(r)) EXCEPT !.status = "POSTED"],
             [req[r] EXCEPT !.next = "append", !.action = "cash_application_posted"])
    /\ UNCHANGED <<bounds, watch, ledgerVars>>

\* ... or answers that it does not: back to review, with the match as it was ...
ApplyRefused(r) ==
    /\ At(r, "apply")
    /\ Write(r, Rem(r), [Fields(Rem(r)) EXCEPT !.status = "EXCEPTION"],
             [req[r] EXCEPT !.next = "append", !.action = "cash_application_blocked"])
    /\ UNCHANGED <<bounds, watch, ledgerVars>>

\* ... or fails: nothing is saved, and the ERPError is raised after the event.
ApplyFails(r) ==
    /\ At(r, "apply")
    /\ req' = [req EXCEPT ![r].pc = "append", ![r].raises = TRUE,
                          ![r].action = "cash_application_blocked"]
    /\ UNCHANGED <<memory, tables, bounds, watch, ledgerVars>>

---------------------------------------------------------------------------
(* decide().                                                               *)

\* Requests for one remittance come one after another here; ARRemittance has the
\* ones that overlap.
Review(r, m) ==
    /\ NewRequest(r)
    /\ Known(m) # {} /\ ~Busy(m)
    /\ Fields(m).status \in Reviewable

\* REJECT, MARK_MANUALLY_RESOLVED.
Close(r, m, status, review) ==
    /\ Review(r, m)
    /\ Write(r, m, [Fields(m) EXCEPT !.status = status],
             [IdleRequest EXCEPT !.next = "append", !.action = review, !.review = review])
    /\ UNCHANGED <<troubles, watch, ledgerVars>>

\* RETRY_WITH_CORRECTION.
Correct(r, m, reference) ==
    /\ Review(r, m)
    /\ Write(r, m, [status |-> "EXTRACTED", reference |-> reference, matched |-> FALSE],
             [IdleRequest EXCEPT !.next = "search_memory",
                                 !.review = "human_retry_with_correction"])
    /\ corrected' = corrected \cup {m}
    /\ cleared' = cleared \ {m}
    /\ UNCHANGED <<troubles, answered, reloaded, disturbed, ledgerVars>>

\* APPROVE_APPLY.
Approve(r, m) ==
    /\ Review(r, m)
    /\ Fields(m).status = "AWAITING_APPROVAL" /\ Fields(m).matched
    /\ memory' = [memory EXCEPT ![m] = Known(m)]
    /\ req' = [req EXCEPT ![r] = [IdleRequest EXCEPT !.pc = "apply", !.rem = m,
                                    !.review = "human_approve_apply"]]
    /\ UNCHANGED <<tables, troubles, watch, ledgerVars>>

\* The caller is told.
Answer(r) ==
    /\ At(r, "answer")
    /\ answered' = answered \cup ({<<Rem(r), req[r].review>>} \cap (Remittances \X Reviews))
    /\ Finish(r)
    /\ UNCHANGED <<memory, tables, bounds, cleared, corrected,
                   reloaded, disturbed, ledgerVars>>

---------------------------------------------------------------------------

Restart ==
    /\ troubles < MaxTroubles
    /\ troubles' = troubles + 1
    /\ LoadEvents
    /\ memory' = Nothing
    /\ req' = NoRequests
    /\ reloaded' = corrected
    /\ disturbed' = disturbed \cup {m \in Remittances : Busy(m)}
    /\ UNCHANGED <<tables, requests, answered, cleared, corrected>>

RunStep(r) ==
    \/ Commit(r)
    \/ Audit(r)
    \/ Store(r)
    \/ SearchMemory(r)
    \/ SearchTable(r)
    \/ \E suits \in BOOLEAN : SaveMatch(r, suits)
    \/ RouteToApply(r)
    \/ RouteToReview(r)
    \/ RouteNowhere(r)
    \/ Apply(r)
    \/ ApplyRefused(r)
    \/ ApplyFails(r)
    \/ RunFails(r)
    \/ Answer(r)

Failure(r) == \E written \in BOOLEAN : CommitFails(r, written) \/ StoreFails(r, written)

ReviewStep(r, m) ==
    \/ Close(r, m, "REJECTED", "human_reject")
    \/ Close(r, m, "RESOLVED", "human_mark_manually_resolved")
    \/ \E reference \in References : Correct(r, m, reference)
    \/ Approve(r, m)

Next ==
    \/ \E r \in Callers : RunStep(r) \/ Failure(r)
    \/ \E r \in Callers, m \in Remittances :
         ReviewStep(r, m) \/ \E reference \in References : Ingest(r, m, reference)
    \/ Restart

Spec == Init /\ [][Next]_vars

---------------------------------------------------------------------------
(* Properties.                                                             *)

\* What /health and /audit-log report.  The result cached at startup is what a
\* recomputation of the chain in memory would say at any later time, and, until
\* an event fails to be stored, what it would say of the table: the order of the
\* rows is that of the links (audit.py:31-47, 60-70, repository.py:616-655).
IntegrityReportsAreTrue ==
    /\ startupValid <=> Verifies(events)
    /\ ~lost => (startupValid <=> Verifies(stored))

Stored(m, action) == \E e \in Range(stored) : e.about = m /\ e.action = action

\* Every review whose caller was told of success has its event stored, and every
\* stored status that only a review sets has one, unless a crash or a failed
\* write met the remittance (ar_workflow.py:365-399).
ReviewIsAudited ==
    /\ \A a \in answered : Stored(a[1], a[2])
    /\ \A m \in Remittances \ disturbed : \A f \in payload[m] :
         ~Busy(m) =>
           /\ f.status = "REJECTED" => Stored(m, "human_reject")
           /\ f.status = "RESOLVED" => Stored(m, "human_mark_manually_resolved")

\* Of two remittances with the same customer and reference, neither rejected, at
\* most one passed the duplicate check, restarts included, as long as neither was
\* corrected before a restart (repository.py:581-604).
DuplicateOutlivesRestart ==
    \A m, n \in cleared \ reloaded :
        m # n /\ Live(m) /\ Live(n) => ~SameReference(m, n)
=============================================================================
