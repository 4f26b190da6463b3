----------------------------- MODULE ERPPayments -----------------------------
(***************************************************************************)
(* The payment-journal side of the Mock ERP: MockERP.post_payment_journal  *)
(* (src/app/erp.py) and the HTTP endpoint in front of it                   *)
(* (src/app/mock_erp_api.py).                                              *)
(*                                                                         *)
(* A posting call is a record in calls.  The ERP looks the call up by key  *)
(* and by invoice, and only in a later step creates the journal: the code  *)
(* holds no lock between the two, and both the ERP service and the         *)
(* in-process MockERP are called from a thread pool.                       *)
(***************************************************************************)
EXTENDS Naturals, FiniteSets

CONSTANTS
    Invoices,    \* invoice ids
    Keys,        \* Idempotency-Key values
    Callers,     \* the API worker threads that may be inside a posting call
    Facts,       \* Facts[i]: what invoice i's content has against it
    Configurations, \* the Settings a deployment may start with
    NoJournal    \* the None of the dictionaries

\* What can be wrong with an invoice whatever else is in the system.  The PO
\* kinds are the ones the ERP looks at again; OTHER is any other variance.
PoKinds == {"NO_PO_NUMBER", "UNKNOWN_PO", "PO_MISMATCH"}
VarianceKinds == PoKinds \cup {"RECEIPT_SHORTFALL", "OTHER"}

Journal == [invoice : Invoices, key : Keys, seq : Nat \ {0}]

ASSUME ErpConstants ==
    /\ Facts \in [Invoices -> SUBSET VarianceKinds]
    /\ Configurations \subseteq
         [http : BOOLEAN, autoPost : BOOLEAN, requireApproval : BOOLEAN]
    /\ NoJournal \notin Journal

Phases == {"sent", "create", "answered", "conflict"}

\* live is FALSE once the caller has given up: its answer goes nowhere.
Call == [caller : Callers, inv : Invoices, key : Keys, approved : BOOLEAN,
         phase : Phases, journal : Journal \cup {NoJournal}, live : BOOLEAN]

VARIABLES
    settings,         \* the frozen Settings; http: ERP_MODE=http, the service
    postedByKey,      \* MockERP._posted_by_key
    postedByInvoice,  \* MockERP._posted_by_invoice
    minted,           \* how many journals were ever created for an invoice
    calls             \* posting calls the ERP has not finished with

erpVars == <<settings, postedByKey, postedByInvoice, minted, calls>>

ErpTypeOK ==
    /\ settings \in Configurations
    /\ postedByKey \in [Keys -> Journal \cup {NoJournal}]
    /\ postedByInvoice \in [Invoices -> Journal \cup {NoJournal}]
    /\ minted \in [Invoices -> Nat]
    /\ calls \subseteq Call

ErpInit ==
    /\ settings \in Configurations
    /\ postedByKey = [k \in Keys |-> NoJournal]
    /\ postedByInvoice = [i \in Invoices |-> NoJournal]
    /\ minted = [i \in Invoices |-> 0]
    /\ calls = {}

\* The invoice names a PO the ERP knows, of the same vendor and currency.
PoAgrees(i) == Facts[i] \cap PoKinds = {}

\* mock_erp_api.payment_journal revalidates; the in-process ERP does not.
Accepts(c) ==
    \/ ~settings.http
    \/ PoAgrees(c.inv)
    \/ "NO_PO_NUMBER" \in Facts[c.inv] /\ c.approved

\* The call's handler returns: a caller still waiting finds the outcome, the
\* answer to one that gave up is dropped.
Return(c, phase, journal) ==
    calls' = (calls \ {c}) \cup
        {d \in {[c EXCEPT !.phase = phase, !.journal = journal]} : d.live}

ErpRefuse(c) ==
    /\ c.phase = "sent"
    /\ ~Accepts(c)
    /\ Return(c, "conflict", NoJournal)
    /\ UNCHANGED <<settings, postedByKey, postedByInvoice, minted>>

ErpReplayByKey(c) ==
    /\ c.phase = "sent"
    /\ Accepts(c)
    /\ postedByKey[c.key] # NoJournal
    /\ Return(c, "answered", postedByKey[c.key])
    /\ UNCHANGED <<settings, postedByKey, postedByInvoice, minted>>

ErpReplayByInvoice(c) ==
    /\ c.phase = "sent"
    /\ Accepts(c)
    /\ postedByKey[c.key] = NoJournal
    /\ postedByInvoice[c.inv] # NoJournal
    /\ postedByKey' = [postedByKey EXCEPT ![c.key] = postedByInvoice[c.inv]]
    /\ Return(c, "answered", postedByInvoice[c.inv])
    /\ UNCHANGED <<settings, postedByInvoice, minted>>

\* Neither dictionary knows the call: it will create a journal.
ErpMiss(c) ==
    /\ c.phase = "sent"
    /\ Accepts(c)
    /\ postedByKey[c.key] = NoJournal
    /\ postedByInvoice[c.inv] = NoJournal
    /\ calls' = (calls \ {c}) \cup {[c EXCEPT !.phase = "create"]}
    /\ UNCHANGED <<settings, postedByKey, postedByInvoice, minted>>

\* Mutant: journals are numbered from zero.
NewJournalFromZero(c) ==
    [invoice |-> c.inv, key |-> c.key, seq |-> minted[c.inv]]

NewJournal(c) == [invoice |-> c.inv, key |-> c.key, seq |-> minted[c.inv] + 1]

\* Mutant: the journal is filed under its key only.
ErpCreateByKeyOnly(c) ==
    /\ c.phase = "create"
    /\ postedByKey' = [postedByKey EXCEPT ![c.key] = NewJournal(c)]
    /\ minted' = [minted EXCEPT ![c.inv] = @ + 1]
    /\ Return(c, "answered", NewJournal(c))
    /\ UNCHANGED <<settings, postedByInvoice>>

ErpCreate(c) ==
    /\ c.phase = "create"
    /\ postedByKey' = [postedByKey EXCEPT ![c.key] = NewJournal(c)]
    /\ postedByInvoice' = [postedByInvoice EXCEPT ![c.inv] = NewJournal(c)]
    /\ minted' = [minted EXCEPT ![c.inv] = @ + 1]
    /\ Return(c, "answered", NewJournal(c))
    /\ UNCHANGED settings

ErpStep(c) ==
    \/ ErpRefuse(c)
    \/ ErpReplayByKey(c)
    \/ ErpReplayByInvoice(c)
    \/ ErpMiss(c)
    \/ ErpCreate(c)
=============================================================================
