------------------------------- MODULE ERPCash -------------------------------
(***************************************************************************)
(* The cash-application side of the Mock ERP: MockERP.get_open_items and   *)
(* apply_cash (src/app/erp.py), reached in process or through              *)
(* mock_erp_api.cash_application.                                          *)
(*                                                                         *)
(* apply_cash looks the remittance up, revalidates the items, closes them  *)
(* and files the application, in this order and without a lock; it runs in *)
(* a thread pool on either side of the HTTP boundary.                      *)
(***************************************************************************)
EXTENDS Naturals, Sequences, FiniteSets, Functions

CONSTANTS
    Remittances,    \* remittance ids; the key of m is always "auto:{m}"
    Items,          \* the open items the ERP starts with
    ItemFacts,      \* ItemFacts[x]: customer, currency and amount of item x
    References,     \* what a document may name as an open item
    Contents,       \* what a remittance can say: customer, reference, currency,
                    \* amount and refs, the sequence of references
    Callers,        \* the API worker threads
    Configurations, \* the Settings a deployment may start with
    NoApplication   \* the None of the dictionaries, and applied = False

\* A reference need not name an item, and one may occur twice.
ASSUME CashConstants ==
    /\ \A x \in Items : ItemFacts[x].amount \in Nat
    /\ \A k \in Contents : k.refs \in Seq(References)
    /\ Configurations \subseteq
         [http : BOOLEAN, autoPost : BOOLEAN, requireApproval : BOOLEAN]

Application == [remittance : Remittances, content : Contents]

ASSUME NoApplicationIsNone == NoApplication \notin Application

CashPhases == {"sent", "close", "file", "answered"}

CashCall == [caller : Callers, rem : Remittances, content : Contents,
             phase : CashPhases, application : Application \cup {NoApplication},
             live : BOOLEAN]

VARIABLES
    settings,          \* the frozen Settings; http: ERP_MODE=http, the service
    openItems,         \* the items still open
    cashByRemittance,  \* MockERP._cash_by_remittance, and _cash_by_key with it
    timesClosed,       \* how many applications closed an item
    cashCalls          \* apply_cash calls the ERP has not finished with

erpVars == <<settings, openItems, cashByRemittance, timesClosed, cashCalls>>

ErpTypeOK ==
    /\ settings \in Configurations
    /\ openItems \subseteq Items
    /\ cashByRemittance \in [Remittances -> Application \cup {NoApplication}]
    /\ timesClosed \in [Items -> Nat]
    /\ cashCalls \subseteq CashCall

ErpInit ==
    /\ settings \in Configurations
    /\ openItems = Items
    /\ cashByRemittance = [m \in Remittances |-> NoApplication]
    /\ timesClosed = [x \in Items |-> 0]
    /\ cashCalls = {}

\* The sum runs over the references, so a repeated one counts twice.
Expected(refs) == SumFunction([n \in DOMAIN refs |-> ItemFacts[refs[n]].amount])

\* Every reference is an open item of the customer in this currency, and the
\* amount is exactly theirs: what match_remittance asks of open_items, and
\* what apply_cash asks again.
Applicable(content, open) ==
    /\ content.refs # <<>>
    /\ \A x \in Range(content.refs) :
         /\ x \in open
         /\ ItemFacts[x].customer = content.customer
         /\ ItemFacts[x].currency = content.currency
    /\ Expected(content.refs) = content.amount

\* The call's handler returns; the answer to a caller that gave up is dropped.
Answer(c, application) ==
    cashCalls' = (cashCalls \ {c}) \cup
        {d \in {[c EXCEPT !.phase = "answered", !.application = application]} : d.live}

CashReplay(c) ==
    /\ c.phase = "sent"
    /\ cashByRemittance[c.rem] # NoApplication
    /\ Answer(c, cashByRemittance[c.rem])
    /\ UNCHANGED <<settings, openItems, cashByRemittance, timesClosed>>

CashRefuse(c) ==
    /\ c.phase = "sent"
    /\ cashByRemittance[c.rem] = NoApplication
    /\ ~Applicable(c.content, openItems)
    /\ Answer(c, NoApplication)
    /\ UNCHANGED <<settings, openItems, cashByRemittance, timesClosed>>

\* Mutant: the ERP takes the workflow's word for the items.
CashCheckNothing(c) ==
    /\ c.phase = "sent"
    /\ cashByRemittance[c.rem] = NoApplication
    /\ cashCalls' = (cashCalls \ {c}) \cup {[c EXCEPT !.phase = "close"]}
    /\ UNCHANGED <<settings, openItems, cashByRemittance, timesClosed>>

\* Mutant: the remittance is not looked up before.
CashCheckAgain(c) ==
    /\ c.phase = "sent"
    /\ Applicable(c.content, openItems)
    /\ cashCalls' = (cashCalls \ {c}) \cup {[c EXCEPT !.phase = "close"]}
    /\ UNCHANGED <<settings, openItems, cashByRemittance, timesClosed>>

CashCheck(c) ==
    /\ c.phase = "sent"
    /\ cashByRemittance[c.rem] = NoApplication
    /\ Applicable(c.content, openItems)
    /\ cashCalls' = (cashCalls \ {c}) \cup {[c EXCEPT !.phase = "close"]}
    /\ UNCHANGED <<settings, openItems, cashByRemittance, timesClosed>>

CashClose(c) ==
    /\ c.phase = "close"
    /\ openItems' = openItems \ Range(c.content.refs)
    /\ timesClosed' = [x \in Items |->
         timesClosed[x] + (IF x \in Range(c.content.refs) THEN 1 ELSE 0)]
    /\ cashCalls' = (cashCalls \ {c}) \cup {[c EXCEPT !.phase = "file"]}
    /\ UNCHANGED <<settings, cashByRemittance>>

NewApplication(c) == [remittance |-> c.rem, content |-> c.content]

CashFile(c) ==
    /\ c.phase = "file"
    /\ cashByRemittance' = [cashByRemittance EXCEPT ![c.rem] = NewApplication(c)]
    /\ Answer(c, NewApplication(c))
    /\ UNCHANGED <<settings, openItems, timesClosed>>

CashStep(c) ==
    \/ CashReplay(c)
    \/ CashRefuse(c)
    \/ CashCheck(c)
    \/ CashClose(c)
    \/ CashFile(c)
=============================================================================
