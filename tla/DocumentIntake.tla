---------------------------- MODULE DocumentIntake ----------------------------
(***************************************************************************)
(* How documents become invoices and remittances: the FinanceOrchestrator  *)
(* (src/app/orchestrator.py) behind the mailbox poll and the two upload    *)
(* endpoints (src/app/api.py).                                             *)
(*                                                                         *)
(* A poll takes unread messages one attachment after another and never     *)
(* marks one as read, so the next poll takes them again under new ids.     *)
(* What match() and run() do to a saved document is reduced to one thing:  *)
(* whether it passes the controls, the search for duplicates among them,   *)
(* and what reviewers do to whether they rejected it, or changed what that *)
(* search compares.  What follows from a passed match is in APInvoice and  *)
(* ARRemittance.                                                           *)
(***************************************************************************)
EXTENDS Naturals, Sequences, FiniteSets, FiniteSetsExt, SequencesExt

CONSTANTS
    Documents,     \* the contents there are
    Deterministic, \* Deterministic[d]: the classifier's kind of d
    Malformed,     \* the documents whose extraction raises ValueError
    Structured,    \* the remittances that clients send as fields, not as files
    Sound,         \* the invoices whose content passes the controls
    DocKey,        \* DocKey[d]: what the search for duplicates compares: vendor
                   \* and number, or customer and reference
    Corrections,   \* the customers and references that reviewers give
    Attachments,   \* Attachments[m]: the documents attached to message m
    PollSize,      \* max_messages
    Hints,         \* the workflow_hint values of uploads, "unknown" for none
    Workers,       \* the API threads
    Ids,           \* bound: the invoices and remittances there can be
    NoEntity       \* the None of get_invoice and get_remittance

Messages == DOMAIN Attachments

Kinds == {"ap_invoice", "ar_remittance", "unknown"}

Keys == {DocKey[d] : d \in Documents} \cup Corrections

\* key: the vendor and number, or customer and reference, that it has now.
Entity == [doc : Documents, kind : Kinds \ {"unknown"}, key : Keys]

ASSUME IntakeConstants ==
    /\ Documents # {} /\ Ids # {} /\ NoEntity \notin Entity
    /\ IsFiniteSet(Messages)
    /\ Deterministic \in [Documents -> Kinds]
    /\ Malformed \subseteq Documents
    /\ Structured \subseteq Documents
    /\ Sound \subseteq Documents
    /\ DOMAIN DocKey = Documents
    /\ \A m \in Messages : Attachments[m] \in Seq(Documents)
    /\ PollSize \in Nat \ {0}
    /\ Hints \subseteq Kinds

Uploads == {"ingest_document", "ingest_invoice"}

Routes == {"poll", "ingest_remittance", "match_po", "decide"} \cup Uploads

Steps == {"idle", "next", "classify", "extract", "match", "conclude", "decide"}

VARIABLES
    unread,   \* the messages a poll would fetch
    entities, \* the repository's invoices and remittances
    filed,    \* documents with a classification_review record, or an
              \* attachment_rejected or extraction_failed event
    work,     \* the API threads
    rejected, \* ids whose status is REJECTED
    outcomes, \* outcomes[e]: the results that matches of the invoice e have
              \* had, or the one the remittance e has
    repeats,  \* ids saved when another of the same key and kind existed
    overtaken \* remittances a decision on which was written while another thread
              \* decided or ran them

entityVars == <<entities, rejected, outcomes, repeats, overtaken>>
vars == <<unread, filed, work, entityVars>>

\* mail and queue: the messages, and the attachments of the current one, still to
\* come; fetched: all the attachments there were; hint: the caller's
\* workflow_hint; kind: the classification; id: the saved document; passed: what
\* the match of a remittance has found, before it is saved.
Work == [pc : Steps, route : Routes, mail : Seq(Messages), queue : Seq(Documents),
         fetched : SUBSET Documents, doc : Documents, hint : Kinds,
         kind : Kinds, id : Ids, passed : BOOLEAN]

TypeOK ==
    /\ unread \subseteq Messages
    /\ entities \in [Ids -> Entity \cup {NoEntity}]
    /\ filed \subseteq Documents
    /\ work \in [Workers -> Work]
    /\ rejected \subseteq Ids
    /\ outcomes \in [Ids -> SUBSET BOOLEAN]
    /\ repeats \subseteq Ids
    /\ overtaken \subseteq Ids

IdleWork ==
    [pc |-> "idle", route |-> "poll", mail |-> <<>>, queue |-> <<>>, fetched |-> {},
     doc |-> CHOOSE d \in Documents : TRUE, hint |-> "unknown",
     kind |-> "unknown", id |-> CHOOSE e \in Ids : TRUE, passed |-> FALSE]

Init ==
    /\ unread = Messages
    /\ entities = [e \in Ids |-> NoEntity]
    /\ filed = {}
    /\ work = [w \in Workers |-> IdleWork]
    /\ rejected = {}
    /\ outcomes = [e \in Ids |-> {}]
    /\ repeats = {}
    /\ overtaken = {}

Exists(e) == entities[e] # NoEntity
IsInvoice(e) == Exists(e) /\ entities[e].kind = "ap_invoice"
IsRemittance(e) == Exists(e) /\ entities[e].kind = "ar_remittance"

At(w, pc) == work[w].pc = pc
Become(w, state) == work' = [work EXCEPT ![w] = state]

\* One document is done with: a poll goes on, an upload answers.  What the
\* thread kept of the document is forgotten.
NextDocument(w) ==
    [IdleWork EXCEPT !.pc = IF work[w].route = "poll" THEN "next" ELSE "idle",
                     !.mail = work[w].mail, !.queue = work[w].queue,
                     !.fetched = work[w].fetched]

---------------------------------------------------------------------------
(* The mailbox and the uploads.                                            *)

\* How many of these documents may be saved: extraction refuses the others.
Savable(queue) == Len(SelectSeq(queue, LAMBDA doc : doc \notin Malformed))

AttachedTo(mail) ==
    MapThenSumSet(LAMBDA n : Savable(Attachments[mail[n]]), DOMAIN mail)

\* The documents a thread may still save.
Pending(w) ==
    AttachedTo(work[w].mail) + Savable(work[w].queue)
    + (IF work[w].pc \in {"classify", "extract"} THEN 1 ELSE 0)

Unused == {e \in Ids : ~Exists(e)}

\* Bound: a request starts only while Ids suffice for all that it may save.
IdsSuffice(n) == n + MapThenSumSet(Pending, Workers) <= Cardinality(Unused)

\* fetch_unread: the unread messages in the mailbox's order, PollSize at most.
FetchedBy(batch) ==
    IF Len(batch) <= PollSize THEN batch ELSE [n \in 1 .. PollSize |-> batch[n]]

\* ingest_document and ingest_invoice run in the event loop itself: while one
\* does, no other request is accepted, though threads already started go on.
EventLoopFree ==
    \A w \in Workers : work[w].route \in Uploads => At(w, "idle")

Admits(w, n) == At(w, "idle") /\ EventLoopFree /\ IdsSuffice(n)

StartPoll(w, batch) ==
    LET mail == FetchedBy(batch) IN
    /\ Admits(w, AttachedTo(mail))
    /\ Become(w, [IdleWork EXCEPT
                    !.pc = "next", !.mail = mail,
                    !.fetched = UNION {ToSet(Attachments[mail[n]]) : n \in DOMAIN mail}])
    /\ UNCHANGED <<unread, filed, entityVars>>

NextMessage(w) ==
    LET mail == work[w].mail IN
    /\ At(w, "next")
    /\ work[w].queue = <<>> /\ mail # <<>>
    /\ Become(w, [work[w] EXCEPT !.queue = Attachments[Head(mail)], !.mail = Tail(mail)])
    /\ UNCHANGED <<unread, filed, entityVars>>

NextAttachment(w) ==
    LET queue == work[w].queue IN
    /\ At(w, "next")
    /\ queue # <<>>
    /\ Become(w, [work[w] EXCEPT !.pc = "classify", !.doc = Head(queue),
                                 !.queue = Tail(queue)])
    /\ UNCHANGED <<unread, filed, entityVars>>

Fetched(w) == At(w, "next") /\ work[w].mail = <<>> /\ work[w].queue = <<>>

\* The poll answers.
EndPoll(w) ==
    /\ Fetched(w)
    /\ Become(w, IdleWork)
    /\ UNCHANGED <<unread, filed, entityVars>>

StartUpload(w, route, doc, hint) ==
    /\ Admits(w, 1)
    /\ Become(w, [IdleWork EXCEPT !.pc = "classify", !.route = route,
                                  !.doc = doc, !.hint = hint])
    /\ UNCHANGED <<unread, filed, entityVars>>

\* /ingest-remittance: there is nothing to classify, and nothing to extract that
\* the request model has not accepted.
StartRemittance(w, doc) ==
    /\ Admits(w, 1)
    /\ doc \notin Malformed
    /\ Become(w, [IdleWork EXCEPT !.pc = "extract", !.route = "ingest_remittance",
                                  !.doc = doc, !.kind = "ar_remittance"])
    /\ UNCHANGED <<unread, filed, entityVars>>

\* The owner of the mailbox opens a message; the program never does.
MarkRead(m) ==
    /\ m \in unread
    /\ unread' = unread \ {m}
    /\ UNCHANGED <<filed, work, entityVars>>

---------------------------------------------------------------------------
(* ingest() and ingest_only(): the nodes of the parent graph.              *)

\* Mutant: the handler of a ValueError is outside the loop.
FileAndStop(w) ==
    /\ filed' = filed \cup {work[w].doc}
    /\ Become(w, [NextDocument(w) EXCEPT !.mail = <<>>, !.queue = <<>>])

\* A record of the document is all there will be: it goes to classification
\* review, or a ValueError refuses it; a poll takes the next one.
File(w) ==
    /\ filed' = filed \cup {work[w].doc}
    /\ Become(w, NextDocument(w))

DeterministicKind(w) ==
    IF work[w].hint # "unknown" THEN work[w].hint ELSE Deterministic[work[w].doc]

\* What _classify_document leaves in document.kind; supervised is the kind
\* the supervisor's action stands for.
Classification(found, supervised) ==
    IF found \in {"unknown", supervised} THEN supervised ELSE "unknown"

\* Mutant: an unclassified document is extracted and saved.
ContinuesAlways(w, kind) == TRUE

\* ingest_only refuses what is not of the kind it expects.
Continues(w, kind) ==
    IF work[w].route = "ingest_invoice" THEN kind = "ap_invoice" ELSE kind # "unknown"

Classify(w, supervised) ==
    LET kind == Classification(DeterministicKind(w), supervised) IN
    /\ At(w, "classify")
    /\ IF Continues(w, kind)
       THEN /\ Become(w, [work[w] EXCEPT !.kind = kind, !.pc = "extract"])
            /\ UNCHANGED filed
       ELSE File(w)
    /\ UNCHANGED <<unread, entityVars>>

ExtractionFails(w) ==
    /\ At(w, "extract")
    /\ work[w].doc \in Malformed
    /\ File(w)
    /\ UNCHANGED <<unread, entityVars>>

SameKey(e, key, kind) ==
    /\ Exists(e)
    /\ entities[e].kind = kind
    /\ entities[e].key = key

\* Ids are drawn at random and never drawn twice: any unused one will do.  There
\* is one as long as IdsSuffice let the request start.
NewId == CHOOSE e \in Unused : TRUE

\* The document is extracted, and ingest() of its workflow saves it.
Save(w) ==
    LET e == NewId
        doc == work[w].doc
        kind == work[w].kind IN
    /\ At(w, "extract")
    /\ doc \notin Malformed
    /\ Unused # {}
    /\ entities' = [entities EXCEPT ![e] =
                      [doc |-> doc, kind |-> kind, key |-> DocKey[doc]]]
    /\ repeats' = IF \E f \in Ids : SameKey(f, DocKey[doc], kind)
                  THEN repeats \cup {e} ELSE repeats
    /\ Become(w, IF work[w].route = "ingest_invoice" THEN NextDocument(w)
                 ELSE [work[w] EXCEPT !.pc = "match", !.id = e])
    /\ UNCHANGED <<unread, filed, rejected, outcomes, overtaken>>

\* Mutant: a rejected invoice counts as little as a rejected remittance.
DuplicateUnlessRejected(e) ==
    \E f \in Ids \ {e} :
        SameKey(f, entities[e].key, entities[e].kind) /\ f \notin rejected

\* Mutant: the search compares what the documents said when they arrived.
DuplicateAsReceived(e) ==
    \E f \in Ids \ {e} :
        /\ Exists(f) /\ entities[f].kind = entities[e].kind
        /\ DocKey[entities[f].doc] = DocKey[entities[e].doc]
        /\ entities[e].kind = "ar_remittance" => f \notin rejected

\* find_duplicate and find_duplicate_remittance.
Duplicate(e) ==
    \E f \in Ids \ {e} :
        /\ SameKey(f, entities[e].key, entities[e].kind)
        /\ entities[e].kind = "ar_remittance" => f \notin rejected

\* The match of a saved invoice.  What follows it may fail for good, and
\* post() inside match() may refuse a status that was changed meanwhile.
MatchInvoice(w) ==
    LET e == work[w].id
        passed == entities[e].doc \in Sound /\ ~Duplicate(e) IN
    /\ At(w, "match") /\ IsInvoice(e)
    /\ outcomes' = [outcomes EXCEPT ![e] = @ \cup {passed}]
    /\ \/ Become(w, NextDocument(w)) /\ UNCHANGED filed
       \/ Become(w, IdleWork) /\ UNCHANGED filed
       \/ passed /\ work[w].route # "match_po" /\ File(w)
    /\ UNCHANGED <<unread, entities, rejected, repeats, overtaken>>

\* match() refuses an invoice that was settled after another match of it.
MatchRefused(w) ==
    /\ At(w, "match")
    /\ IsInvoice(work[w].id)
    /\ outcomes[work[w].id] # {}
    /\ \/ /\ work[w].route = "match_po"
          /\ Become(w, IdleWork)
          /\ UNCHANGED filed
       \/ work[w].route # "match_po" /\ File(w)
    /\ UNCHANGED <<unread, entityVars>>

\* The run of a remittance: suits says what match_remittance finds against the
\* open items of the moment.
SearchRemittance(w, suits) ==
    /\ At(w, "match") /\ IsRemittance(work[w].id)
    /\ Become(w, [work[w] EXCEPT !.pc = "conclude",
                                 !.passed = suits /\ ~Duplicate(work[w].id)])
    /\ UNCHANGED <<unread, filed, entityVars>>

\* Its status and result are saved; what follows may fail for good.
Conclude(w) ==
    LET e == work[w].id IN
    /\ At(w, "conclude")
    /\ outcomes' = [outcomes EXCEPT ![e] = {work[w].passed}]
    /\ rejected' = rejected \ {e}
    /\ Become(w, NextDocument(w)) \/ Become(w, IdleWork)
    /\ UNCHANGED <<unread, filed, entities, repeats, overtaken>>

\* An ERPError, an error of the agent runtime, or any other exception: the
\* request ends, a poll with all it had still to fetch.
Fails(w) ==
    /\ work[w].pc \in {"classify", "extract", "match", "conclude", "decide"}
    /\ Become(w, IdleWork)
    /\ UNCHANGED <<unread, filed, entityVars>>

---------------------------------------------------------------------------
(* What clients and reviewers do to a saved document.                      *)

\* /match-po.
StartMatch(w, e) ==
    /\ Admits(w, 0)
    /\ IsInvoice(e)
    /\ e \notin rejected
    /\ Become(w, [IdleWork EXCEPT !.pc = "match", !.route = "match_po", !.id = e])
    /\ UNCHANGED <<unread, filed, entityVars>>

\* Once matched an invoice may be in review, and be rejected there.
RejectInvoice(e) ==
    /\ IsInvoice(e)
    /\ outcomes[e] # {}
    /\ rejected' = rejected \cup {e}
    /\ UNCHANGED <<unread, filed, work, entities, outcomes, repeats, overtaken>>

\* decide() finds a remittance in review.  Which decisions its status and result
\* still admit is left to ARRemittance.
StartDecision(w, e) ==
    /\ Admits(w, 0)
    /\ IsRemittance(e)
    /\ outcomes[e] # {} /\ e \notin rejected
    /\ Become(w, [IdleWork EXCEPT !.pc = "decide", !.route = "decide", !.id = e])
    /\ UNCHANGED <<unread, filed, entityVars>>

\* A thread that decides or runs the remittance e.
Handles(w, e) == work[w].pc \in {"decide", "match", "conclude"} /\ work[w].id = e

\* Decisions are written without a look at what other threads have done since.
Decided(w) ==
    IF \E v \in Workers \ {w} : Handles(v, work[w].id)
    THEN overtaken \cup {work[w].id} ELSE overtaken

Reject(w) ==
    /\ At(w, "decide")
    /\ rejected' = rejected \cup {work[w].id}
    /\ overtaken' = Decided(w)
    /\ Become(w, IdleWork)
    /\ UNCHANGED <<unread, filed, entities, outcomes, repeats>>

\* MARK_MANUALLY_RESOLVED, or an APPROVE_APPLY that the ERP has answered.  The
\* result is saved with it, the one there is unless the remittance is overtaken.
Settle(w) ==
    /\ At(w, "decide")
    /\ rejected' = rejected \ {work[w].id}
    /\ overtaken' = Decided(w)
    /\ Become(w, IdleWork)
    /\ UNCHANGED <<unread, filed, entities, outcomes, repeats>>

\* RETRY_WITH_CORRECTION: the fields, the status EXTRACTED and no result; then
\* the remittance is run again.
Correct(w, key) ==
    LET e == work[w].id IN
    /\ At(w, "decide")
    /\ entities' = [entities EXCEPT ![e].key = key]
    /\ outcomes' = [outcomes EXCEPT ![e] = {}]
    /\ rejected' = rejected \ {e}
    /\ overtaken' = Decided(w)
    /\ Become(w, [work[w] EXCEPT !.pc = "match"])
    /\ UNCHANGED <<unread, filed, repeats>>

---------------------------------------------------------------------------

Step(w) ==
    \/ NextMessage(w)
    \/ NextAttachment(w)
    \/ EndPoll(w)
    \/ \E supervised \in Kinds : Classify(w, supervised)
    \/ ExtractionFails(w)
    \/ Save(w)
    \/ MatchInvoice(w)
    \/ MatchRefused(w)
    \/ \E suits \in BOOLEAN : SearchRemittance(w, suits)
    \/ Conclude(w)
    \/ Reject(w)
    \/ Settle(w)
    \/ \E key \in Corrections : Correct(w, key)
    \/ Fails(w)

NewRequest(w) ==
    \/ \E batch \in SetToSeqs(unread) : StartPoll(w, batch)
    \/ \E doc \in Documents : StartUpload(w, "ingest_invoice", doc, "ap_invoice")
    \/ \E doc \in Documents, hint \in Hints :
         StartUpload(w, "ingest_document", doc, hint)
    \/ \E doc \in Structured : StartRemittance(w, doc)
    \/ \E e \in Ids : StartMatch(w, e) \/ StartDecision(w, e)

Next ==
    \/ \E w \in Workers : Step(w) \/ NewRequest(w)
    \/ \E m \in Messages : MarkRead(m)
    \/ \E e \in Ids : RejectInvoice(e)

Spec == Init /\ [][Next]_vars

---------------------------------------------------------------------------
(* Properties.                                                             *)

Accounted(d) ==
    d \in filed \/ \E e \in Ids : Exists(e) /\ entities[e].doc = d

\* A poll that is not cut short has left a trace of every attachment it
\* fetched: an invoice, a remittance, a review, or a refusal (api.py:358-379).
PollAccounts ==
    \A w \in Workers : Fetched(w) => \A d \in work[w].fetched : Accounted(d)

\* An invoice that arrives again, by a later poll or an upload, after an
\* earlier copy was saved never passes a match: not even when the earlier copy
\* was rejected, was never matched, or is a different document of the same
\* vendor and number (repository.py:105-116, orchestrator.py:180-181).
RepeatNeverClears ==
    \A e \in repeats : entities[e].kind = "ap_invoice" => TRUE \notin outcomes[e]

\* Of two remittances that have the same customer and reference now, whether they
\* arrived with them or were corrected to them, at most one has passed its last
\* match, unless a reviewer rejected one: a rejected copy no longer stands in the
\* way of another (repository.py:188-207).  Excepted is a remittance a decision on
\* which was written while another thread decided or ran it: a run that searched
\* before a correction saves its result after it, and a rejection may be undone by
\* a decision that had found the remittance in review (ar_workflow.py:178-193,
\* 364-390).
OnePassesPerReference ==
    \A e \in Ids : \A f \in Ids \ {e} :
        (/\ IsRemittance(e) /\ SameKey(f, entities[e].key, "ar_remittance")
         /\ TRUE \in outcomes[e] /\ TRUE \in outcomes[f])
            => {e, f} \cap (rejected \cup overtaken) # {}
=============================================================================
