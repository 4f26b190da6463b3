------------------------------- MODULE MatchRun -------------------------------
(***************************************************************************)
(* One run of match() from within: the agent's three structured decisions  *)
(* (src/app/agent_runtime.py), the retrieval of policy evidence            *)
(* (src/app/context.py) and the deterministic match of APMatching.  It is  *)
(* what APInvoice takes as RetrievePolicy, RunMatch and EvaluateMatch.     *)
(***************************************************************************)
EXTENDS APMatching, SequencesExt

CONSTANTS
    Policies,        \* POLICIES, in order
    Foreign,         \* a policy id that is none of them
    Citations,       \* the sets of policy ids an agent may name
    Settings,        \* the values of AUTO_POST_ENABLED and REQUIRE_HUMAN_APPROVAL
    Inputs           \* what match_invoice may be given

ASSUME RunConstants ==
    /\ Policies \in Seq(Range(Policies)) /\ Policies # <<>> /\ IsInjective(Policies)
    /\ Foreign \notin Range(Policies)
    /\ Citations \subseteq SUBSET (Range(Policies) \cup {Foreign})
    /\ Settings \subseteq [autoPost : BOOLEAN, requireApproval : BOOLEAN]
    /\ \A given \in Inputs :
          /\ given.invoice \in Invoice /\ given.receipt \in BOOLEAN /\ given.duplicate \in BOOLEAN
          /\ \A po \in given.po : po \in PurchaseOrder /\ IsFiniteSet(po.lines)

TopK == 2

Stages == {"retrieve_policy", "request_erp_match", "evaluate_match"}

Allowed == [stage \in Stages |->
    CASE stage = "retrieve_policy" -> {"RETRIEVE_POLICY"}
      [] stage = "request_erp_match" -> {"RUN_AP_MATCH"}
      [] stage = "evaluate_match" -> {"POST_PAYMENT_JOURNAL", "ESCALATE"}]

AgentActions == {"RETRIEVE_POLICY", "RUN_AP_MATCH", "POST_PAYMENT_JOURNAL", "ESCALATE"}

\* retrieval_query: missing, only spaces, of the agent's own, or query_seed.
Queries == {"none", "blank", "own", "seed"}

\* An object that fits the schema of DomainAgentDecision.
Decision == [action : AgentActions, query : Queries, policyIds : Citations]

\* What else a chat may come to: text that does not fit the schema, no runtime,
\* or a reply that cannot be read at all.
Errors == {"AgentProtocolError", "AIRuntimeUnavailableError", "ERPError"}
Outcomes == {"running", "post", "human-review", "post-payment-journal"} \cup Errors

VARIABLES
    pc,          \* "chat", "repair", "retrieve", "match", "route" or "done"
    stage,       \* the agent's stage
    chats,       \* how many chats this decision took
    index,       \* TRUE if the LlamaIndex index could be built
    query,       \* the query in use
    policies,    \* the policies retrieved, best first
    qualified,   \* those that met the similarity threshold, until the next decision
    cited,       \* the policy ids of the last decision
    input,       \* what match_invoice was given, as a set, until the next decision
    matched,     \* its result
    requested,   \* the agent's last action
    outcome

evidence == <<query, policies, qualified>>
vars == <<pc, stage, chats, index, evidence, cited, input, matched,
          requested, outcome>>

TypeOK ==
    /\ pc \in {"chat", "repair", "retrieve", "match", "route", "done"}
    /\ stage \in Stages
    /\ chats \in 0 .. 2
    /\ index \in BOOLEAN
    /\ query \in Queries
    /\ policies \in SeqOf(Range(Policies), TopK)
    /\ qualified \subseteq Range(Policies)
    /\ cited \subseteq Range(Policies)
    /\ input \subseteq Inputs
    /\ matched \in BOOLEAN
    /\ requested \in AgentActions
    /\ outcome \in Outcomes

Init ==
    /\ pc = "chat"
    /\ stage = "retrieve_policy"
    /\ chats = 0
    /\ index \in BOOLEAN
    /\ query = "none"
    /\ policies = <<>>
    /\ qualified = {}
    /\ cited = {}
    /\ input = {}
    /\ matched = FALSE
    /\ requested = "ESCALATE"
    /\ outcome = "running"

\* The run raises.
Fail(error) ==
    /\ outcome' = error
    /\ pc' = "done"
    /\ UNCHANGED <<stage, index, evidence, cited, input, matched, requested>>

---------------------------------------------------------------------------
(* OllamaAgentRuntime.decide and _structured.                              *)

\* The chat fails: an error of the transport, or a reply of unknown form.
ChatFails(error) ==
    /\ pc \in {"chat", "repair"}
    /\ error \in {"AgentProtocolError", "AIRuntimeUnavailableError"}
    /\ Fail(error)
    /\ UNCHANGED chats

\* The object does not fit the schema: one repair, then an error.
Malformed ==
    \/ /\ pc = "chat"
       /\ pc' = "repair" /\ chats' = 1
       /\ UNCHANGED <<stage, index, evidence, cited, input, matched,
                      requested, outcome>>
    \/ /\ pc = "repair"
       /\ chats' = 2
       /\ Fail("AgentProtocolError")

\* The stage's allow-list, and a query where one is needed.
Acceptable(decision) ==
    /\ decision.action \in Allowed[stage]
    /\ stage = "retrieve_policy" => decision.query # "none"

\* Mutant: every id the agent names is kept.
CitedAsNamed(decision) == decision.policyIds

\* Only ids the agent was supplied with are kept.
Cited(decision) == decision.policyIds \cap Range(policies)

Decide(decision) ==
    /\ pc \in {"chat", "repair"}
    /\ IF Acceptable(decision)
       THEN /\ pc' = CASE stage = "retrieve_policy" -> "retrieve"
                       [] stage = "request_erp_match" -> "match"
                       [] stage = "evaluate_match" -> "route"
            /\ query' = IF stage = "retrieve_policy" THEN decision.query ELSE "none"
            /\ cited' = Cited(decision)
            /\ requested' = decision.action
            /\ qualified' = {} /\ input' = {}
            /\ UNCHANGED <<stage, index, policies, matched, outcome>>
       ELSE Fail("AgentProtocolError")
    /\ chats' = 0

NextStage(next) == stage' = next /\ pc' = "chat" /\ cited' = {}

---------------------------------------------------------------------------
(* ContextRetriever.retrieve_agent_query.                                  *)

\* Mutant: reciprocal ranks without the constant.
RankConstant0 == 0

\* The k of reciprocal rank fusion.
RankConstant == 60

Place(ranking, policy) == CHOOSE n \in DOMAIN ranking : ranking[n] = policy

\* A policy's score is the sum of 1 / (k + place) over the rankings that have
\* it: a fraction, as numerator and denominator.
Score(rankings, policy) ==
    LET In == {n \in DOMAIN rankings : policy \in Range(rankings[n])}
        At(n) == RankConstant + Place(rankings[n], policy)
    IN  CASE In = {} -> <<0, 1>>
          [] In = {1} -> <<1, At(1)>>
          [] In = {2} -> <<1, At(2)>>
          [] In = {1, 2} -> <<At(1) + At(2), At(1) * At(2)>>

\* Of two policies with the same score the first of POLICIES comes first.
Precedes(rankings, p, q) ==
    LET a == Score(rankings, p)
        b == Score(rankings, q)
    IN  \/ a[1] * b[2] > b[1] * a[2]
        \/ a[1] * b[2] = b[1] * a[2] /\ Place(Policies, p) < Place(Policies, q)

\* How many policies come before this one.
Rank(rankings, policy) ==
    Cardinality({p \in Range(Policies) : Precedes(rankings, p, policy)})

\* The first TopK policies in that order.
Fuse(rankings) ==
    [n \in (1 .. TopK) \cap DOMAIN Policies |->
        CHOOSE policy \in Range(Policies) : Rank(rankings, policy) = n - 1]

\* The semantic ranking holds what meets the threshold; the lexical one holds
\* everything.
Rankings == {ranking \in SeqOf(Range(Policies), Len(Policies)) : IsInjective(ranking)}
FullRankings == {ranking \in Rankings : Len(ranking) = Len(Policies)}

\* retrieve_with_ids: no policy meets the threshold, or the rankings are fused.
Retrieved(semantic, lexical) ==
    IF ~index THEN Fuse(<<lexical>>)
    ELSE IF semantic = <<>> THEN <<>>
    ELSE Fuse(<<semantic, lexical>>)

\* The run goes on with what was retrieved.
Supply(found, semantic) ==
    /\ policies' = found
    /\ qualified' = IF index THEN Range(semantic) ELSE Range(found)
    /\ query' = "none"
    /\ NextStage("request_erp_match")
    /\ UNCHANGED <<chats, index, input, matched, requested, outcome>>

FallBack ==
    /\ query' = "seed"
    /\ UNCHANGED <<pc, stage, chats, index, policies, qualified, cited, input,
                   matched, requested, outcome>>

\* Mutant: whatever the fallback finds is accepted.
RetrieveAnyway(semantic, lexical) ==
    LET found == Retrieved(semantic, lexical) IN
    /\ pc = "retrieve"
    /\ \/ (found # <<>> \/ query = "seed") /\ Supply(found, semantic)
       \/ found = <<>> /\ query = "own" /\ FallBack

\* An empty result is retried once with the seed; a second one fails closed.
Retrieve(semantic, lexical) ==
    LET found == Retrieved(semantic, lexical) IN
    /\ pc = "retrieve"
    /\ \/ query \in {"own", "seed"} /\ found # <<>> /\ Supply(found, semantic)
       \/ query = "own" /\ found = <<>> /\ FallBack
       \/ query = "seed" /\ found = <<>> /\ Fail("AgentProtocolError") /\ UNCHANGED chats

\* A blank query, or no embedding for one.
RetrievalFails ==
    /\ pc = "retrieve"
    /\ \/ query = "blank" /\ Fail("AgentProtocolError")
       \/ query # "blank" /\ index /\ Fail("AIRuntimeUnavailableError")
    /\ UNCHANGED chats

---------------------------------------------------------------------------
(* _graph_match, _route_after_match, _graph_finalize.                      *)

Match(given) ==
    /\ pc = "match"
    /\ input' = {given}
    /\ matched' = (Variances(given.invoice, given.po, given.receipt, given.duplicate) = {})
    /\ NextStage("evaluate_match")
    /\ UNCHANGED <<chats, index, evidence, requested, outcome>>

LookupFails ==
    /\ pc = "match"
    /\ Fail("ERPError")
    /\ UNCHANGED chats

AutoActionPermitted(settings) ==
    matched /\ settings.autoPost /\ ~settings.requireApproval

\* The settings are frozen and read here only.
Route(settings) ==
    /\ pc = "route"
    /\ outcome' =
         IF requested = "POST_PAYMENT_JOURNAL" /\ AutoActionPermitted(settings) THEN "post"
         ELSE IF ~matched \/ settings.requireApproval
                 \/ (settings.autoPost /\ requested = "ESCALATE") THEN "human-review"
         ELSE "post-payment-journal"
    /\ pc' = "done"
    /\ UNCHANGED <<stage, chats, index, evidence, cited, input, matched,
                   requested>>

\* The run is over.
Terminated == pc = "done" /\ UNCHANGED vars

Next ==
    \/ \E error \in Errors : ChatFails(error)
    \/ Malformed
    \/ \E decision \in Decision : Decide(decision)
    \/ \E semantic \in Rankings, lexical \in FullRankings : Retrieve(semantic, lexical)
    \/ RetrievalFails
    \/ \E given \in Inputs : Match(given)
    \/ LookupFails
    \/ \E settings \in Settings : Route(settings)
    \/ Terminated

Spec == Init /\ [][Next]_vars

---------------------------------------------------------------------------
(* Properties.                                                             *)

\* Rank fusion never lets a policy below the similarity threshold displace one
\* that meets it: what is retrieved begins with the policies that qualify
\* (context.py:83-113).
QualifiedFirst ==
    qualified # {} => \A n \in DOMAIN policies :
        \/ policies[n] \in qualified
        \/ qualified \subseteq {policies[k] : k \in 1 .. n - 1}

\* No invoice is matched or routed, and no decision cites anything, without
\* policy evidence retrieved in this run, whatever the agent answers
\* (context.py:118-135, agent_runtime.py:262-296).
NeverUngoverned ==
    /\ stage # "retrieve_policy" => policies # <<>>
    /\ cited \subseteq Range(policies)

NamesEachLineOnce(invoice) ==
    \A m, n \in DOMAIN invoice.lines :
        LineNumber(invoice, m) = LineNumber(invoice, n) => m = n

\* The quantity an invoice asks for of a PO line.
Quantity(invoice, line) ==
    SumOf([n \in {m \in DOMAIN invoice.lines : LineNumber(invoice, m) = line.number} |->
             invoice.lines[n].quantity])

WithinReceipt(invoice, po) == \A line \in po.lines : Quantity(invoice, line) <= line.received

\* 100 times the value of the ordered lines an invoice names, with the
\* tolerance on quantities.
OrderedValue(invoice, po) ==
    SumOf([line \in {l \in po.lines : \E n \in DOMAIN invoice.lines :
                                          LineNumber(invoice, n) = l.number} |->
             line.quantity * line.unitPrice * (100 + Policy.quantity)])

\* What a matched invoice charges is bounded by the order alone: the value of
\* the lines it names, the tolerances, the shares of tax and freight, and the
\* rounding of two sums.  A three-way match stays within what was received.
\* Both for invoices that name each PO line at most once (matching.py:89-195).
PaysWithinOrder ==
    \A given \in input : matched /\ NamesEachLineOnce(given.invoice) =>
        \A po \in given.po :
            /\ given.receipt => WithinReceipt(given.invoice, po)
            /\ 1000000 * (given.invoice.total - 10) <=
                 OrderedValue(given.invoice, po)
                   * (100 + Policy.total) * (100 + Policy.tax + Policy.freight)

\* The result does not depend on the order of lines that name their PO line.
LineOrderIrrelevant ==
    \A given \in input :
        (\A n \in DOMAIN given.invoice.lines : given.invoice.lines[n].poLine # 0) =>
            matched = (Variances([given.invoice EXCEPT !.lines = Reverse(@)],
                                 given.po, given.receipt, given.duplicate) = {})

\* A three-way match does not let the invoiced quantity exceed the goods received.
QuantityWithinReceipt ==
    \A given \in input : matched /\ given.receipt =>
        \A po \in given.po : WithinReceipt(given.invoice, po)
=============================================================================
