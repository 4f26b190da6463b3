---------------------------- MODULE PaymentControl ----------------------------
(***************************************************************************)
(* What accounts payable promises, without saying how: money leaves only   *)
(* on evidence, and evidence is never withdrawn.  APInvoice and APDurable  *)
(* implement it.                                                           *)
(***************************************************************************)
CONSTANTS
    Invoices,
    DocKey        \* DocKey[i]: the document i is a copy of

Evidence == {"clean_match", "human_approved", "human_rejected"}

VARIABLES
    gated,        \* TRUE if every payment needs a reviewer
    evidence,     \* evidence[i]: what is known about invoice i
    paid          \* the invoices that have been paid

vars == <<gated, evidence, paid>>

Init ==
    /\ gated \in BOOLEAN
    /\ evidence = [i \in Invoices |-> {}]
    /\ paid = {}

HumanApproved(i) == "human_approved" \in evidence[i]

Authorised(i) == HumanApproved(i) \/ (~gated /\ "clean_match" \in evidence[i])

\* A match or a reviewer says something about an invoice.
Learn(i, found) ==
    /\ evidence' = [evidence EXCEPT ![i] = @ \cup found]
    /\ UNCHANGED <<gated, paid>>

\* A copy of a paid document is paid only if a reviewer approved one of them.
NoUnreviewedCopy(i) ==
    \A j \in paid \ {i} : DocKey[j] = DocKey[i] => HumanApproved(i) \/ HumanApproved(j)

Pay(i) ==
    /\ Authorised(i)
    /\ NoUnreviewedCopy(i)
    /\ paid' = paid \cup {i}
    /\ UNCHANGED <<gated, evidence>>

Next ==
    \E i \in Invoices :
        \/ Pay(i)
        \/ \E found \in SUBSET Evidence : Learn(i, found)

Spec == Init /\ [][Next]_vars
=============================================================================
