------------------------------ MODULE CashControl ------------------------------
(***************************************************************************)
(* What accounts receivable promises, without saying how: cash is applied  *)
(* in one step, once for a remittance, to open items that it pays exactly, *)
(* and on evidence about the fields it has at that moment.  ARRemittance   *)
(* implements it while requests come one at a time.                        *)
(***************************************************************************)
CONSTANTS
    Remittances,
    Contents,     \* the fields a remittance can have
    Items,
    Named,        \* Named[k]: what fields k name as their items
    Exact         \* the fields whose items, all of them items of their customer
                  \* and currency, come to exactly their amount

Evidence == {"match", "approval"}

VARIABLES
    gated,        \* TRUE if every application needs a reviewer
    fields,       \* fields[m]: what remittance m says
    evidence,     \* evidence[m]: what speaks for these fields
    open,         \* the items that have not been paid
    applied       \* applied[m]: the fields m was applied under, as a set

vars == <<gated, fields, evidence, open, applied>>

Init ==
    /\ gated \in BOOLEAN
    /\ fields \in [Remittances -> Contents]
    /\ evidence = [m \in Remittances |-> {}]
    /\ open = Items
    /\ applied = [m \in Remittances |-> {}]

\* A remittance arrives or is corrected: nothing speaks for it yet.
Change(m, k) ==
    /\ fields' = [fields EXCEPT ![m] = k]
    /\ evidence' = [evidence EXCEPT ![m] = {}]
    /\ UNCHANGED <<gated, open, applied>>

\* A match or a reviewer says something about a remittance.
Learn(m, found) ==
    /\ evidence' = [evidence EXCEPT ![m] = @ \cup found]
    /\ UNCHANGED <<gated, fields, open, applied>>

Authorised(m) ==
    /\ "match" \in evidence[m]
    /\ gated => "approval" \in evidence[m]

Apply(m) ==
    LET k == fields[m] IN
    /\ applied[m] = {}
    /\ Authorised(m)
    /\ k \in Exact
    /\ Named[k] \subseteq open
    /\ open' = open \ Named[k]
    /\ applied' = [applied EXCEPT ![m] = {k}]
    /\ UNCHANGED <<gated, fields, evidence>>

Next ==
    \E m \in Remittances :
        \/ \E k \in Contents : Change(m, k)
        \/ \E found \in SUBSET Evidence : Learn(m, found)
        \/ Apply(m)

Spec == Init /\ [][Next]_vars
=============================================================================
