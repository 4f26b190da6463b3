----------------------------- MODULE MCAPInvoice -----------------------------
(***************************************************************************)
(* Small instances of APInvoice for TLC.  Each cfg picks its invoices, its *)
(* documents, the keys clients use and the configurations.                 *)
(***************************************************************************)
EXTENDS APInvoice, TLC

CONSTANTS i1, i2, i3, k1, k2, k3, a1, a2, a3, r1, r2

AllKeys == {k1, k2, k3, a1, a2, a3}
AutoKeyOf == i1 :> a1 @@ i2 :> a2 @@ i3 :> a3
OwnKeyOf == i1 :> k1 @@ i2 :> k2 @@ i3 :> k3

AutoKeys == [i \in Invoices |-> AutoKeyOf[i]]

\* Each client uses a key of its own for each invoice.
OwnKeys == [i \in Invoices |-> {OwnKeyOf[i]}]

\* One clean invoice whose goods have not been received: a two-way match
\* passes and a three-way match does not.
Unreceived == {"RECEIPT_SHORTFALL"}
OneFacts == [i \in Invoices |-> Unreceived]

CleanFacts == [i \in Invoices |-> {}]

MixedFacts == i1 :> Unreceived @@ i2 :> {"NO_PO_NUMBER"} @@ i3 :> {"PO_MISMATCH"}

SameDoc == [i \in Invoices |-> 1]
TwoDocs == i1 :> 1 @@ i2 :> 1 @@ i3 :> 2

Config(http, autoPost, requireApproval) ==
    [http |-> http, autoPost |-> autoPost, requireApproval |-> requireApproval]

AllConfigs == [http : BOOLEAN, autoPost : BOOLEAN, requireApproval : BOOLEAN]
DefaultConfig == {Config(FALSE, TRUE, FALSE)}

\* The ERP service, and no posts but those of clients.
ServiceConfig == {Config(TRUE, FALSE, FALSE)}

GatedConfig == {Config(TRUE, TRUE, TRUE)}
FairConfigs == DefaultConfig \cup GatedConfig

CallerSymmetry == Permutations(Callers)
=============================================================================
