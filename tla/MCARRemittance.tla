---------------------------- MODULE MCARRemittance ----------------------------
(***************************************************************************)
(* Small instances of ARRemittance for TLC: two open items of one          *)
(* customer, and the remittances that can name them.                       *)
(***************************************************************************)
EXTENDS ARRemittance, TLC

CONSTANTS m1, m2, x1, x2, r1, r2

Item(amount) == [customer |-> "CUST-001", currency |-> "USD", amount |-> amount]
TwoItems == x1 :> Item(3) @@ x2 :> Item(1)

Says(reference, currency, amount, refs) ==
    [customer |-> "CUST-001", reference |-> reference, currency |-> currency,
     amount |-> amount, refs |-> refs]

AForX1 == Says("A", "USD", 3, <<x1>>)
AForX2 == Says("A", "USD", 1, <<x2>>)
BForBoth == Says("B", "USD", 4, <<x1, x2>>)
Partial == Says("C", "USD", 1, <<x1>>)
Repeated == Says("D", "USD", 2, <<x2, x2>>)

SerialContents == {AForX1, AForX2, BForBoth, Partial}
RaceContents == {AForX1, Repeated}

Config(http, autoPost, requireApproval) ==
    [http |-> http, autoPost |-> autoPost, requireApproval |-> requireApproval]

AllConfigs == [http : BOOLEAN, autoPost : BOOLEAN, requireApproval : BOOLEAN]
ServiceConfig == {Config(TRUE, TRUE, FALSE)}
DefaultConfig == {Config(FALSE, TRUE, FALSE)}

CallerSymmetry == Permutations(Callers)
=============================================================================
