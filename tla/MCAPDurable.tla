----------------------------- MODULE MCAPDurable -----------------------------
(***************************************************************************)
(* A small instance of APDurable for TLC.                                  *)
(***************************************************************************)
EXTENDS APDurable, TLC

CONSTANTS i1, a1, r1, r2

\* Clients replay the automatic key, as the client in README.md:161 does.
AutoKeys == [i \in Invoices |-> a1]
SameKeys == [i \in Invoices |-> {a1}]

\* A two-way match passes and a three-way match does not.
Unreceived == [i \in Invoices |-> {"RECEIPT_SHORTFALL"}]

Service(requireApproval) ==
    [http |-> TRUE, autoPost |-> TRUE, requireApproval |-> requireApproval]

OpenAndGated == {Service(FALSE), Service(TRUE)}

CallerSymmetry == Permutations(Callers)
=============================================================================
