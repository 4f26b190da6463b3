--------------------------- MODULE MCDocumentIntake ---------------------------
(***************************************************************************)
(* A mailbox with two messages: an invoice together with a malformed file, *)
(* and a document nobody can classify that is a copy of that invoice.      *)
(* Beside it a remittance is sent, and corrected to the reference the copy *)
(* has when it is taken for a remittance.                                  *)
(***************************************************************************)
EXTENDS DocumentIntake, TLC

CONSTANTS m1, m2, invoice, copy, remittance, broken, e1, e2, w1, w2

KindOf ==
    invoice :> "ap_invoice" @@ copy :> "unknown"
    @@ remittance :> "ar_remittance" @@ broken :> "ar_remittance"
KeyOf == invoice :> 1 @@ copy :> 1 @@ remittance :> 2 @@ broken :> 2
MailOf == m1 :> <<broken, invoice>> @@ m2 :> <<copy>>

WorkerSymmetry == Permutations(Workers)
=============================================================================
