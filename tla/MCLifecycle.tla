---------------------------- MODULE MCLifecycle ----------------------------
(***************************************************************************)
(* Instances of InvoiceLifecycle for TLC: the sets of endpoints each run   *)
(* offers, and the symmetry of the clients' calls.                         *)
(***************************************************************************)
EXTENDS InvoiceLifecycle, TLC

MCUiOps   == UiOps
MCSwapOps == CasOps \ {"retry"}
MCReviewOps  == {"process", "validate", "reject"}
MCProcessOps == {"process"}

Symmetry == Permutations(Requests)
=============================================================================
