---------------------------- MODULE MCVendorBill ----------------------------
(***************************************************************************)
(* Two invoices of two suppliers that use the same number: two calls about *)
(* the first one, one about the second.                                    *)
(***************************************************************************)
EXTENDS VendorBill, TLC

CONSTANTS i1, i2, r1, r2, r3

MCInvoices == {i1, i2}
MCRef      == [i \in MCInvoices |-> "INV-1"]
MCRequests == {r1, r2, r3}
MCTarget   == [r \in MCRequests |-> IF r = r3 THEN i2 ELSE i1]

Symmetry == Permutations({r1, r2})
=============================================================================
