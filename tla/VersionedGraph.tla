--------------------------- MODULE VersionedGraph ---------------------------
(***************************************************************************)
(* What the optimistic lock of an invoice promises: a row is a status and  *)
(* a version; every committed write moves the status along edges of the    *)
(* transition graph and adds one to the version for every edge walked.  So *)
(* no status is ever reached by an edge the graph lacks, and a version     *)
(* read earlier is still current exactly when nothing was written since.   *)
(***************************************************************************)
EXTENDS InvoiceStatus, Naturals

CONSTANT Invoices

VARIABLES status, version

gvars == <<status, version>>

(* The statuses one edge away from a set of statuses.                      *)
Beyond(S) == UNION {ValidTransitions[s] : s \in S}

GInit ==
  /\ status  = [i \in Invoices |-> "SUBMITTED"]
  /\ version = [i \in Invoices |-> 0]

(* One committed transaction: invoice i ends n edges further.              *)
Walk(i, ends, n) ==
  \E to \in ends :
    /\ status'  = [status EXCEPT ![i] = to]
    /\ version' = [version EXCEPT ![i] = @ + n]

(* The longest transaction is a re-analysis: out of SYSTEM_ERROR, through  *)
(* SUBMITTED and ANALYZING, to its verdict.                                *)
Move(i) ==
  \/ Walk(i, Beyond({status[i]}), 1)
  \/ Walk(i, Beyond(Beyond({status[i]})), 2)
  \/ Walk(i, Beyond(Beyond(Beyond({status[i]}))), 3)

(* The start-up sweep commits one edge for several invoices at once.       *)
Sweep(S) ==
  /\ \A i \in S : "SYSTEM_ERROR" \in ValidTransitions[status[i]]
  /\ status'  = [i \in Invoices |-> IF i \in S THEN "SYSTEM_ERROR" ELSE status[i]]
  /\ version' = [i \in Invoices |-> IF i \in S THEN version[i] + 1 ELSE version[i]]

GNext ==
  \/ \E i \in Invoices : Move(i)
  \/ \E S \in SUBSET Invoices : Sweep(S)

GSpec == GInit /\ [][GNext]_gvars
=============================================================================
