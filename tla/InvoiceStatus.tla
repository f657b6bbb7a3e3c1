--------------------------- MODULE InvoiceStatus ---------------------------
(***************************************************************************)
(* The vocabulary shared by the lifecycle modules: the seven statuses of   *)
(* an invoice and the transition graph VALID_TRANSITIONS that both         *)
(* InvoiceService and ValidationService consult.  The English member names *)
(* of the enumerations stand for the French labels stored in the database. *)
(***************************************************************************)

Status == {"SUBMITTED", "ANALYZING", "TO_REVIEW", "VALIDATED",
           "VENDOR_BILL_CREATED", "REJECTED", "SYSTEM_ERROR"}

ValidTransitions ==
  [SUBMITTED           |-> {"ANALYZING", "SYSTEM_ERROR"},
   ANALYZING           |-> {"TO_REVIEW", "SYSTEM_ERROR"},
   TO_REVIEW           |-> {"VALIDATED", "REJECTED", "SYSTEM_ERROR"},
   VALIDATED           |-> {"VENDOR_BILL_CREATED", "SYSTEM_ERROR"},
   REJECTED            |-> {"SYSTEM_ERROR"},
   VENDOR_BILL_CREATED |-> {"SYSTEM_ERROR"},
   SYSTEM_ERROR        |-> {"SUBMITTED"}]

(* The statuses from which OcrService.process accepts to run.              *)
Analysable == {"SUBMITTED", "SYSTEM_ERROR"}

TaskState == {"PENDING", "RUNNING", "SUCCEEDED", "FAILED"}

AuditAction == {"VALIDATED", "CORRECTED", "REJECTED", "VENDOR_BILL_CREATED",
                "REPROCESSED", "TASK_INTERRUPTED"}
=============================================================================
