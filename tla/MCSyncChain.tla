---------------------------- MODULE MCSyncChain ----------------------------
(* References between the ids of the small instances of SyncChain. *)
EXTENDS SyncChain

NoContact == [p \in Projects |-> 0]
NoInvoiceContact == [i \in Invoices |-> 0]
NoProject == [i \in Invoices |-> 0]
FirstProject == [i \in Invoices |-> IF 1 \in Projects THEN 1 ELSE 0]
LastProject == [i \in Invoices |-> IF 2 \in Projects THEN 2 ELSE 0]
FirstContact == [i \in Projects |-> IF 1 \in Contacts THEN 1 ELSE 0]
=============================================================================
