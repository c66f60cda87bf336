SPECIFICATION Spec
CONSTANTS
  Contacts = {}
  Projects = {1}
  Invoices = {1}
  ProjectContact <- NoContact
  InvoiceContact <- NoInvoiceContact
  InvoiceProject <- FirstProject
  PageSize = 1
  Drift = 1
  ExitMax = 1
  IntMax = 2147483647
  VersionMax = 5
  MaxFaults = 0
  MaxCreates = 0
  MaxRemovals = 1
  MaxChanges = 1
INVARIANT InvoiceCachedHasRow
