SPECIFICATION Spec
CONSTANTS
  Contacts = {}
  Projects = {1, 2, 3}
  Invoices = {1}
  ProjectContact <- FirstContact
  InvoiceContact <- NoInvoiceContact
  InvoiceProject <- FirstProject
  PageSize = 2
  Drift = 1
  ExitMax = 1
  IntMax = 2
  VersionMax = 3
  MaxFaults = 2
  MaxCreates = 1
  MaxRemovals = 1
  MaxChanges = 1
INVARIANT TypeOK
INVARIANT IndInv
INVARIANT ParentCachedHasRow
PROPERTY InvoicePruneSafe
PROPERTY PhaseCoversList
PROPERTY ProjectPruneSparesListed
PROPERTY ImplementsMirror
