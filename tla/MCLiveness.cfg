SPECIFICATION FairSpec
CONSTANTS
  Contacts = {1}
  Projects = {1, 2}
  Invoices = {1}
  ProjectContact <- FirstContact
  InvoiceContact <- NoInvoiceContact
  InvoiceProject <- LastProject
  PageSize = 1
  Drift = 1
  ExitMax = 1
  IntMax = 2147483647
  VersionMax = 3
  MaxFaults = 2
  MaxCreates = 0
  MaxRemovals = 1
  MaxChanges = 1
PROPERTY GoneRowsPruned
PROPERTY LiveIdsStored
