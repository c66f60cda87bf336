SPECIFICATION Spec
CONSTANTS
  Contacts = {1, 2}
  Projects = {}
  Invoices = {}
  ProjectContact <- NoContact
  InvoiceContact <- NoInvoiceContact
  InvoiceProject <- NoProject
  PageSize = 1
  Drift = 4
  ExitMax = 10
  IntMax = 2147483647
  VersionMax = 1000
  MaxFaults = 4
  MaxCreates = 0
  MaxRemovals = 1
  MaxChanges = 1
PROPERTY ResumedContactsSpared
