SPECIFICATION Spec
CONSTANTS
  Daemons <- SyncOnly
  Proxies = {}
  MaxGrants = 3
  MaxFaults = 1
PROPERTY RowsNeverGoBack
