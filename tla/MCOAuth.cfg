SPECIFICATION FairSpec
CONSTANTS
  Daemons <- SyncAndProxy
  Proxies <- ProxyOnly
  MaxGrants = 3
  MaxFaults = 1
INVARIANT TypeOK
INVARIANT PostsUnspent
INVARIANT PostsWhenNeeded
INVARIANT OAuthInv
PROPERTY RowsGoForward
PROPERTY UnsavedSaved
PROPERTY Refreshed
