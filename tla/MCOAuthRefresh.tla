--------------------------- MODULE MCOAuthRefresh ---------------------------
(* Small instances of OAuthRefresh. *)
EXTENDS OAuthRefresh

SyncAndProxy == {"bx-sync", "bx-proxy"}
ProxyOnly == {"bx-proxy"}
SyncOnly == {"bx-sync"}
=============================================================================
