--------------------------- MODULE MCRequestQueue ---------------------------
(* Small instances of RequestQueue: two of the four data threads of main.c.   *)
EXTENDS RequestQueue

DataThreads == {"chain_thread", "random_item_thread"}
=============================================================================
