--------------------------- MODULE MCInventoryCache ---------------------------
(* InventoryCache for a few requests and upstreams.                        *)
EXTENDS InventoryCache

=============================================================================
