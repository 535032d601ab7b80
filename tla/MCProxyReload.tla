--------------------------- MODULE MCProxyReload ---------------------------
(* The outbound transport with few requests and edits.                     *)
EXTENDS ProxyReload

CONSTANTS r1, r2
=============================================================================
