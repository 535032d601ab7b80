---------------------------- MODULE MCDataPlane ----------------------------
(* The data plane's lookups with few requests, files and proxies.          *)
EXTENDS DataPlane

CONSTANTS r1, r2
=============================================================================
