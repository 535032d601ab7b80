--------------------------- MODULE MCPluginPage ---------------------------
(* Small instances of PluginPage for TLC.                                  *)
EXTENDS PluginPage

CONSTANTS right, wrong

Config(url, api) == [url |-> url, api |-> api]
At(origin, path) == [abs |-> TRUE, origin |-> origin, path |-> path]

\* No configuration, a wrong one, a plain address that is refused, the listener's
\* address and a remote one.
SomeConfigs ==
    {Config(None, None), Config(Invalid, None), Config(None, "http"),
     Config(At("127.0.0.1", "none"), None), Config(At("https", "default"), None)}

\* A workstation with the listener beside CPA, and a container that is told its
\* sidecar, behind a reverse proxy with the dashboard.
SomeHosts ==
    {[local |-> TRUE, runtime |-> None, dashboards |-> {"127.0.0.1"}],
     [local |-> FALSE, runtime |-> "service", dashboards |-> {"cpa"}]}
=============================================================================
