--------------------------- MODULE CredentialVault ---------------------------
(***************************************************************************)
(* What store.Store promises about the credential of an identity, without  *)
(* files, formats, keys or indexes: a change takes effect as a whole or    *)
(* not at all; one that was acknowledged is kept whatever happens to the   *)
(* machine, one that was not may be found done or undone after the next    *)
(* start; and a start serves exactly what is kept.                         *)
(***************************************************************************)
CONSTANTS Ids, Contents, None

VARIABLES
    kept,     \* kept[i]: what is stored for identity i, or None
    may,      \* may[i]: what a restart may find for i
    served,   \* served[i]: what the running process answers for i
    up        \* the process is running

vars == <<kept, may, served, up>>

Nothing == [i \in Ids |-> None]

Init ==
    /\ kept \in [Ids -> Contents \cup {None}]
    /\ may = [i \in Ids |-> {kept[i]}]
    /\ served = Nothing
    /\ ~up

\* A change is asked for.  A deletion stops serving at once.
Begin(i, r) ==
    /\ up
    /\ may' = [may EXCEPT ![i] = @ \cup {r}]
    /\ served' = IF r = None THEN [served EXCEPT ![i] = None] ELSE served
    /\ UNCHANGED <<kept, up>>

Write(i) ==
    /\ up
    /\ \E r \in may[i] : kept' = [kept EXCEPT ![i] = r]
    /\ UNCHANGED <<may, served, up>>

\* It is acknowledged: there is no way back, and it is served.
Done(i) ==
    /\ up
    /\ may' = [may EXCEPT ![i] = {kept[i]}]
    /\ served' = [served EXCEPT ![i] = kept[i]]
    /\ UNCHANGED <<kept, up>>

\* The process or the machine stops.
Stop ==
    /\ kept' \in [Ids -> Contents \cup {None}]
    /\ \A i \in Ids : kept'[i] \in may[i]
    /\ served' = Nothing
    /\ ~up'
    /\ UNCHANGED may

Open ==
    /\ ~up /\ up'
    /\ served' = kept
    /\ UNCHANGED <<kept, may>>

Next ==
    \/ Stop \/ Open
    \/ \E i \in Ids : Write(i) \/ Done(i) \/ \E r \in Contents \cup {None} : Begin(i, r)

Spec == Init /\ [][Next]_vars
=============================================================================
