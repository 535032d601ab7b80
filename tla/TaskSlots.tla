------------------------------ MODULE TaskSlots ------------------------------
(***************************************************************************)
(* What identity.Manager promises about the tasks of a key, without        *)
(* requests, flights or locks: a key is empty, has one registration under  *)
(* way, or holds one task; a task is registered for one key, and once      *)
(* dropped it is never held again.                                         *)
(***************************************************************************)
CONSTANTS TaskKeys, Tasks, NoTask

VARIABLES
    held,     \* held[k]: the task of key k, or NoTask
    busy,     \* the keys with a registration under way
    issued    \* the tasks registered so far

vars == <<held, busy, issued>>

Init ==
    /\ held = [k \in TaskKeys |-> NoTask]
    /\ busy = {}
    /\ issued = {}

Register(k) ==
    /\ held[k] = NoTask /\ k \notin busy
    /\ busy' = busy \cup {k}
    /\ UNCHANGED <<held, issued>>

Issue(k) ==
    /\ k \in busy
    /\ busy' = busy \ {k}
    /\ \E t \in Tasks \ issued :
         /\ held' = [held EXCEPT ![k] = t]
         /\ issued' = issued \cup {t}

Fail(k) ==
    /\ k \in busy
    /\ busy' = busy \ {k}
    /\ UNCHANGED <<held, issued>>

Drop(k) ==
    /\ held[k] # NoTask
    /\ held' = [held EXCEPT ![k] = NoTask]
    /\ UNCHANGED <<busy, issued>>

Next == \E k \in TaskKeys : Register(k) \/ Issue(k) \/ Fail(k) \/ Drop(k)

SafeSpec == Init /\ [][Next]_vars

\* A registration always ends.
Spec == SafeSpec /\ \A k \in TaskKeys : WF_vars(Issue(k) \/ Fail(k))
=============================================================================
