---------------------------- MODULE MCCPAManager ----------------------------
(* The auth files of one identity on small instances.                      *)
EXTENDS CPAManager, TLC

CONSTANTS m1, m2, m3, k1, u1

\* Canonical names in the middle of the lexical order: m1 and m2 differ in what
\* the name is made of, m1 and m3 only in user or kind.
SomeNames == (m1 :> 2) @@ (m2 :> 3) @@ (m3 :> 2)

\* One historical name, two plans.
ApartNames == (m1 :> 2) @@ (m2 :> 3)

\* Many names: three of the four at a time, at most one of them somebody else's,
\* with one key and one value of the user's fields.
ManyNames ==
    /\ \A n \in Names : Own(files[n]) => files[n].key = k1 /\ files[n].user = u1 /\ files[n].meta # m3
    /\ \E n \in Names : files[n] = Absent
    /\ Cardinality({n \in Names : files[n] = Foreign}) =< 1

\* Many fields: names 1 and 2 only, with every key, user field, and metadata that
\* differs without changing the canonical name.
ManyFields ==
    /\ files[3] = Absent /\ files[4] = Absent
    /\ \A n \in {1, 2} : files[n] # Foreign /\ (Own(files[n]) => files[n].meta # m2)

\* Names and fields multiply: a behaviour is followed along one of them, and for
\* one credential, or its ID alone, since the files start as any.
NamesOrFields ==
    /\ op.cred.key = k1 /\ op.cred.meta \notin {m2, m3}
    /\ ManyNames \/ ManyFields
=============================================================================
