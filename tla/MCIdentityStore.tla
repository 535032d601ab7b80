-------------------------- MODULE MCIdentityStore --------------------------
(* A small instance of IdentityStore: one token that can be imported bare  *)
(* or for one of two workspaces, so three identities share it.             *)
EXTENDS IdentityStore, TLC

\* Workspaces and client keys are interchangeable.
Symmetry == Permutations(Accounts) \cup Permutations(Keys)
=============================================================================
