----------------------------- MODULE MCIoReactor -----------------------------
(***************************************************************************)
(* Instances of IoReactor for TLC: the configurations choose the URL, the  *)
(* sets and the bounds.                                                    *)
(***************************************************************************)
EXTENDS IoReactor, TLC

\* Keys, requests and callers are interchangeable.
Symmetry == Permutations(Keys) \union Permutations(ReqIds) \union Permutations(CallIds)

=============================================================================
