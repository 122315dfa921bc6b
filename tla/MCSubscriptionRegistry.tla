------------------------ MODULE MCSubscriptionRegistry ------------------------
(***************************************************************************)
(* Instances of SubscriptionRegistry for TLC.                              *)
(***************************************************************************)
EXTENDS SubscriptionRegistry, TLC

\* Guards and plain calls are interchangeable.
Symmetry == Permutations(Guards) \union Permutations(Calls)

=============================================================================
