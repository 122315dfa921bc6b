----------------------------- MODULE MCRateLimits -----------------------------
(***************************************************************************)
(* Two threads, two pairs that compete for one LRU slot, one order index   *)
(* slot and a clock on which an order ages; two connections that share the *)
(* connect budget over several windows.  The trackers and the budget share *)
(* nothing but the clock, so Apart explores them one at a time.            *)
(***************************************************************************)
EXTENDS RateLimits, TLC

MCCap == [s \in Scopes |-> 1]
MCDecay == [s \in Scopes |-> 1]

TrackerNow == 2   \* bound: the clock while the trackers are in use
MaxLevel == 4     \* bound: the levels of the pairs, together

TrackersIdle ==
    /\ recency = <<>> /\ index = <<>>
    /\ counter[Api] = Fresh
    /\ \A s \in Scopes : level[s] = 0
    /\ \A c \in Callers : sampled[c] = None

Apart ==
    \/ TrackersIdle
    \/ /\ log = <<>> /\ now <= TrackerNow
       /\ SumFunctionOnSet(level, Pairs) <= MaxLevel

\* Threads, pairs, ids and connections are interchangeable.
Symmetry == Permutations(Callers) \union Permutations(Pairs)
            \union Permutations(Ids) \union Permutations(Conns)

=============================================================================
