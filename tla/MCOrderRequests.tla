--------------------------- MODULE MCOrderRequests ---------------------------
(***************************************************************************)
(* Two concurrent calls of any operation over either transport; one        *)
(* repeated attempt; a wall clock that stands still, so that nonces first  *)
(* follow it and then run ahead of it; another signer, two nonces ahead.   *)
(***************************************************************************)
EXTENDS OrderRequests, TLC

CONSTANTS c1, c2

Two(a, b) == (c1 :> a) @@ (c2 :> b)

\* On REST a cancel stands for the other calls that are retried; a reconcile
\* runs beside the call whose order it looks for.
All == {<<op, via>> : op \in Ops, via \in {"rest", "ws"}}
       \ {<<"query", "rest">>, <<"cancel_all", "rest">>, <<"reconcile", "rest">>}

MCPrograms ==
    {Two(a, <<"query", "rest">>) : a \in All}
    \union {Two(<<"add", "ws">>, <<"reconcile", "rest">>)}

=============================================================================
