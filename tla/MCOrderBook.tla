----------------------------- MODULE MCOrderBook -----------------------------
(* A book of three prices, kept at a depth of two: asks to trim and to promote,  *)
(* a bid, and a quantity that a Decimal rounds to zero.                           *)
EXTENDS OrderBook

Side(ps) == [p \in Prices |-> IF p \in ps THEN 1 ELSE 0]

MCBooks == {[s \in Sides |-> IF s = "asks" THEN Side({1, 2, 3}) ELSE Side({1, 2, 3})]}

MCRequests == {[channel |-> "book", depth |-> 1], [channel |-> "book", depth |-> 2],
               [channel |-> "raw", depth |-> 1]}

MCMoves ==
    {[side |-> "asks", price |-> 1, qty |-> 0], [side |-> "asks", price |-> 1, qty |-> 1],
     [side |-> "asks", price |-> 2, qty |-> 2]}

=============================================================================
