--------------------------- MODULE MCCallerSurface ---------------------------
(* Calls that fill the queue around guards and handles that come and go.      *)
EXTENDS CallerSurface

NoCalls == [call \in CallKinds |-> 0]

MCPlans ==
    {[NoCalls EXCEPT !["on_for"] = 2, !["connect"] = 1],
     [NoCalls EXCEPT !["on"] = 1, !["on_for"] = 1],
     [NoCalls EXCEPT !["on_for"] = 1, !["unsubscribe_all"] = 1],
     [NoCalls EXCEPT !["on"] = 1, !["subscribe"] = 1, !["unsubscribe"] = 1]}

=============================================================================
