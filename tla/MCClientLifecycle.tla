-------------------------- MODULE MCClientLifecycle --------------------------
(***************************************************************************)
(* The scenarios of ClientLifecycle that TLC explores, all in one run.     *)
(***************************************************************************)
EXTENDS ClientLifecycle

CONSTANTS r1, r2, c1, o1

MCTasks == {"io", "dispatch", "caller"}

MCRequests == {r1, r2, c1, "sub", "inner"}

MCScenarios ==
    { [awaits |-> {r1, c1}, faults |-> 0, extras |-> 0],
      [awaits |-> {r1, r2}, faults |-> 0, extras |-> 0],
      [awaits |-> {c1, o1}, faults |-> 0, extras |-> 0],
      [awaits |-> {r1}, faults |-> 1, extras |-> 0],
      [awaits |-> {c1}, faults |-> 1, extras |-> 0],
      [awaits |-> {c1}, faults |-> 0, extras |-> 1] }

=============================================================================
