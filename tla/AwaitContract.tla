---------------------------- MODULE AwaitContract ----------------------------
(***************************************************************************)
(* What an await of a lifecycle completion promises its caller, without    *)
(* the bus that keeps the promise.  An await resolves at most once; it     *)
(* fails only after some loop died; one that begins after a genuine death  *)
(* never reports success; and releasing it ends it.                        *)
(***************************************************************************)
CONSTANT Awaits

VARIABLES
    died,      \* a loop has died, in an intended teardown or not
    genuine,   \* a loop has died outside a teardown
    outcome    \* of each await

contractVars == <<died, genuine, outcome>>

Outcomes == {"unborn", "pending", "late", "success", "failure", "released"}

ContractTypeOK ==
    /\ died \in BOOLEAN
    /\ genuine \in BOOLEAN
    /\ outcome \in [Awaits -> Outcomes]

Init ==
    /\ died = FALSE
    /\ genuine = FALSE
    /\ outcome = [a \in Awaits |-> "unborn"]

Die ==
    /\ died' = TRUE
    /\ genuine' \in {genuine, TRUE}
    /\ UNCHANGED outcome

Begin(a) ==
    /\ outcome[a] = "unborn"
    /\ outcome' = [outcome EXCEPT ![a] = IF genuine THEN "late" ELSE "pending"]
    /\ UNCHANGED <<died, genuine>>

Succeed(a) ==
    /\ outcome[a] = "pending"
    /\ outcome' = [outcome EXCEPT ![a] = "success"]
    /\ UNCHANGED <<died, genuine>>

Fail(a) ==
    /\ died
    /\ outcome[a] \in {"pending", "late"}
    /\ outcome' = [outcome EXCEPT ![a] = "failure"]
    /\ UNCHANGED <<died, genuine>>

Release(a) ==
    /\ outcome[a] \in {"pending", "late", "success", "failure"}
    /\ outcome' = [outcome EXCEPT ![a] = "released"]
    /\ UNCHANGED <<died, genuine>>

Next ==
    \/ Die
    \/ \E a \in Awaits : Begin(a) \/ Succeed(a) \/ Fail(a) \/ Release(a)

Spec == Init /\ [][Next]_contractVars

=============================================================================
