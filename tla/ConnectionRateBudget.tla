------------------------ MODULE ConnectionRateBudget ------------------------
(***************************************************************************)
(* The sliding-window limiter of conn/rate_budget.rs.  The Public and the  *)
(* Auth connection of one host share it; each consults it before a connect *)
(* attempt and, when refused, sleeps on its rate_budget_window_advanced    *)
(* timer.  The outcome is the parameter "admit" of ManagedConnection.      *)
(***************************************************************************)
EXTENDS Integers, Sequences

CONSTANTS
    Conns,    \* the connections that share the budget
    Budget,   \* knob: attempts per window
    Window,   \* knob: length of the window
    MaxNow    \* bound: the last instant of the clock

ASSUME BudgetAssumption ==
    /\ Budget \in Nat \ {0}
    /\ Window \in Nat
    /\ MaxNow \in Nat

VARIABLES
    now,       \* the monotonic clock
    attempts,  \* Inner::attempts, oldest first
    due,       \* the rate_budget_window_advanced timer of each connection
    log        \* every admitted attempt (not in the code)

vars == <<now, attempts, due, log>>

Instants == 0..MaxNow

Unarmed == -1

TypeOK ==
    /\ now \in Instants
    /\ attempts \in Seq(Instants)
    /\ due \in [Conns -> {Unarmed} \union Nat]
    /\ log \in Seq(Instants)

Init ==
    /\ now = 0
    /\ attempts = <<>>
    /\ due = [c \in Conns |-> Unarmed]
    /\ log = <<>>

\* now - window, or zero.
Cutoff(t) == IF t >= Window THEN t - Window ELSE 0

\* Where prune stops popping: the first attempt not older than the cutoff.
KeptFrom(q, cutoff) ==
    CHOOSE i \in 1..Len(q) + 1 :
        /\ \A j \in 1..(i - 1) : q[j] < cutoff
        /\ i <= Len(q) => q[i] >= cutoff

\* Fault: an attempt exactly one window old is dropped too.
PruneInclusive(q, t) == SelectSeq(q, LAMBDA a : a > Cutoff(t))

Prune(q, t) == SubSeq(q, KeptFrom(q, Cutoff(t)), Len(q))

\* Fault: the sleeper counts the window from its own instant.
ThrottleFromNow(q) == now + Window

\* throttle_until_monotonic of a full window q.
ThrottleUntil(q) == q[1] + Window

\* try_consume by c, which leaves its timer at d when admitted.
TryConsume(c, d) ==
    LET q == Prune(attempts, now)
    IN  /\ UNCHANGED now
        /\ \/ /\ Len(q) >= Budget
              /\ attempts' = q
              /\ due' = [due EXCEPT ![c] = ThrottleUntil(q)]
              /\ UNCHANGED log
           \/ /\ Len(q) < Budget
              /\ attempts' = Append(q, now)
              /\ due' = [due EXCEPT ![c] = d]
              /\ log' = Append(log, now)

\* A connect call, a force_reconnect or an elapsed backoff: at any instant.
Connect(c) == TryConsume(c, due[c])

\* The rate timer fires: popped, then the budget is consulted again.
WindowAdvanced(c) ==
    /\ due[c] # Unarmed
    /\ due[c] <= now
    /\ TryConsume(c, Unarmed)

Tick ==
    /\ now < MaxNow
    /\ now' = now + 1
    /\ UNCHANGED <<attempts, due, log>>

Next == Tick \/ \E c \in Conns : Connect(c) \/ WindowAdvanced(c)

Spec == Init /\ [][Next]_vars

----------------------------------------------------------------------------
(* Properties. *)

\* Of any Budget + 1 consecutive admitted attempts the last comes more than a
\* window after the first, whichever connections made them: try_consume never
\* forgets an attempt that still counts.
WindowCap ==
    \A i \in 1..Len(log) : i + Budget <= Len(log) => log[i + Budget] > log[i] + Window

\* A connection whose rate timer is still to come sleeps for a reason: the window
\* is full until that very instant, whatever the other connection did meanwhile.
NoNeedlessWait ==
    \A c \in Conns : due[c] >= now =>
        Len(attempts) = Budget /\ attempts[1] + Window = due[c]

=============================================================================
