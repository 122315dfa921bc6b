---------------------------- MODULE OrderRequests ----------------------------
(***************************************************************************)
(* The executors of the trade namespace (src/rust/src/api/trade) over both *)
(* transports: RestSurface and the order frames of the auth connection.    *)
(* Each call carries one operation, publishes what became of it, may be    *)
(* dropped by its caller at any await, and returns a TradeError whose      *)
(* retryable() says whether to send it again.  The exchange executes what  *)
(* reaches it, late requests included, and orders close behind the         *)
(* client's back; find_order_by_cl_ord_id looks for an order meanwhile.    *)
(***************************************************************************)
EXTENDS RestSurface

CONSTANT Programs   \* what the calls of a program may be: [Calls -> <<operation, transport>>]

VARIABLES
    loopFailed,  \* DispatchEventBus::is_loop_failed
    events,      \* what was published of each call
    executed,    \* how often the exchange executed each placement (external)
    order,       \* the order a call placed, at the exchange (external)
    sought,      \* the call whose order a reconcile looks for, and if it was placed
    leg,         \* which list a reconcile is reading
    rows,        \* a batch: the entries placed (external) and the rows of the reply
    indexed      \* the batch entries put into the cl_ord_id index

orderVars == <<loopFailed, events, executed, order, sought, leg, rows, indexed>>

vars == <<restVars, orderVars>>

Entries == 1..2   \* entries of a batch

\* The reply to a batch: one row per entry, or a row short.
FullRows(placed) == [i \in Entries |-> i \in placed]
ShortRows(placed) == SelectSeq(FullRows(placed), LAMBDA r : r)

NoRows == [placed |-> {}, reply |-> <<>>]

\* The transports an operation has (the dispatch table).
Vias(op) == IF op \in {"query", "reconcile", "get"} THEN {"rest"} ELSE {"rest", "ws"}

Init ==
    /\ RestInit
    /\ loopFailed = FALSE
    /\ events = [c \in Calls |-> {}]
    /\ executed = [c \in Calls |-> 0]
    /\ order = [c \in Calls |-> "absent"]
    /\ sought = [c \in Calls |-> [target |-> c, placed |-> FALSE]]
    /\ leg = [c \in Calls |-> "open"]
    /\ rows = [c \in Calls |-> NoRows]
    /\ indexed = [c \in Calls |-> {}]

-----------------------------------------------------------------------------
(* Submission.                                                             *)

\* gate_system_status, with the status read when the method was called.
StatusAllows(op, status) ==
    \/ status = "online"
    \/ op \in {"cancel", "cancel_all"} /\ status = "cancel_only"

Submits(c, op, via, pc, answer) ==
    /\ call[c].pc = "idle"
    /\ via \in Vias(op)
    /\ \E p \in Programs :
         /\ p[c] = <<op, via>>
         /\ \A d \in Calls : call[d].op # None => p[d] = <<call[d].op, call[d].via>>
    /\ call' = [call EXCEPT ![c] = [Idle EXCEPT !.op = op, !.via = via, !.pc = pc,
                                                !.attempt = IF pc = "done" THEN 0 ELSE 1,
                                                !.answer = answer]]
    /\ UNCHANGED <<gate, last, net, exNonce, foreign, poisoned,
                   loopFailed, events, executed, order, leg, rows, indexed>>

SubmitRest(c, op) ==
    /\ op # "reconcile"
    /\ Submits(c, op, "rest", "charge", None)
    /\ UNCHANGED sought

\* find_order_by_cl_ord_id for the order of call t.
Reconcile(c, t) ==
    /\ Submits(c, "reconcile", "rest", "charge", None)
    /\ sought' = [sought EXCEPT ![c] = [target |-> t, placed |-> order[t] # "absent"]]

\* ws_send_and_decode up to its first await.
SubmitWs(c, op, status) ==
    /\ \/ ~StatusAllows(op, status) /\ Submits(c, op, "ws", "done", "blocked")
       \/ StatusAllows(op, status) /\ loopFailed /\ Submits(c, op, "ws", "done", "loop_dead")
       \/ StatusAllows(op, status) /\ ~loopFailed /\ Submits(c, op, "ws", "connect", None)
    /\ UNCHANGED sought

-----------------------------------------------------------------------------
(* The WS arm.  A frame waits in the caller queue, then goes to the socket.*)

Frame(c) == [call |-> c, nonce |-> 0, queued |-> TRUE]
OnSocket(c) == Request(c, 0)

\* The call of a WS order resumes with the error e.
WsResumes(c, e) == call' = [call EXCEPT ![c].pc = "returned", ![c].answer = e]

WsUnchanged == UNCHANGED <<gate, last, exNonce, foreign, poisoned, orderVars>>

\* ensure_order_sendable fails (not open), or the charge is refused, or the
\* post is (the charge is refunded); each before anything is sent.
WsNotPosted(c, e) ==
    /\ call[c].pc = "connect"
    /\ WsResumes(c, e)
    /\ UNCHANGED net
    /\ WsUnchanged

WsPosted(c) ==
    /\ call[c].pc = "connect"
    /\ call' = [call EXCEPT ![c].pc = "wait"]
    /\ net' = net \union {Frame(c)}
    /\ WsUnchanged

\* The reactor refuses the frame: the connection is not open any more.
WsRefused(c) ==
    /\ call[c].pc = "wait"
    /\ Frame(c) \in net
    /\ WsResumes(c, "not_open")
    /\ net' = net \ {Frame(c)}
    /\ WsUnchanged

\* The frame goes out, whether or not its caller still waits.
WsSent(c) ==
    /\ Frame(c) \in net
    /\ net' = (net \ {Frame(c)}) \union {OnSocket(c)}
    /\ UNCHANGED call
    /\ WsUnchanged

\* The reactor refuses the frame of a caller that gave up.
WsForgotten(c) ==
    /\ call[c].pc \in {"returned", "done", "dropped"}
    /\ Frame(c) \in net
    /\ net' = net \ {Frame(c)}
    /\ UNCHANGED call
    /\ WsUnchanged

\* The connection is lost, or the client closed, with the request in flight.
WsDrained(c) ==
    /\ call[c].pc = "wait"
    /\ Frame(c) \notin net
    /\ WsResumes(c, "drained")
    /\ net' \in {net, {m \in net : m.call # c}}
    /\ WsUnchanged

\* ws_order_response_deadline_ms: the request is abandoned.
WsDeadline(c) ==
    /\ call[c].pc = "wait"
    /\ WsResumes(c, "deadline")
    /\ UNCHANGED net
    /\ WsUnchanged

WsAnswered(c) ==
    /\ call[c].pc = "wait"
    /\ call[c].answer # None
    /\ WsResumes(c, call[c].answer)
    /\ UNCHANGED net
    /\ WsUnchanged

\* A reactor loop dies: every pending completion is dropped.
LoopDies ==
    /\ ~loopFailed
    /\ loopFailed' = TRUE
    /\ call' = [c \in Calls |->
                   IF call[c].pc = "wait"
                   THEN [call[c] EXCEPT !.pc = "returned", !.answer = "loop_closed"]
                   ELSE call[c]]
    /\ net' = {m \in net : ~m.queued}
    /\ UNCHANGED <<gate, last, exNonce, foreign, poisoned,
                   events, executed, order, sought, leg, rows, indexed>>

-----------------------------------------------------------------------------
(* The exchange (external).                                                *)

\* What c gets to see of the answer a to its request m.
Tells(m, a) ==
    LET c == m.call
    IN  IF \/ call[c].pc = "wire" /\ m = Current(c)
           \/ call[c].pc = "wait"
        THEN [call EXCEPT ![c].answer = a] ELSE call

\* What executing the operation of c answers.
Finds(c) ==
    IF call[c].op # "reconcile" THEN "ok"
    ELSE IF order[sought[c].target] = leg[c] THEN "found" ELSE "nothing"

Signed(m) == m.nonce > 0

Receives(m) ==
    /\ m \in net
    /\ ~m.queued
    /\ net' = net \ {m}
    /\ UNCHANGED <<gate, last, foreign, poisoned, loopFailed, events, sought, leg, indexed>>

\* A nonce that is not above the last one accepted is refused.
RejectsNonce(m) ==
    /\ Signed(m)
    /\ m.nonce <= exNonce
    /\ Receives(m)
    /\ call' = Tells(m, "invalid_nonce")
    /\ UNCHANGED <<exNonce, executed, order, rows>>

Accepts(m) ==
    /\ Signed(m) => m.nonce > exNonce
    /\ Receives(m)
    /\ exNonce' = IF Signed(m) THEN m.nonce ELSE exNonce

Rejects(m, code) ==
    /\ Accepts(m)
    /\ call' = Tells(m, code)
    /\ UNCHANGED <<executed, order, rows>>

Executes(m) ==
    /\ Accepts(m)
    /\ LET c == m.call
       IN  /\ call' = Tells(m, Finds(c))
           /\ executed' = IF call[c].op \in Placements THEN [executed EXCEPT ![c] = @ + 1]
                          ELSE executed
           /\ order' = IF call[c].op = "add" THEN [order EXCEPT ![c] = "open"] ELSE order
           /\ IF call[c].op = "batch"
              THEN \E placed \in SUBSET Entries :
                     \E r \in {FullRows(placed), ShortRows(placed)} :
                       rows' = [rows EXCEPT ![c] = [placed |-> placed, reply |-> r]]
              ELSE UNCHANGED rows

\* An order is filled, or cancelled from elsewhere.
Closes(c) ==
    /\ order[c] = "open"
    /\ order' = [order EXCEPT ![c] = "closed"]
    /\ UNCHANGED <<restVars, loopFailed, events, executed, sought, leg, rows, indexed>>

-----------------------------------------------------------------------------
(* The epilogue of a call.                                                 *)

OpEmitsAmbiguous(op) == op \in {"add", "validate", "amend"}
OpEmitsSubmitted(op) == op \in {"add", "validate", "amend", "cancel"}
OpEmitsCancellation(op) == op \in {"add", "validate", "amend", "cancel"}

\* is_sent_ambiguous on REST; whatever is not definitely unsent on WS.
IsSentAmbiguous(e) == e \in NoAnswer \union {"drained", "loop_closed", "deadline"}

\* emit_rest_submit_outcome, and the match of ws_send_and_decode.
Outcome(op, e) ==
    CASE e \in {"ok"} /\ op = "add"               -> {"WireSent"}
      [] e \in {"ok"} /\ op \in {"amend", "cancel"} -> {"WireAccepted"}
      [] e \in Codes \union {"shape"} /\ OpEmitsSubmitted(op) -> {"WireError"}
      [] IsSentAmbiguous(e) /\ OpEmitsAmbiguous(op) -> {"Ambiguous"}
      [] OTHER -> {}

\* guard_batch_row_count and index_placed_batch_rows.
PlacedRows(c) ==
    IF Len(rows[c].reply) # Cardinality(Entries) THEN {}
    ELSE {i \in Entries : rows[c].reply[i]}

\* Fault: the closed orders are read first.
FirstLegClosed == "closed"

\* The lists of walk_reconciliation, in the order it reads them.
FirstLeg == "open"

SecondLeg == IF FirstLeg = "open" THEN "closed" ELSE "open"

\* The future of c is gone, and with it all but what its caller learnt, as far
\* as it matters later: how a placement ended, and that an order was not found.
Over(c, pc) ==
    [call EXCEPT ![c] = [Idle EXCEPT
        !.op = call[c].op, !.via = call[c].via, !.pc = pc,
        !.answer = IF pc = "done" /\ (call[c].op \in Placements \/ call[c].answer = "nothing")
                   THEN call[c].answer ELSE None]]

\* The loop of c returned: its guard is disarmed, its fate published.
Concludes(c) ==
    /\ call[c].pc = "returned"
    /\ ~(call[c].op = "reconcile" /\ call[c].answer = "nothing" /\ leg[c] = FirstLeg)
    /\ events' = [events EXCEPT ![c] = @ \union Outcome(call[c].op, call[c].answer)]
    /\ indexed' = IF call[c].op = "batch" /\ call[c].answer = "ok"
                  THEN [indexed EXCEPT ![c] = PlacedRows(c)] ELSE indexed
    /\ call' = Over(c, "done")
    /\ UNCHANGED <<gate, last, net, exNonce, foreign, poisoned,
                   loopFailed, executed, order, sought, leg, rows>>

\* Not among the first list: a new request for the second.
NextLeg(c) ==
    /\ call[c].pc = "returned"
    /\ call[c].op = "reconcile"
    /\ call[c].answer = "nothing"
    /\ leg[c] = FirstLeg
    /\ leg' = [leg EXCEPT ![c] = SecondLeg]
    /\ call' = [call EXCEPT ![c].pc = "charge", ![c].attempt = 1, ![c].resigned = FALSE,
                            ![c].answer = None]
    /\ UNCHANGED <<gate, last, net, exNonce, foreign, poisoned,
                   loopFailed, events, executed, order, sought, rows, indexed>>

\* Fault: the guard is armed for placements only while they are on the wire.
GuardArmedOnWire(c) == OpEmitsCancellation(call[c].op) /\ call[c].pc = "wire"

\* CancelEmitGuard is armed at every await of the wire, and only there.
GuardArmed(c) ==
    OpEmitsCancellation(call[c].op) /\ call[c].pc \in {"gate", "wire", "backoff", "wait"}

\* The caller drops the future at one of its awaits.
Drops(c) ==
    /\ call[c].pc \in {"gate", "wire", "backoff", "connect", "wait"}
    /\ events' = IF GuardArmed(c)
                 THEN [events EXCEPT ![c] = @ \union {"CancellationAttempted"}] ELSE events
    /\ call' = Over(c, "dropped")
    /\ gate' = Left(gate, c)
    /\ net' = Remaining(net, c)
    /\ UNCHANGED <<last, exNonce, foreign, poisoned,
                   loopFailed, executed, order, sought, leg, rows, indexed>>

-----------------------------------------------------------------------------
WsStep(c) ==
    \/ \E e \in {"not_open", "rate_limit", "queue_full"} : WsNotPosted(c, e)
    \/ WsPosted(c) \/ WsRefused(c) \/ WsSent(c) \/ WsForgotten(c)
    \/ WsDrained(c) \/ WsDeadline(c) \/ WsAnswered(c)

Exchange ==
    \/ \E m \in net :
         \/ RejectsNonce(m) \/ Executes(m)
         \/ \E code \in Codes \ {"invalid_nonce"} : Rejects(m, code)
    \/ \E c \in Calls : Closes(c)
    \/ OtherSigner /\ UNCHANGED orderVars

Submit(c) ==
    \/ \E op \in Ops :
         \/ SubmitRest(c, op)
         \/ \E status \in {"online", "cancel_only", "maintenance"} : SubmitWs(c, op, status)
    \/ \E t \in Calls \ {c} : Reconcile(c, t)

Next ==
    \/ \E c \in Calls :
         \/ Submit(c) \/ WsStep(c) \/ Drops(c) \/ Concludes(c) \/ NextLeg(c)
         \/ RestStep(c) /\ UNCHANGED orderVars
    \/ Exchange
    \/ LoopDies

Spec == Init /\ [][Next]_vars

\* Timers fire (the backoff, the client timeout with its backstop, the bring-up
\* timeout, the configured response deadline), tokio hands the gate on in
\* order, and a task that can run does; the exchange owes nothing.
Progress(c) ==
    \/ (PassCharge(c) \/ SendGet(c) \/ SignAndSend(c) \/ TimesOut(c) \/ Wake(c))
         /\ UNCHANGED orderVars
    \/ WsNotPosted(c, "not_open") \/ WsDeadline(c)
    \/ Concludes(c) \/ NextLeg(c)

FairSpec == Spec /\ \A c \in Calls : WF_vars(Progress(c))

-----------------------------------------------------------------------------
(* Properties.                                                             *)

Finished(c) == call[c].pc \in {"done", "dropped"}

CallStates == {"idle", "charge", "gate", "wire", "backoff", "connect", "wait",
               "returned", "done", "dropped"}

\* Calls, their attempts (one re-sign beyond the budget), the gate and the wire.
TypeOK ==
    /\ \A c \in Calls : call[c].pc \in CallStates /\ call[c].op \in Ops \union {None}
    /\ \A c \in Calls : call[c].attempt \in 0..(Larger(MaxAttempts, 1) + 1)
    /\ gate \in Seq(Calls)
    /\ \A m \in net : m.call \in Calls

\* An order placement, an amend or a batch is executed at most once, whatever
\* is lost, late or retried (RetryPolicy::never_retry in the executors).
PlacedOnce ==
    \A c \in Calls : call[c].op \in Placements => executed[c] <= 1

\* An add or an amend that the exchange executed is announced when its call is
\* over: as accepted, as ambiguous, or as a cancelled await.  (A status that
\* is not 2xx and an answer that is no envelope are taken for refusals.)
FateAnnounced ==
    \A c \in Calls :
        (/\ call[c].op \in {"add", "amend"}
         /\ Finished(c)
         /\ executed[c] > 0
         /\ call[c].answer \notin Statuses \union {"shape"}) =>
            events[c] \intersect {"WireSent", "WireAccepted", "Ambiguous",
                                  "CancellationAttempted"} # {}

\* The nonce gate and the nonce source keep nonces in order on the wire, with
\* a clock that reads anything: the exchange refuses one of a call that is
\* still there to hear it only if another signer used the key, and only then
\* is NoncePoisonedEvent published (run_retry_loop says so of it).
NonceRefusedByOthers ==
    ~foreign => ~poisoned /\ \A c \in Calls : call[c].answer # "invalid_nonce"

\* find_order_by_cl_ord_id answers NotPlaced only for an order that was not at
\* the exchange when it was asked, though orders close while it reads.
ReconcileFinds ==
    \A c \in Calls :
        (call[c].op = "reconcile" /\ call[c].pc = "done" /\ call[c].answer = "nothing") =>
            ~sought[c].placed

\* Every call returns to its caller, behind whatever queue at the gate,
\* whatever the exchange leaves unanswered.
CallsReturn ==
    \A c \in Calls : call[c].pc # "idle" ~> Finished(c)

\* TradeError::retryable of the error a placement returned.
Retryable(e) ==
    e \in {"rate_limit", "throttled", "queue_full", "not_open", "tcp_refused", "http_5xx",
           "drained", "loop_closed"}

\* "retryable() is true only when the request was never sent": a placement
\* that returned a retryable transport error is not executed, then or later.
RetryableMeansUnsent ==
    \A c \in Calls :
        (call[c].op \in Placements /\ call[c].pc = "done" /\ Retryable(call[c].answer)) =>
            executed[c] = 0

=============================================================================
