----------------------------- MODULE RestSurface -----------------------------
(***************************************************************************)
(* RestSurface (src/rust/src/rest): what one REST call goes through.  Each *)
(* attempt is charged, waits its turn at the nonce gate, draws a nonce,    *)
(* signs, is on the wire until an answer, an error or the backstop, and    *)
(* leaves the gate; the retry loop then decides by the policy of the call. *)
(* A request left on the wire may still reach the exchange, any time later.*)
(*                                                                         *)
(* The trackers are in RateLimits: here a charge fits or does not.         *)
(***************************************************************************)
EXTENDS Integers, Sequences, FiniteSets

CONSTANTS
    Calls,         \* calls a program makes, concurrently
    MaxAttempts,   \* knob: rest_retry_max_attempts
    Wall,          \* what the wall clock may read, in any order
    Leaps          \* bound: how far another signer of the key may take its nonce, once

ASSUME RestAssumption ==
    /\ MaxAttempts \in Nat
    /\ Wall \subseteq Nat
    /\ Leaps \subseteq Nat

None == "none"

\* Operations, by how the surface treats them.
Placements == {"add", "amend", "batch"}
Ops == Placements \union {"validate", "cancel", "cancel_all", "query", "reconcile", "get"}

\* RetryPolicy: never_retry, never_retry_except_nonce, idempotent.
Policies == [transient : BOOLEAN, nonce_heal : BOOLEAN]
NeverRetry == [transient |-> FALSE, nonce_heal |-> FALSE]
NeverRetryExceptNonce == [transient |-> FALSE, nonce_heal |-> TRUE]
Idempotent == [transient |-> TRUE, nonce_heal |-> TRUE]

\* Fault: a batch is retried like a read.
PolicyBatchRetried(op) ==
    CASE op \in {"add", "amend"} -> NeverRetry
      [] op = "validate"         -> NeverRetryExceptNonce
      [] OTHER                   -> Idempotent

Policy(op) ==
    CASE op \in Placements -> NeverRetry
      [] op = "validate"   -> NeverRetryExceptNonce
      [] OTHER             -> Idempotent

\* How an attempt ends.  Kraken's own codes:
Codes == {"invalid_nonce", "throttled", "busy", "refused"}
\* TransportErrorKind: never sent; sent and no (usable) answer; a status that
\* is not 2xx, transient or not; a failure of another kind.
Unsent == {"tcp_refused", "other"}
NoAnswer == {"timed_out", "undecoded"}
Statuses == {"http_5xx", "http_4xx"}
\* RestError::UnexpectedShape, RestError::RateLimit.
Errors == Codes \union Unsent \union NoAnswer \union Statuses \union {"shape", "rate_limit"}

\* RetryEngine::classify, for an error other than an invalid nonce.
IsTransient(e) == e \in {"throttled", "busy", "tcp_refused", "timed_out", "http_5xx"}

VARIABLES
    call,      \* each call: its operation, where it is, and its retry loop
    gate,      \* nonce_send_gate: the holder, then the waiters in order
    last,      \* SystemClockNonceSource: the last nonce drawn
    net,       \* requests sent that have not reached the exchange
    exNonce,   \* the last nonce the exchange accepted (external)
    foreign,   \* another signer used the key (external)
    poisoned   \* a NoncePoisonedEvent was published

restVars == <<call, gate, last, net, exNonce, foreign, poisoned>>

Idle == [op |-> None, via |-> "rest", pc |-> "idle", attempt |-> 0, resigned |-> FALSE,
         nonce |-> 0, answer |-> None]

RestInit ==
    /\ call = [c \in Calls |-> Idle]
    /\ gate = <<>>
    /\ last = 0
    /\ net = {}
    /\ exNonce = 0
    /\ foreign = FALSE
    /\ poisoned = FALSE

Larger(a, b) == IF a > b THEN a ELSE b

-----------------------------------------------------------------------------
(* One attempt: signed_post_costed_once, public_get_once.                  *)

\* Fault: a waiter whose future is dropped keeps its place in the queue.
LeftHolder(q, c) == IF q # <<>> /\ Head(q) = c THEN Tail(q) ELSE q

\* The gate without c, held or awaited: a call is in it at most once.
Left(q, c) ==
    IF \A i \in DOMAIN q : q[i] # c THEN q
    ELSE LET n == CHOOSE i \in DOMAIN q : q[i] = c
         IN  [i \in 1..(Len(q) - 1) |-> IF i < n THEN q[i] ELSE q[i + 1]]

\* The charge fits: on to the gate.
PassCharge(c) ==
    /\ call[c].pc = "charge"
    /\ call[c].op # "get"
    /\ call' = [call EXCEPT ![c].pc = "gate"]
    /\ gate' = Append(gate, c)
    /\ UNCHANGED <<last, net, exNonce, foreign, poisoned>>

Request(c, n) == [call |-> c, nonce |-> n, queued |-> FALSE]

\* The request c has out now.
Current(c) == Request(c, call[c].nonce)

\* A public GET has neither charge, nonce nor gate; less its attempt names it.
SendGet(c) ==
    /\ call[c].pc = "charge"
    /\ call[c].op = "get"
    /\ call' = [call EXCEPT ![c].pc = "wire", ![c].nonce = -call[c].attempt]
    /\ net' = net \union {Request(c, -call[c].attempt)}
    /\ UNCHANGED <<gate, last, exNonce, foreign, poisoned>>

\* next_nonce: never behind the last one, whatever the wall clock reads.
NextNonce(w) == Larger(last + 1, w)

\* Fault: the gate is taken only to sign, and let go before the send.
SignAndSendUngated(c) ==
    /\ call[c].pc = "gate"
    /\ \E w \in Wall :
         /\ last' = NextNonce(w)
         /\ call' = [call EXCEPT ![c].pc = "wire", ![c].nonce = NextNonce(w)]
         /\ net' = net \union {Request(c, NextNonce(w))}
    /\ gate' = Left(gate, c)
    /\ UNCHANGED <<exNonce, foreign, poisoned>>

\* sign_form and post_form_signed, under the gate.
SignAndSend(c) ==
    /\ call[c].pc = "gate"
    /\ Head(gate) = c
    /\ \E w \in Wall :
         /\ last' = NextNonce(w)
         /\ call' = [call EXCEPT ![c].pc = "wire", ![c].nonce = NextNonce(w)]
         /\ net' = net \union {Request(c, NextNonce(w))}
    /\ UNCHANGED <<gate, exNonce, foreign, poisoned>>

-----------------------------------------------------------------------------
(* The retry loop: run_retry_loop.                                         *)

Retries(c, e) ==
    LET p == Policy(call[c].op)
    IN  IF e = "invalid_nonce" THEN p.nonce_heal /\ ~call[c].resigned
        ELSE /\ p.transient
             /\ IsTransient(e)
             /\ call[c].attempt < Larger(MaxAttempts, 1)

\* A second invalid nonce is another signer's doing, and is said so.
Poisons(c, e) ==
    e = "invalid_nonce" /\ Policy(call[c].op).nonce_heal /\ call[c].resigned

\* What is left on the wire of the requests n when c gives up on its attempt.  A
\* late placement may still be executed; anything else that comes late changes
\* nothing the model has but the nonce the exchange is at, which later nonces
\* are above in any case.
Remaining(n, c) == IF call[c].op \in Placements THEN n ELSE n \ {Current(c)}

\* The attempt of c ends with the error e, its requests on the wire left as n.
AttemptFails(c, e, n) ==
    /\ call' = [call EXCEPT ![c].pc = IF Retries(c, e) THEN "backoff" ELSE "returned",
                            ![c].resigned = @ \/ e = "invalid_nonce",
                            ![c].answer = IF Retries(c, e) THEN None ELSE e]
    /\ gate' = Left(gate, c)
    /\ poisoned' = (poisoned \/ Poisons(c, e))
    /\ net' = Remaining(n, c)
    /\ UNCHANGED <<last, exNonce, foreign>>

\* The charge does not fit.  A cancel of everything is never refused; an amend
\* or a cancel is charged once, before the loop.
ChargeRefused(c) ==
    /\ call[c].pc = "charge"
    /\ call[c].op \notin {"get", "cancel_all"}
    /\ call[c].op \in {"amend", "cancel"} => call[c].attempt = 1
    /\ AttemptFails(c, "rate_limit", net)

\* The connection failed before the request was on it.
NeverSent(c, e) ==
    /\ call[c].pc = "wire"
    /\ Current(c) \in net
    /\ AttemptFails(c, e, net \ {Current(c)})

\* A proxy answers for the exchange; what it forwarded may be under way.
StatusError(c, e) ==
    /\ call[c].pc = "wire"
    /\ \/ AttemptFails(c, e, net)
       \/ AttemptFails(c, e, net \ {Current(c)})

\* The client's timeout, or the backstop around it.
TimesOut(c) ==
    /\ call[c].pc = "wire"
    /\ AttemptFails(c, "timed_out", net)

\* The exchange's answer arrives: whole, cut short, or not an envelope.
Answered(c) ==
    /\ call[c].pc = "wire"
    /\ call[c].answer # None
    /\ \/ /\ call[c].answer \notin Errors
          /\ call' = [call EXCEPT ![c].pc = "returned"]
          /\ gate' = Left(gate, c)
          /\ UNCHANGED <<last, net, exNonce, foreign, poisoned>>
       \/ /\ call[c].answer \in Errors
          /\ AttemptFails(c, call[c].answer, net)
       \/ AttemptFails(c, "undecoded", net)
       \/ AttemptFails(c, "shape", net)

\* The backoff is slept; then the next attempt, charged and signed anew.
Wake(c) ==
    /\ call[c].pc = "backoff"
    /\ call' = [call EXCEPT ![c].pc = "charge", ![c].attempt = @ + 1]
    /\ UNCHANGED <<gate, last, net, exNonce, foreign, poisoned>>

\* Another process signs with the same key.
OtherSigner ==
    /\ ~foreign
    /\ foreign' = TRUE
    /\ \E n \in Leaps : exNonce' = exNonce + n
    /\ UNCHANGED <<call, gate, last, net, poisoned>>

RestStep(c) ==
    \/ PassCharge(c) \/ SendGet(c) \/ SignAndSend(c) \/ ChargeRefused(c)
    \/ \E e \in Unsent : NeverSent(c, e)
    \/ \E e \in Statuses : StatusError(c, e)
    \/ TimesOut(c) \/ Answered(c) \/ Wake(c)

=============================================================================
