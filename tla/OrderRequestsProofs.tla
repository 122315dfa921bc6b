------------------------- MODULE OrderRequestsProofs -------------------------
(***************************************************************************)
(* What OrderRequests promises for any number of calls, any retry budget,  *)
(* any wall clock and any leap of another signer: an order is placed once, *)
(* its fate is announced, nonces are refused only because of others, and   *)
(* a reconcile finds what was placed.                                      *)
(*                                                                         *)
(* The inductive invariant has seven parts. CallTypes and Stages say where *)
(* a call can be, with which transport and attempt; GateHeld that a signed *)
(* request on the wire has the gate; NoncesOrdered that its nonce is then  *)
(* the last one drawn; SentOnce that a placement has one request, executed *)
(* or under way but not both; FateKept that an answer which is not going   *)
(* to be announced goes with a request that is gone and was not executed;  *)
(* SoughtKept that an order missing from the open list has closed.         *)
(***************************************************************************)
EXTENDS OrderRequests, TLAPS

\* What a call can have been answered.
Answers ==
    Errors \union {None, "ok", "found", "nothing", "blocked", "loop_dead", "not_open",
                   "queue_full", "drained", "deadline", "loop_closed"}

CallRecords ==
    [op : Ops \union {None}, via : {"rest", "ws"}, pc : CallStates, attempt : Nat,
     resigned : BOOLEAN, nonce : Int, answer : Answers]

Messages == [call : Calls, nonce : Int, queued : BOOLEAN]

EventNames == {"WireSent", "WireAccepted", "WireError", "Ambiguous", "CancellationAttempted"}

CallTypes ==
    /\ call \in [Calls -> CallRecords]
    /\ gate \in Seq(Calls)
    /\ last \in Nat
    /\ exNonce \in Nat
    /\ net \subseteq Messages
    /\ foreign \in BOOLEAN
    /\ poisoned \in BOOLEAN
    /\ events \in [Calls -> SUBSET EventNames]
    /\ executed \in [Calls -> Nat]
    /\ order \in [Calls -> {"absent", "open", "closed"}]
    /\ sought \in [Calls -> [target : Calls, placed : BOOLEAN]]
    /\ leg \in [Calls -> {"open", "closed"}]

Budget == Larger(MaxAttempts, 1)

\* A call has an operation once it is submitted, its place goes with its
\* transport, an attempt begins without an answer, and the attempts are
\* within the budget, one re-sign aside.
Stage(c) ==
    /\ call[c].op = None <=> call[c].pc = "idle"
    /\ call[c].pc \in {"connect", "wait"} => call[c].via = "ws"
    /\ call[c].pc \in {"charge", "gate", "wire", "backoff"} => call[c].via = "rest"
    /\ call[c].pc \in {"idle", "charge", "gate", "backoff", "connect"} => call[c].answer = None
    /\ call[c].op = "reconcile" => call[c].via = "rest"
    /\ call[c].pc = "gate" => call[c].op # "get"
    /\ call[c].attempt <= Budget + 1
    /\ call[c].pc = "backoff" => call[c].attempt <= Budget
    /\ ~call[c].resigned =>
         /\ call[c].attempt <= Budget
         /\ call[c].pc = "backoff" => call[c].attempt < Budget

Stages == \A c \in Calls : Stage(c)

\* A call that waits for the gate is in it, and one whose signed request is
\* on the wire is at its head.
GateHeld ==
    \A c \in Calls :
        /\ call[c].pc = "gate" => \E i \in DOMAIN gate : gate[i] = c
        /\ call[c].pc = "wire" /\ call[c].op # "get" => gate # <<>> /\ Head(gate) = c

\* No request has a nonce that was not drawn; the call on the wire has the
\* last one; and the exchange is behind it as long as nobody else signs.
NoncesOrdered ==
    /\ \A m \in net : m.nonce <= last
    /\ \A m \in net : call[m.call].via = "ws" => m.nonce = 0
    /\ \A m, n \in net : m.nonce = last /\ n.nonce = last /\ last > 0 => m = n
    /\ \A c \in Calls : call[c].pc = "wire" /\ call[c].op # "get" => call[c].nonce = last
    /\ \A c \in Calls : call[c].pc = "wire" /\ call[c].op = "get" => call[c].nonce <= 0
    /\ ~foreign =>
         /\ exNonce <= last
         /\ \A m \in net : m.nonce = last /\ last > 0 => exNonce < last
         /\ ~poisoned
         /\ \A c \in Calls : call[c].answer # "invalid_nonce"

\* Nothing of c was executed and nothing of it is under way.
Clean(c) == executed[c] = 0 /\ \A m \in net : m.call # c

\* A placement has at most one request, and that is executed or under way.
Sent(c) ==
    /\ call[c].pc = "idle" => Clean(c)
    /\ call[c].op \in Placements =>
         /\ call[c].pc \in {"charge", "gate", "connect"} => Clean(c)
         /\ call[c].pc # "backoff"
         /\ \A m, n \in net : m.call = c /\ n.call = c => m = n
         /\ executed[c] > 0 => executed[c] = 1 /\ \A m \in net : m.call # c

SentOnce == \A c \in Calls : Sent(c)

\* Answers whose event tells that the order may have been placed.
Telling == {"ok", "drained", "loop_closed", "deadline"} \union NoAnswer

Told(c) ==
    events[c] \intersect {"WireSent", "WireAccepted", "Ambiguous", "CancellationAttempted"} # {}

\* An add or an amend that has an answer which tells nothing is clean; at its
\* end one that tells is told.
Fate(c) ==
    call[c].op \in {"add", "amend"} =>
        /\ (/\ call[c].pc \in {"wire", "wait", "returned", "done"}
            /\ call[c].answer \notin Telling \union {None, "shape"} \union Statuses) => Clean(c)
        /\ call[c].pc \in {"returned", "done"} => call[c].answer # None
        /\ call[c].pc = "done" /\ call[c].answer \in Telling => Told(c)
        /\ call[c].pc = "dropped" => Told(c) \/ Clean(c)

FateKept == \A c \in Calls : Fate(c)

\* Only an executed add has an order; one that was placed when a reconcile
\* began has closed if the open list did not have it, and is then in the other.
SoughtFor(c) ==
    /\ order[c] # "absent" => call[c].op = "add" /\ executed[c] > 0
    /\ call[c].op # "reconcile" => leg[c] = "open"
    /\ call[c].op = "reconcile" /\ sought[c].placed =>
         /\ order[sought[c].target] # "absent"
         /\ call[c].answer = "nothing" \/ leg[c] = "closed" => order[sought[c].target] = "closed"
         /\ leg[c] = "closed" \/ call[c].pc = "done" => call[c].answer # "nothing"

SoughtKept == \A c \in Calls : SoughtFor(c)

IInv == CallTypes /\ Stages /\ GateHeld /\ NoncesOrdered /\ SentOnce /\ FateKept /\ SoughtKept

-----------------------------------------------------------------------------
(* Steps of one call.                                                      *)

\* A budget is a positive number of attempts.
LEMMA BudgetType == Budget \in Nat /\ Budget >= 1
BY RestAssumption DEF Budget, Larger

\* Without c the gate keeps the other calls, and its head unless that is c.
LEMMA LeftFacts ==
    ASSUME NEW q \in Seq(Calls), NEW c \in Calls
    PROVE  /\ Left(q, c) \in Seq(Calls)
           /\ \A d \in Calls \ {c} :
                (\E i \in DOMAIN q : q[i] = d) => \E i \in DOMAIN Left(q, c) : Left(q, c)[i] = d
           /\ q # <<>> /\ Head(q) # c => Left(q, c) # <<>> /\ Head(Left(q, c)) = Head(q)
<1>1. CASE \A i \in DOMAIN q : q[i] # c
  BY <1>1 DEF Left
<1>2. CASE \E i \in DOMAIN q : q[i] = c
  <2> DEFINE n == CHOOSE i \in DOMAIN q : q[i] = c
             r == [i \in 1..(Len(q) - 1) |-> IF i < n THEN q[i] ELSE q[i + 1]]
  <2>1. n \in 1..Len(q) /\ q[n] = c
    BY <1>2
  <2>2. Left(q, c) = r
    BY <1>2 DEF Left
  <2> HIDE DEF n
  <2>3. r \in Seq(Calls) /\ Len(r) = Len(q) - 1 /\ DOMAIN r = 1..(Len(q) - 1)
    BY <2>1
  <2>4. ASSUME NEW d \in Calls \ {c}, NEW i \in DOMAIN q, q[i] = d
        PROVE  \E j \in DOMAIN r : r[j] = d
    <3>1. CASE i < n
      <4>1. i \in DOMAIN r /\ r[i] = d
        BY <2>1, <2>3, <2>4, <3>1
      <4> QED BY <4>1
    <3>2. CASE ~(i < n)
      <4>1. i - 1 \in DOMAIN r /\ r[i - 1] = d
        BY <2>1, <2>3, <2>4, <3>2
      <4> QED BY <4>1
    <3> QED BY <3>1, <3>2
  <2>5. ASSUME q # <<>>, Head(q) # c
        PROVE  r # <<>> /\ Head(r) = Head(q)
    <3>1. n > 1 /\ Len(q) > 1
      BY <2>1, <2>5
    <3>2. 1 \in DOMAIN r /\ r[1] = q[1] /\ Len(r) >= 1
      BY <2>3, <3>1
    <3> HIDE DEF r
    <3>3. r # <<>> /\ Head(r) = r[1]
      BY <2>3, <3>2
    <3>4. Head(q) = q[1]
      BY <2>5
    <3> QED BY <3>2, <3>3, <3>4
  <2> QED BY <2>2, <2>3, <2>4, <2>5
<1> QED BY <1>1, <1>2

\* The places of a call and the answers it may have, one by one.
LEMMA Names ==
    /\ \A p \in {"charge", "gate", "wire", "backoff", "connect", "wait", "returned", "done",
                 "dropped"} : p \in CallStates
    /\ \A e \in {"ok", "found", "nothing", "blocked", "loop_dead", "not_open", "queue_full",
                 "drained", "deadline", "loop_closed", "rate_limit", "timed_out", "undecoded",
                 "shape", "invalid_nonce", None} : e \in Answers
    /\ Errors \subseteq Answers /\ Codes \subseteq Errors
    /\ Unsent \subseteq Errors /\ Statuses \subseteq Errors
    /\ "rest" \in {"rest", "ws"} /\ "ws" \in {"rest", "ws"}
    /\ Idle.op = None /\ Idle.pc = "idle" /\ Idle \in CallRecords
BY DEF CallStates, Answers, Errors, Codes, Unsent, Statuses, NoAnswer, Idle, CallRecords

\* A step does not touch the call d, though a request of it may be gone.
Untouched(d) ==
    /\ call'[d] = call[d]
    /\ executed'[d] = executed[d]
    /\ events'[d] = events[d]
    /\ sought'[d] = sought[d]
    /\ leg'[d] = leg[d]
    /\ order'[d] # "absent" => order[d] # "absent"
    /\ \A m \in net' : m.call = d => m \in net

\* Orders are not reopened and do not vanish in a step.
OrdersKept ==
    \A t \in Calls :
        /\ order[t] = "closed" => order'[t] = "closed"
        /\ order[t] # "absent" => order'[t] # "absent"

\* What the invariant says of a call that is not touched it still says of it.
LEMMA UntouchedKeeps ==
    ASSUME IInv, CallTypes', OrdersKept, NEW d \in Calls, Untouched(d)
    PROVE  Stage(d)' /\ Sent(d)' /\ Fate(d)' /\ SoughtFor(d)'
<1>1. Stage(d)'
  BY DEF IInv, Stages, Stage, Untouched, Budget, Larger
<1>2. Clean(d) => Clean(d)'
  BY DEF Untouched, Clean
<1>3. Sent(d)'
  BY <1>2 DEF IInv, SentOnce, Sent, Untouched
<1>4. Told(d) => Told(d)'
  BY DEF Told, Untouched
<1>5. Fate(d)'
  BY <1>2, <1>4 DEF IInv, FateKept, Fate, Untouched
<1>6. SoughtFor(d)'
  BY DEF IInv, SoughtKept, SoughtFor, Untouched, OrdersKept, CallTypes
<1> QED BY <1>1, <1>3, <1>5, <1>6

\* A step touches the call c at most.
LEMMA OneTouched ==
    ASSUME IInv, CallTypes', OrdersKept, NEW c \in Calls,
           \A d \in Calls \ {c} : Untouched(d),
           Stage(c)', Sent(c)', Fate(c)', SoughtFor(c)', GateHeld', NoncesOrdered'
    PROVE  IInv'
<1>1. \A d \in Calls : Stage(d)' /\ Sent(d)' /\ Fate(d)' /\ SoughtFor(d)'
  BY UntouchedKeeps
<1> QED BY <1>1 DEF IInv, Stages, SentOnce, FateKept, SoughtKept

\* A step that draws no nonce and sends no request leaves nonces in order.
LEMMA NoncesKept ==
    ASSUME IInv, CallTypes', NEW c \in Calls, \A d \in Calls \ {c} : Untouched(d),
           net' \subseteq net, UNCHANGED <<last, exNonce, foreign>>,
           call'[c].via = call[c].via \/ \A m \in net : m.call # c,
           call'[c].pc = "wire" => call[c].pc = "wire" /\ call'[c].op = call[c].op
                                   /\ call'[c].nonce = call[c].nonce,
           ~foreign => ~poisoned' /\ call'[c].answer # "invalid_nonce"
    PROVE  NoncesOrdered'
<1>1. \A d \in Calls : call'[d].pc = "wire" => call[d].pc = "wire" /\ call'[d].op = call[d].op
                                               /\ call'[d].nonce = call[d].nonce
  BY DEF Untouched
<1>2. \A m \in net' : m \in Messages /\ m \in net /\ call'[m.call].via = call[m.call].via
  BY DEF IInv, CallTypes, Untouched, Messages
<1>3. ~foreign => \A d \in Calls : call'[d].answer # "invalid_nonce"
  BY DEF Untouched, IInv, NoncesOrdered
<1> QED BY <1>1, <1>2, <1>3 DEF IInv, NoncesOrdered

\* A call that leaves the gate leaves the others their place in it.
LEMMA GateKept ==
    ASSUME IInv, NEW c \in Calls, \A d \in Calls \ {c} : Untouched(d),
           \/ gate' \in {gate, Left(gate, c)} /\ call'[c].pc \notin {"gate", "wire"}
           \/ gate' = gate /\ call'[c].pc = call[c].pc /\ call'[c].op = call[c].op
    PROVE  GateHeld'
<1>1. /\ \A d \in Calls \ {c} :
           (\E i \in DOMAIN gate : gate[i] = d) =>
               \E i \in DOMAIN Left(gate, c) : Left(gate, c)[i] = d
      /\ gate # <<>> /\ Head(gate) # c =>
           Left(gate, c) # <<>> /\ Head(Left(gate, c)) = Head(gate)
  <2>1. gate \in Seq(Calls)
    BY DEF IInv, CallTypes
  <2> QED BY <2>1, LeftFacts
<1>2. SUFFICES ASSUME NEW d \in Calls
               PROVE  /\ call'[d].pc = "gate" => \E i \in DOMAIN gate' : gate'[i] = d
                      /\ call'[d].pc = "wire" /\ call'[d].op # "get" => gate' # <<>> /\ Head(gate') = d
  BY DEF GateHeld
<1>3. CASE d = c
  BY <1>3 DEF IInv, GateHeld
<1>4. CASE d # c /\ gate' = gate
  BY <1>4 DEF IInv, GateHeld, Untouched
<1>5. CASE d # c /\ gate' = Left(gate, c)
  <2>1. /\ (\E i \in DOMAIN gate : gate[i] = d) =>
             \E i \in DOMAIN Left(gate, c) : Left(gate, c)[i] = d
        /\ gate # <<>> /\ Head(gate) # c =>
             Left(gate, c) # <<>> /\ Head(Left(gate, c)) = Head(gate)
    BY <1>1, <1>5
  <2>2. call'[d] = call[d]
    BY <1>5 DEF Untouched
  <2> QED BY <1>5, <2>1, <2>2 DEF IInv, GateHeld
<1> QED BY <1>3, <1>4, <1>5

\* A placement with a request under way has no other and was not executed.
LEMMA OneRequest ==
    ASSUME IInv, NEW c \in Calls, call[c].op \in Placements, NEW m \in net, m.call = c
    PROVE  /\ executed[c] = 0
           /\ \A n \in net : n.call = c => n = m
           /\ call[c].pc \notin {"idle", "charge", "gate", "connect", "backoff"}
           /\ ~Clean(c)
<1>1. Sent(c) /\ executed[c] \in Nat
  BY DEF IInv, SentOnce, CallTypes
<1>2. executed[c] = 0
  BY <1>1 DEF Sent
<1>3. ~Clean(c)
  BY DEF Clean
<1>4. \A n \in net : n.call = c => n = m
  BY <1>1 DEF Sent
<1> QED BY <1>1, <1>2, <1>3, <1>4 DEF Sent

\* What a frame of c is, in the caller queue and on the socket.
LEMMA FrameFacts ==
    ASSUME NEW c \in Calls
    PROVE  Frame(c) \in Messages /\ Frame(c).call = c /\ Frame(c).nonce = 0 /\ Frame(c).queued = TRUE
BY DEF Frame, Messages

LEMMA OnSocketFacts ==
    ASSUME NEW c \in Calls
    PROVE  OnSocket(c) \in Messages /\ OnSocket(c).call = c /\ OnSocket(c).nonce = 0
BY DEF OnSocket, Request, Messages

\* A WS order that is not posted.
LEMMA WsNotPostedKeeps ==
    ASSUME IInv, NEW c \in Calls, NEW e \in {"not_open", "rate_limit", "queue_full"},
           WsNotPosted(c, e)
    PROVE  IInv'
<1>1. call' \in [Calls -> CallRecords]
  <2>1. call[c] \in CallRecords /\ "returned" \in CallStates /\ e \in Answers
    BY Names DEF IInv, CallTypes
  <2>2. [call[c] EXCEPT !.pc = "returned", !.answer = e] \in CallRecords
    BY <2>1 DEF CallRecords
  <2> QED BY <2>2 DEF IInv, CallTypes, WsNotPosted, WsResumes
<1>2. CallTypes'
  BY <1>1 DEF IInv, CallTypes, Messages, WsNotPosted, WsResumes, WsUnchanged, orderVars
<1>3. /\ call'[c].op = call[c].op /\ call'[c].via = call[c].via
      /\ call'[c].pc = "returned" /\ call'[c].attempt = call[c].attempt
      /\ call'[c].resigned = call[c].resigned /\ call'[c].nonce = call[c].nonce
      /\ call'[c].answer = e
  BY DEF IInv, CallTypes, CallRecords, WsNotPosted, WsResumes, WsUnchanged, orderVars
<1>4. OrdersKept /\ \A d \in Calls \ {c} : Untouched(d)
  BY DEF IInv, CallTypes, OrdersKept, Untouched, WsNotPosted, WsResumes, WsUnchanged,
         orderVars
<1>5. Stage(c)'
  BY <1>3, BudgetType
     DEF IInv, CallTypes, CallRecords, Stages, Stage, None, WsNotPosted, WsResumes,
         WsUnchanged, orderVars
<1>6. Sent(c)'
  BY <1>3
     DEF IInv, CallTypes, SentOnce, Sent, Clean, WsNotPosted, WsResumes, WsUnchanged,
         orderVars
<1>7. Fate(c)'
  BY <1>3
     DEF IInv, CallTypes, FateKept, Fate, SentOnce, Sent, Clean, Telling, NoAnswer,
         Statuses, Placements, None, Told, WsNotPosted, WsResumes, WsUnchanged, orderVars
<1>8. SoughtFor(c)'
  BY <1>3
     DEF IInv, CallTypes, SoughtKept, SoughtFor, None, WsNotPosted, WsResumes, WsUnchanged,
         orderVars
<1>9. GateHeld'
  BY <1>3, <1>4, GateKept DEF WsNotPosted, WsResumes, WsUnchanged, orderVars
<1>10. NoncesOrdered'
  BY <1>2, <1>3, <1>4, NoncesKept
     DEF IInv, NoncesOrdered, None, WsNotPosted, WsResumes, WsUnchanged, orderVars
<1> QED BY <1>2, <1>4, <1>5, <1>6, <1>7, <1>8, <1>9, <1>10, OneTouched

\* A WS order is posted.
LEMMA WsPostedKeeps ==
    ASSUME IInv, NEW c \in Calls, WsPosted(c)
    PROVE  IInv'
<1>1. call' \in [Calls -> CallRecords]
  BY Names, ZenonT(60) DEF IInv, CallTypes, CallRecords, WsPosted, WsResumes, WsUnchanged, orderVars
<1>2. CallTypes'
  BY FrameFacts, <1>1, ZenonT(60)
     DEF IInv, CallTypes, Messages, WsPosted, WsResumes, WsUnchanged, orderVars
<1>3. /\ call'[c].op = call[c].op /\ call'[c].via = call[c].via
      /\ call'[c].pc = "wait" /\ call'[c].attempt = call[c].attempt
      /\ call'[c].resigned = call[c].resigned /\ call'[c].nonce = call[c].nonce
      /\ call'[c].answer = call[c].answer
  BY DEF IInv, CallTypes, CallRecords, WsPosted, WsResumes, WsUnchanged, orderVars
<1>4. OrdersKept /\ \A d \in Calls \ {c} : Untouched(d)
  BY FrameFacts
     DEF IInv, CallTypes, OrdersKept, Untouched, WsPosted, WsResumes, WsUnchanged, orderVars
<1>5. Stage(c)'
  BY <1>3, BudgetType
     DEF IInv, CallTypes, CallRecords, Stages, Stage, None, WsPosted, WsResumes,
         WsUnchanged, orderVars
<1>6. Sent(c)'
  BY FrameFacts, <1>3
     DEF IInv, CallTypes, SentOnce, Sent, Clean, WsPosted, WsResumes, WsUnchanged, orderVars
<1>7. Fate(c)'
  <2>1. call[c].op \in Placements => executed'[c] = 0 /\ call[c].answer = None
    BY DEF IInv, Stages, Stage, SentOnce, Sent, WsPosted, WsUnchanged, orderVars, Clean
  <2> QED BY <1>3, <2>1 DEF Fate, Telling, Placements
<1>8. SoughtFor(c)'
  BY <1>3
     DEF IInv, CallTypes, SoughtKept, SoughtFor, None, WsPosted, WsResumes, WsUnchanged,
         orderVars
<1>9. GateHeld'
  BY <1>3, <1>4, GateKept DEF WsPosted, WsResumes, WsUnchanged, orderVars
<1>10. NoncesOrdered'
  <2>1. \A m \in net' : m \in net \/ (m.call = c /\ m.nonce = 0)
    BY FrameFacts DEF WsPosted
  <2>2. \A d \in Calls : call'[d].via = call[d].via
    BY <1>3, <1>4 DEF Untouched
  <2> QED BY <1>2, <1>3, <1>4, <2>1, <2>2, FrameFacts, SMTT(30)
             DEF IInv, CallTypes, NoncesOrdered, WsPosted, WsUnchanged, Untouched, Messages,
                 Stages, Stage
<1> QED BY <1>2, <1>4, <1>5, <1>6, <1>7, <1>8, <1>9, <1>10, OneTouched

\* The reactor refuses the frame of a WS order.
LEMMA WsRefusedKeeps ==
    ASSUME IInv, NEW c \in Calls, WsRefused(c)
    PROVE  IInv'
<1>1. call' \in [Calls -> CallRecords]
  BY Names, ZenonT(60) DEF IInv, CallTypes, CallRecords, WsRefused, WsResumes, WsUnchanged, orderVars
<1>2. CallTypes'
  BY FrameFacts, <1>1
     DEF IInv, CallTypes, Messages, WsRefused, WsResumes, WsUnchanged, orderVars
<1>3. /\ call'[c].op = call[c].op /\ call'[c].via = call[c].via
      /\ call'[c].pc = "returned" /\ call'[c].attempt = call[c].attempt
      /\ call'[c].resigned = call[c].resigned /\ call'[c].nonce = call[c].nonce
      /\ call'[c].answer = "not_open"
  BY DEF IInv, CallTypes, CallRecords, WsRefused, WsResumes, WsUnchanged, orderVars
<1>4. OrdersKept /\ \A d \in Calls \ {c} : Untouched(d)
  BY FrameFacts
     DEF IInv, CallTypes, OrdersKept, Untouched, WsRefused, WsResumes, WsUnchanged,
         orderVars
<1>5. Stage(c)'
  BY <1>3, BudgetType
     DEF IInv, CallTypes, CallRecords, Stages, Stage, None, WsRefused, WsResumes,
         WsUnchanged, orderVars
<1>6. Sent(c)'
  BY FrameFacts, <1>3
     DEF IInv, CallTypes, SentOnce, Sent, Clean, WsRefused, WsResumes, WsUnchanged,
         orderVars
<1>7. Fate(c)'
  <2>1. /\ net' = net \ {Frame(c)} /\ Frame(c) \in net
        /\ executed' = executed
    BY DEF WsRefused, WsUnchanged, orderVars
  <2>2. call[c].op \in Placements => Clean(c)'
    <3> HAVE call[c].op \in Placements
    <3>1. executed[c] = 0 /\ \A n \in net : n.call = c => n = Frame(c)
      BY <2>1, FrameFacts, OneRequest
    <3> QED BY <2>1, <3>1 DEF Clean
  <2> QED BY <1>3, <2>2 DEF Fate, Telling, Placements, None
<1>8. SoughtFor(c)'
  BY <1>3
     DEF IInv, CallTypes, SoughtKept, SoughtFor, None, WsRefused, WsResumes, WsUnchanged,
         orderVars
<1>9. GateHeld'
  BY <1>3, <1>4, GateKept DEF WsRefused, WsResumes, WsUnchanged, orderVars
<1>10. NoncesOrdered'
  BY <1>2, <1>3, <1>4, NoncesKept
     DEF IInv, NoncesOrdered, None, WsRefused, WsResumes, WsUnchanged, orderVars
<1> QED BY <1>2, <1>4, <1>5, <1>6, <1>7, <1>8, <1>9, <1>10, OneTouched

\* The frame of a WS order goes to the socket.
LEMMA WsSentKeeps ==
    ASSUME IInv, NEW c \in Calls, WsSent(c)
    PROVE  IInv'
<1>1. call' \in [Calls -> CallRecords]
  BY Names DEF IInv, CallTypes, CallRecords, WsSent, WsResumes, WsUnchanged, orderVars
<1>2. CallTypes'
  BY <1>1, OnSocketFacts DEF IInv, CallTypes, WsSent, WsUnchanged, orderVars
<1>3. /\ call'[c].op = call[c].op /\ call'[c].via = call[c].via
      /\ call'[c].pc = call[c].pc /\ call'[c].attempt = call[c].attempt
      /\ call'[c].resigned = call[c].resigned /\ call'[c].nonce = call[c].nonce
      /\ call'[c].answer = call[c].answer
  BY DEF IInv, CallTypes, CallRecords, WsSent, WsResumes, WsUnchanged, orderVars
<1>4. OrdersKept /\ \A d \in Calls \ {c} : Untouched(d)
  BY FrameFacts, OnSocketFacts
     DEF IInv, CallTypes, OrdersKept, Untouched, WsSent, WsResumes, WsUnchanged, orderVars
<1>5. Stage(c)'
  BY <1>3, BudgetType
     DEF IInv, CallTypes, CallRecords, Stages, Stage, None, WsSent, WsResumes, WsUnchanged,
         orderVars
<1>6. Sent(c)'
  <2>1. net' = (net \ {Frame(c)}) \union {OnSocket(c)} /\ Frame(c) \in net
    BY DEF WsSent
  <2>2. executed' = executed
    BY DEF WsSent, WsUnchanged, orderVars
  <2>3. \A m \in net : m.call = c /\ call[c].op \in Placements => m = Frame(c)
    BY <2>1, FrameFacts DEF IInv, SentOnce, Sent
  <2>4. \A m \in net' : m.call = c /\ call[c].op \in Placements => m = OnSocket(c)
    BY <2>1, <2>3
  <2>5. call[c].op \in Placements => executed[c] = 0 /\ call[c].pc \notin {"charge", "gate", "connect", "backoff"}
    BY <2>1, FrameFacts, OneRequest
  <2>6. call[c].pc # "idle"
    BY <2>1, FrameFacts DEF IInv, SentOnce, Sent, Clean
  <2> QED BY <1>3, <2>2, <2>4, <2>5, <2>6 DEF Sent, Clean
<1>7. Fate(c)'
  <2>1. ~Clean(c) /\ UNCHANGED <<call, events>>
    BY FrameFacts DEF WsSent, WsUnchanged, orderVars, Clean
  <2>2. Told(c) => Told(c)'
    BY <2>1 DEF Told
  <2> QED BY <2>1, <2>2 DEF IInv, FateKept, Fate
<1>8. SoughtFor(c)'
  BY <1>3
     DEF IInv, CallTypes, SoughtKept, SoughtFor, None, WsSent, WsResumes, WsUnchanged,
         orderVars
<1>9. GateHeld'
  BY <1>3, <1>4, GateKept DEF WsSent, WsResumes, WsUnchanged, orderVars
<1>10. NoncesOrdered'
  <2>1. net' = (net \ {Frame(c)}) \union {OnSocket(c)} /\ Frame(c) \in net
    BY DEF WsSent
  <2>2. UNCHANGED <<call, last, exNonce, foreign, poisoned>>
    BY DEF WsSent, WsUnchanged
  <2>3. \A m \in net' : m \in net \/ (m.call = c /\ m.nonce = 0)
    BY <2>1, OnSocketFacts
  <2>4. 0 <= last
    BY DEF IInv, CallTypes
  <2> QED BY <2>1, <2>2, <2>3, <2>4 DEF IInv, NoncesOrdered
<1> QED BY <1>2, <1>4, <1>5, <1>6, <1>7, <1>8, <1>9, <1>10, OneTouched

\* The frame of a caller that gave up is refused.
LEMMA WsForgottenKeeps ==
    ASSUME IInv, NEW c \in Calls, WsForgotten(c)
    PROVE  IInv'
<1>1. call' \in [Calls -> CallRecords]
  BY Names DEF IInv, CallTypes, CallRecords, WsForgotten, WsResumes, WsUnchanged, orderVars
<1>2. CallTypes'
  BY FrameFacts, <1>1
     DEF IInv, CallTypes, Messages, WsForgotten, WsResumes, WsUnchanged, orderVars
<1>3. /\ call'[c].op = call[c].op /\ call'[c].via = call[c].via
      /\ call'[c].pc = call[c].pc /\ call'[c].attempt = call[c].attempt
      /\ call'[c].resigned = call[c].resigned /\ call'[c].nonce = call[c].nonce
      /\ call'[c].answer = call[c].answer
  BY DEF IInv, CallTypes, CallRecords, WsForgotten, WsResumes, WsUnchanged, orderVars
<1>4. OrdersKept /\ \A d \in Calls \ {c} : Untouched(d)
  BY FrameFacts
     DEF IInv, CallTypes, OrdersKept, Untouched, WsForgotten, WsResumes, WsUnchanged,
         orderVars
<1>5. Stage(c)'
  BY <1>3, BudgetType
     DEF IInv, CallTypes, CallRecords, Stages, Stage, None, WsForgotten, WsResumes,
         WsUnchanged, orderVars
<1>6. Sent(c)'
  BY FrameFacts, <1>3
     DEF IInv, CallTypes, SentOnce, Sent, Clean, WsForgotten, WsResumes, WsUnchanged,
         orderVars
<1>7. Fate(c)'
  BY FrameFacts, <1>3
     DEF IInv, CallTypes, FateKept, Fate, SentOnce, Sent, Clean, Telling, NoAnswer,
         Statuses, Placements, None, Told, WsForgotten, WsResumes, WsUnchanged, orderVars
<1>8. SoughtFor(c)'
  BY <1>3
     DEF IInv, CallTypes, SoughtKept, SoughtFor, None, WsForgotten, WsResumes, WsUnchanged,
         orderVars
<1>9. GateHeld'
  BY <1>3, <1>4, GateKept DEF WsForgotten, WsResumes, WsUnchanged, orderVars
<1>10. NoncesOrdered'
  BY <1>2, <1>3, <1>4, NoncesKept
     DEF IInv, NoncesOrdered, None, WsForgotten, WsResumes, WsUnchanged, orderVars
<1> QED BY <1>2, <1>4, <1>5, <1>6, <1>7, <1>8, <1>9, <1>10, OneTouched

\* The connection of a WS order in flight is lost.
LEMMA WsDrainedKeeps ==
    ASSUME IInv, NEW c \in Calls, WsDrained(c)
    PROVE  IInv'
<1>1. call' \in [Calls -> CallRecords]
  BY Names, ZenonT(60) DEF IInv, CallTypes, CallRecords, WsDrained, WsResumes, WsUnchanged, orderVars
<1>2. CallTypes'
  BY FrameFacts, <1>1
     DEF IInv, CallTypes, Messages, WsDrained, WsResumes, WsUnchanged, orderVars
<1>3. /\ call'[c].op = call[c].op /\ call'[c].via = call[c].via
      /\ call'[c].pc = "returned" /\ call'[c].attempt = call[c].attempt
      /\ call'[c].resigned = call[c].resigned /\ call'[c].nonce = call[c].nonce
      /\ call'[c].answer = "drained"
  BY DEF IInv, CallTypes, CallRecords, WsDrained, WsResumes, WsUnchanged, orderVars
<1>4. OrdersKept /\ \A d \in Calls \ {c} : Untouched(d)
  BY FrameFacts
     DEF IInv, CallTypes, OrdersKept, Untouched, WsDrained, WsResumes, WsUnchanged,
         orderVars
<1>5. Stage(c)'
  BY <1>3, BudgetType
     DEF IInv, CallTypes, CallRecords, Stages, Stage, None, WsDrained, WsResumes,
         WsUnchanged, orderVars
<1>6. Sent(c)'
  BY FrameFacts, <1>3
     DEF IInv, CallTypes, SentOnce, Sent, Clean, WsDrained, WsResumes, WsUnchanged,
         orderVars
<1>7. Fate(c)'
  BY FrameFacts, <1>3
     DEF IInv, CallTypes, FateKept, Fate, SentOnce, Sent, Clean, Telling, NoAnswer,
         Statuses, Placements, None, Told, WsDrained, WsResumes, WsUnchanged, orderVars
<1>8. SoughtFor(c)'
  BY <1>3
     DEF IInv, CallTypes, SoughtKept, SoughtFor, None, WsDrained, WsResumes, WsUnchanged,
         orderVars
<1>9. GateHeld'
  BY <1>3, <1>4, GateKept DEF WsDrained, WsResumes, WsUnchanged, orderVars
<1>10. NoncesOrdered'
  BY <1>2, <1>3, <1>4, NoncesKept
     DEF IInv, NoncesOrdered, None, WsDrained, WsResumes, WsUnchanged, orderVars
<1> QED BY <1>2, <1>4, <1>5, <1>6, <1>7, <1>8, <1>9, <1>10, OneTouched

\* The response deadline of a WS order passes.
LEMMA WsDeadlineKeeps ==
    ASSUME IInv, NEW c \in Calls, WsDeadline(c)
    PROVE  IInv'
<1>1. call' \in [Calls -> CallRecords]
  BY Names, ZenonT(60) DEF IInv, CallTypes, CallRecords, WsDeadline, WsResumes, WsUnchanged, orderVars
<1>2. CallTypes'
  BY <1>1 DEF IInv, CallTypes, Messages, WsDeadline, WsResumes, WsUnchanged, orderVars
<1>3. /\ call'[c].op = call[c].op /\ call'[c].via = call[c].via
      /\ call'[c].pc = "returned" /\ call'[c].attempt = call[c].attempt
      /\ call'[c].resigned = call[c].resigned /\ call'[c].nonce = call[c].nonce
      /\ call'[c].answer = "deadline"
  BY DEF IInv, CallTypes, CallRecords, WsDeadline, WsResumes, WsUnchanged, orderVars
<1>4. OrdersKept /\ \A d \in Calls \ {c} : Untouched(d)
  BY DEF IInv, CallTypes, OrdersKept, Untouched, WsDeadline, WsResumes, WsUnchanged,
         orderVars
<1>5. Stage(c)'
  BY <1>3, BudgetType
     DEF IInv, CallTypes, CallRecords, Stages, Stage, None, WsDeadline, WsResumes,
         WsUnchanged, orderVars
<1>6. Sent(c)'
  BY <1>3
     DEF IInv, CallTypes, SentOnce, Sent, Clean, WsDeadline, WsResumes, WsUnchanged,
         orderVars
<1>7. Fate(c)'
  BY <1>3
     DEF IInv, CallTypes, FateKept, Fate, SentOnce, Sent, Clean, Telling, NoAnswer,
         Statuses, Placements, None, Told, WsDeadline, WsResumes, WsUnchanged, orderVars
<1>8. SoughtFor(c)'
  BY <1>3
     DEF IInv, CallTypes, SoughtKept, SoughtFor, None, WsDeadline, WsResumes, WsUnchanged,
         orderVars
<1>9. GateHeld'
  BY <1>3, <1>4, GateKept DEF WsDeadline, WsResumes, WsUnchanged, orderVars
<1>10. NoncesOrdered'
  BY <1>2, <1>3, <1>4, NoncesKept
     DEF IInv, NoncesOrdered, None, WsDeadline, WsResumes, WsUnchanged, orderVars
<1> QED BY <1>2, <1>4, <1>5, <1>6, <1>7, <1>8, <1>9, <1>10, OneTouched

\* The answer to a WS order arrives.
LEMMA WsAnsweredKeeps ==
    ASSUME IInv, NEW c \in Calls, WsAnswered(c)
    PROVE  IInv'
<1>1. call' \in [Calls -> CallRecords]
  BY Names, ZenonT(60) DEF IInv, CallTypes, CallRecords, WsAnswered, WsResumes, WsUnchanged, orderVars
<1>2. CallTypes'
  BY <1>1 DEF IInv, CallTypes, Messages, WsAnswered, WsResumes, WsUnchanged, orderVars
<1>3. /\ call'[c].op = call[c].op /\ call'[c].via = call[c].via
      /\ call'[c].pc = "returned" /\ call'[c].attempt = call[c].attempt
      /\ call'[c].resigned = call[c].resigned /\ call'[c].nonce = call[c].nonce
      /\ call'[c].answer = call[c].answer
  BY DEF IInv, CallTypes, CallRecords, WsAnswered, WsResumes, WsUnchanged, orderVars
<1>4. OrdersKept /\ \A d \in Calls \ {c} : Untouched(d)
  BY DEF IInv, CallTypes, OrdersKept, Untouched, WsAnswered, WsResumes, WsUnchanged,
         orderVars
<1>5. Stage(c)'
  BY <1>3, BudgetType
     DEF IInv, CallTypes, CallRecords, Stages, Stage, None, WsAnswered, WsResumes,
         WsUnchanged, orderVars
<1>6. Sent(c)'
  BY <1>3
     DEF IInv, CallTypes, SentOnce, Sent, Clean, WsAnswered, WsResumes, WsUnchanged,
         orderVars
<1>7. Fate(c)'
  BY <1>3
     DEF IInv, CallTypes, FateKept, Fate, SentOnce, Sent, Clean, Telling, NoAnswer,
         Statuses, Placements, None, Told, WsAnswered, WsResumes, WsUnchanged, orderVars
<1>8. SoughtFor(c)'
  BY <1>3
     DEF IInv, CallTypes, SoughtKept, SoughtFor, None, WsAnswered, WsResumes, WsUnchanged,
         orderVars
<1>9. GateHeld'
  BY <1>3, <1>4, GateKept DEF WsAnswered, WsResumes, WsUnchanged, orderVars
<1>10. NoncesOrdered'
  BY <1>2, <1>3, <1>4, NoncesKept
     DEF IInv, NoncesOrdered, None, WsAnswered, WsResumes, WsUnchanged, orderVars
<1> QED BY <1>2, <1>4, <1>5, <1>6, <1>7, <1>8, <1>9, <1>10, OneTouched

\* A charge fits, and the call queues at the gate.
LEMMA PassChargeKeeps ==
    ASSUME IInv, NEW c \in Calls, PassCharge(c), UNCHANGED orderVars
    PROVE  IInv'
<1>1. call' \in [Calls -> CallRecords]
  BY Names, ZenonT(60) DEF IInv, CallTypes, CallRecords, PassCharge, orderVars
<1>2. CallTypes'
  BY <1>1 DEF IInv, CallTypes, Messages, PassCharge, orderVars
<1>3. /\ call'[c].op = call[c].op /\ call'[c].via = call[c].via
      /\ call'[c].pc = "gate" /\ call'[c].attempt = call[c].attempt
      /\ call'[c].resigned = call[c].resigned /\ call'[c].nonce = call[c].nonce
      /\ call'[c].answer = call[c].answer
  BY DEF IInv, CallTypes, CallRecords, PassCharge, orderVars
<1>4. OrdersKept /\ \A d \in Calls \ {c} : Untouched(d)
  BY DEF IInv, CallTypes, OrdersKept, Untouched, PassCharge, orderVars
<1>5. Stage(c)'
  BY <1>3, BudgetType
     DEF IInv, CallTypes, CallRecords, Stages, Stage, None, PassCharge, orderVars
<1>6. Sent(c)'
  BY <1>3 DEF IInv, CallTypes, SentOnce, Sent, Clean, PassCharge, orderVars
<1>7. Fate(c)'
  BY <1>3
     DEF IInv, CallTypes, FateKept, Fate, SentOnce, Sent, Clean, Telling, NoAnswer,
         Statuses, Placements, None, Told, PassCharge, orderVars
<1>8. SoughtFor(c)'
  BY <1>3 DEF IInv, CallTypes, SoughtKept, SoughtFor, None, PassCharge, orderVars
<1>9. GateHeld'
  <2>1. gate \in Seq(Calls) /\ gate' = Append(gate, c)
    BY DEF IInv, CallTypes, PassCharge
  <2>2. gate' \in Seq(Calls) /\ Len(gate') = Len(gate) + 1 /\ gate'[Len(gate) + 1] = c
        /\ \A i \in DOMAIN gate : i \in DOMAIN gate' /\ gate'[i] = gate[i]
    BY <2>1
  <2>3. gate # <<>> => gate' # <<>> /\ Head(gate') = Head(gate)
    BY <2>1
  <2>4. Len(gate) + 1 \in DOMAIN gate'
    BY <2>1, <2>2
  <2>5. \A d \in Calls : call'[d].pc = "gate" => \E i \in DOMAIN gate' : gate'[i] = d
    BY <1>3, <1>4, <2>2, <2>4 DEF IInv, GateHeld, Untouched
  <2>6. \A d \in Calls : call'[d].pc = "wire" => d # c /\ call'[d] = call[d]
    BY <1>3, <1>4 DEF Untouched
  <2> QED BY <2>3, <2>5, <2>6 DEF IInv, GateHeld
<1>10. NoncesOrdered'
  BY <1>2, <1>3, <1>4, NoncesKept DEF IInv, NoncesOrdered, None, PassCharge, orderVars
<1> QED BY <1>2, <1>4, <1>5, <1>6, <1>7, <1>8, <1>9, <1>10, OneTouched

\* The call at the head of the gate signs with a new nonce and sends.
LEMMA SignKeeps ==
    ASSUME IInv, NEW c \in Calls, SignAndSend(c), UNCHANGED orderVars
    PROVE  IInv'
<1> DEFINE request == Request(c, last')
<1>a. /\ last' \in Nat /\ last' > last
      /\ call' = [call EXCEPT ![c].pc = "wire", ![c].nonce = last']
      /\ net' = net \union {request}
  <2>1. PICK w \in Wall :
          /\ last' = NextNonce(w)
          /\ call' = [call EXCEPT ![c].pc = "wire", ![c].nonce = NextNonce(w)]
          /\ net' = net \union {Request(c, NextNonce(w))}
    BY DEF SignAndSend
  <2>2. last' \in Nat /\ last' > last
    BY <2>1, RestAssumption DEF IInv, CallTypes, NextNonce, Larger
  <2> QED BY <2>1, <2>2
<1>b. request \in Messages /\ request.call = c /\ request.nonce = last'
  BY <1>a DEF Messages, Request
<1>c. gate # <<>> /\ Head(gate) = c
  BY DEF SignAndSend, IInv, GateHeld, CallTypes
<1>d. UNCHANGED <<gate, exNonce, foreign, poisoned, orderVars>> /\ call[c].pc = "gate"
  BY DEF SignAndSend
<1>e. call[c].op # "get" /\ call[c].answer = None /\ call[c].via = "rest"
  BY <1>d DEF IInv, Stages, Stage
<1> HIDE DEF request
<1>1. call' \in [Calls -> CallRecords]
  <2>1. call[c] \in CallRecords
    BY DEF IInv, CallTypes
  <2>2. "wire" \in CallStates /\ last' \in Int
    BY <1>a, Names
  <2>3. [call[c] EXCEPT !.pc = "wire", !.nonce = last'] \in CallRecords
    BY <2>1, <2>2 DEF CallRecords
  <2> QED BY <1>a, <2>3 DEF IInv, CallTypes
<1>2. CallTypes'
  BY <1>1, <1>a, <1>b, <1>d DEF IInv, CallTypes, orderVars
<1>3. /\ call'[c].op = call[c].op /\ call'[c].via = call[c].via
      /\ call'[c].pc = "wire" /\ call'[c].attempt = call[c].attempt
      /\ call'[c].resigned = call[c].resigned /\ call'[c].nonce = last'
      /\ call'[c].answer = call[c].answer
  BY <1>a DEF IInv, CallTypes, CallRecords
<1>4. OrdersKept /\ \A d \in Calls \ {c} : Untouched(d)
  BY <1>a, <1>b, <1>d DEF IInv, CallTypes, OrdersKept, Untouched, orderVars
<1>5. Stage(c)'
  BY <1>3, <1>d, <1>e DEF IInv, Stages, Stage
<1>6. Sent(c)'
  BY <1>3, <1>a, <1>b, <1>d DEF IInv, CallTypes, SentOnce, Sent, Clean, orderVars
<1>7. Fate(c)'
  BY <1>3, <1>e DEF Fate
<1>8. SoughtFor(c)'
  BY <1>3, <1>d, <1>e DEF IInv, CallTypes, SoughtKept, SoughtFor, None, orderVars
<1>9. GateHeld'
  BY <1>3, <1>4, <1>c, <1>d DEF IInv, GateHeld, Untouched
<1>10. NoncesOrdered'
  <2>1. \A d \in Calls \ {c} : ~(call'[d].pc = "wire" /\ call'[d].op # "get") /\ call'[d] = call[d]
    BY <1>4, <1>c DEF IInv, GateHeld, Untouched
  <2>2. \A m \in net' : m \in Messages /\ (m = request \/ (m \in net /\ m.nonce < last'))
    BY <1>a, <1>b DEF IInv, CallTypes, NoncesOrdered, Messages
  <2>3. \A m \in net' : call'[m.call].via = call[m.call].via
    BY <1>3, <2>1, <2>2 DEF Messages
  <2>4. \A m \in net' : m.nonce <= last' /\ (m.nonce = last' => m = request)
    BY <1>a, <1>b, <2>2 DEF Messages
  <2>5. \A m \in net' : call'[m.call].via = "ws" => m.nonce = 0
    BY <1>b, <1>e, <2>2, <2>3 DEF IInv, NoncesOrdered
  <2>6. \A d \in Calls : call'[d].pc = "wire" => d = c \/ (call'[d] = call[d] /\ call[d].op = "get")
    BY <2>1
  <2>7. ~foreign => exNonce' < last' /\ ~poisoned' /\ \A d \in Calls : call'[d].answer # "invalid_nonce"
    BY <1>3, <1>a, <1>d, <1>e, <2>1 DEF IInv, CallTypes, NoncesOrdered, None
  <2>8. \A d \in Calls : /\ call'[d].pc = "wire" /\ call'[d].op # "get" => call'[d].nonce = last'
                         /\ call'[d].pc = "wire" /\ call'[d].op = "get" => call'[d].nonce <= 0
    BY <1>3, <1>e, <2>6 DEF IInv, NoncesOrdered
  <2>9. foreign' = foreign /\ \A m, n \in net' : m.nonce = last' /\ n.nonce = last' => m = n
    BY <1>d, <2>4
  <2>10. ~foreign' => exNonce' <= last'
    BY <2>7, <1>a, <1>d DEF IInv, CallTypes
  <2> QED BY <2>4, <2>5, <2>7, <2>8, <2>9, <2>10 DEF NoncesOrdered
<1> QED BY <1>2, <1>4, <1>5, <1>6, <1>7, <1>8, <1>9, <1>10, OneTouched

\* A public GET goes out.
LEMMA SendGetKeeps ==
    ASSUME IInv, NEW c \in Calls, SendGet(c), UNCHANGED orderVars
    PROVE  IInv'
<1> DEFINE request == Request(c, -call[c].attempt)
<1>a. /\ call' = [call EXCEPT ![c].pc = "wire", ![c].nonce = -call[c].attempt]
      /\ net' = net \union {request}
      /\ UNCHANGED <<gate, last, exNonce, foreign, poisoned, orderVars>>
      /\ call[c].pc = "charge" /\ call[c].op = "get"
  BY DEF SendGet
<1>b. -call[c].attempt \in Int /\ -call[c].attempt <= 0
  BY DEF IInv, CallTypes, CallRecords
<1>c. request \in Messages /\ request.call = c /\ request.nonce = -call[c].attempt
  BY <1>b DEF Messages, Request
<1>e. call[c].answer = None /\ call[c].via = "rest"
  BY <1>a DEF IInv, Stages, Stage
<1> HIDE DEF request
<1>1. call' \in [Calls -> CallRecords]
  <2>1. call[c] \in CallRecords
    BY DEF IInv, CallTypes
  <2>2. [call[c] EXCEPT !.pc = "wire", !.nonce = -call[c].attempt] \in CallRecords
    BY <2>1, <1>b, Names DEF CallRecords
  <2> QED BY <1>a, <2>2 DEF IInv, CallTypes
<1>2. CallTypes'
  BY <1>1, <1>a, <1>c DEF IInv, CallTypes, orderVars
<1>3. /\ call'[c].op = call[c].op /\ call'[c].via = call[c].via
      /\ call'[c].pc = "wire" /\ call'[c].attempt = call[c].attempt
      /\ call'[c].resigned = call[c].resigned /\ call'[c].nonce = -call[c].attempt
      /\ call'[c].answer = call[c].answer
  BY <1>a DEF IInv, CallTypes, CallRecords
<1>4. OrdersKept /\ \A d \in Calls \ {c} : Untouched(d)
  BY <1>a, <1>c DEF IInv, CallTypes, OrdersKept, Untouched, orderVars
<1>5. Stage(c)'
  BY <1>3, <1>a, <1>e DEF IInv, Stages, Stage
<1>6. Sent(c)'
  BY <1>3, <1>a DEF Sent, Placements
<1>7. Fate(c)'
  BY <1>3, <1>a DEF Fate
<1>8. SoughtFor(c)'
  BY <1>3, <1>a, <1>e DEF IInv, CallTypes, SoughtKept, SoughtFor, None, orderVars
<1>9. GateHeld'
  BY <1>3, <1>4, <1>a DEF IInv, GateHeld, Untouched
<1>10. NoncesOrdered'
  <2>1. \A m \in net' : m = request \/ m \in net
    BY <1>a
  <2>2. last \in Nat /\ -call[c].attempt <= last /\ (last > 0 => -call[c].attempt # last)
    BY <1>b DEF IInv, CallTypes
  <2>3. \A m \in net' : m.nonce <= last /\ (m.nonce = last /\ last > 0 => m \in net)
    BY <1>c, <2>1, <2>2 DEF IInv, NoncesOrdered
  <2>4. \A m \in net' : call'[m.call].via = "ws" => m.nonce = 0
    <3>1. \A d \in Calls : call'[d].via = call[d].via
      BY <1>3, <1>4 DEF Untouched
    <3>2. \A m \in net : m.call \in Calls /\ (call[m.call].via = "ws" => m.nonce = 0)
      BY DEF IInv, NoncesOrdered, CallTypes, Messages
    <3> QED BY <1>c, <1>e, <2>1, <3>1, <3>2
  <2>5. \A d \in Calls : /\ call'[d].pc = "wire" /\ call'[d].op # "get" => call'[d].nonce = last
                         /\ call'[d].pc = "wire" /\ call'[d].op = "get" => call'[d].nonce <= 0
    BY <1>3, <1>4, <1>a, <1>b, ZenonT(60) DEF IInv, NoncesOrdered, Untouched
  <2>6. ~foreign => \A d \in Calls : call'[d].answer # "invalid_nonce"
    BY <1>3, <1>4 DEF IInv, NoncesOrdered, Untouched
  <2>7. last' = last /\ exNonce' = exNonce /\ foreign' = foreign /\ poisoned' = poisoned
    BY <1>a
  <2> QED BY <2>3, <2>4, <2>5, <2>6, <2>7 DEF IInv, NoncesOrdered
<1> QED BY <1>2, <1>4, <1>5, <1>6, <1>7, <1>8, <1>9, <1>10, OneTouched

\* The backoff is over.
LEMMA WakeKeeps ==
    ASSUME IInv, NEW c \in Calls, Wake(c), UNCHANGED orderVars
    PROVE  IInv'
<1>1. call' \in [Calls -> CallRecords]
  <2>1. call[c] \in CallRecords /\ call[c].attempt + 1 \in Nat /\ "charge" \in CallStates
    BY Names DEF IInv, CallTypes, CallRecords
  <2>2. [call[c] EXCEPT !.pc = "charge", !.attempt = @ + 1] \in CallRecords
    BY <2>1 DEF CallRecords
  <2> QED BY <2>2 DEF IInv, CallTypes, Wake
<1>2. CallTypes'
  BY <1>1 DEF IInv, CallTypes, Messages, Wake, orderVars
<1>3. /\ call'[c].op = call[c].op /\ call'[c].via = call[c].via
      /\ call'[c].pc = "charge" /\ call'[c].attempt = call[c].attempt + 1
      /\ call'[c].resigned = call[c].resigned /\ call'[c].nonce = call[c].nonce
      /\ call'[c].answer = call[c].answer
  BY DEF IInv, CallTypes, CallRecords, Wake, orderVars
<1>4. OrdersKept /\ \A d \in Calls \ {c} : Untouched(d)
  BY DEF IInv, CallTypes, OrdersKept, Untouched, Wake, orderVars
<1>5. Stage(c)'
  BY <1>3, BudgetType DEF IInv, CallTypes, CallRecords, Stages, Stage, None, Wake, orderVars
<1>6. Sent(c)'
  BY <1>3 DEF IInv, CallTypes, SentOnce, Sent, Clean, Wake, orderVars
<1>7. Fate(c)'
  BY <1>3
     DEF IInv, CallTypes, FateKept, Fate, SentOnce, Sent, Clean, Telling, NoAnswer,
         Statuses, Placements, None, Told, Wake, orderVars
<1>8. SoughtFor(c)'
  BY <1>3 DEF IInv, CallTypes, SoughtKept, SoughtFor, None, Wake, orderVars
<1>9. GateHeld'
  BY <1>3, <1>4, GateKept DEF Wake, orderVars
<1>10. NoncesOrdered'
  BY <1>2, <1>3, <1>4, NoncesKept DEF IInv, NoncesOrdered, None, Wake, orderVars
<1> QED BY <1>2, <1>4, <1>5, <1>6, <1>7, <1>8, <1>9, <1>10, OneTouched

\* A reconcile turns to the closed orders.
LEMMA NextLegKeeps ==
    ASSUME IInv, NEW c \in Calls, NextLeg(c)
    PROVE  IInv'
<1>1. call' \in [Calls -> CallRecords]
  <2>1. call[c] \in CallRecords /\ "charge" \in CallStates /\ None \in Answers
    BY Names DEF IInv, CallTypes
  <2>2. [call[c] EXCEPT !.pc = "charge", !.attempt = 1, !.resigned = FALSE, !.answer = None]
          \in CallRecords
    BY <2>1 DEF CallRecords
  <2> QED BY <2>2 DEF IInv, CallTypes, NextLeg
<1>2. CallTypes'
  BY <1>1 DEF IInv, CallTypes, Messages, NextLeg, FirstLeg, SecondLeg
<1>3. /\ call'[c].op = call[c].op /\ call'[c].via = call[c].via
      /\ call'[c].pc = "charge" /\ call'[c].attempt = 1
      /\ call'[c].resigned = FALSE /\ call'[c].nonce = call[c].nonce
      /\ call'[c].answer = None
  BY DEF IInv, CallTypes, CallRecords, NextLeg, FirstLeg, SecondLeg
<1>4. OrdersKept /\ \A d \in Calls \ {c} : Untouched(d)
  BY DEF IInv, CallTypes, OrdersKept, Untouched, NextLeg, FirstLeg, SecondLeg
<1>5. Stage(c)'
  <2>1. call[c].op = "reconcile" /\ Stage(c) /\ call[c].pc = "returned"
    BY DEF IInv, Stages, NextLeg
  <2> QED BY <1>3, <2>1, BudgetType DEF Stage, None, Budget, Larger
<1>6. Sent(c)'
  <2>1. call[c].op = "reconcile"
    BY DEF NextLeg
  <2> QED BY <1>3, <2>1 DEF Sent, Placements
<1>7. Fate(c)'
  BY <1>3
     DEF IInv, CallTypes, FateKept, Fate, SentOnce, Sent, Clean, Telling, NoAnswer,
         Statuses, Placements, None, Told, NextLeg, FirstLeg, SecondLeg
<1>8. SoughtFor(c)'
  BY <1>3 DEF IInv, CallTypes, SoughtKept, SoughtFor, None, NextLeg, FirstLeg, SecondLeg
<1>9. GateHeld'
  BY <1>3, <1>4, GateKept DEF NextLeg, FirstLeg, SecondLeg
<1>10. NoncesOrdered'
  BY <1>2, <1>3, <1>4, NoncesKept
     DEF IInv, NoncesOrdered, None, NextLeg, FirstLeg, SecondLeg
<1> QED BY <1>2, <1>4, <1>5, <1>6, <1>7, <1>8, <1>9, <1>10, OneTouched

\* The policy of a placement retries nothing, not even a refused nonce.
LEMMA PlacementsNotRetried ==
    ASSUME NEW c \in Calls, call[c].op \in Placements, NEW e
    PROVE  ~Retries(c, e)
<1>1. Policy(call[c].op) = NeverRetry
  BY DEF Policy, Placements
<1>2. NeverRetry.transient = FALSE /\ NeverRetry.nonce_heal = FALSE
  BY DEF NeverRetry
<1> QED BY <1>1, <1>2 DEF Retries

\* An attempt fails with e, which tells of an invalid nonce only if the exchange
\* did, and of a placement that it was not sent only if it is not under way.
LEMMA FailsKeeps ==
    ASSUME IInv, NEW c \in Calls, NEW e \in Errors, NEW n \in SUBSET net,
           AttemptFails(c, e, n), UNCHANGED orderVars,
           call[c].pc \in {"charge", "wire"},
           e = "invalid_nonce" => call[c].answer = "invalid_nonce",
           call[c].op \in {"add", "amend"} /\ e \notin Telling \union {"shape"} \union Statuses =>
               executed[c] = 0 /\ \A m \in n : m.call # c
    PROVE  IInv'
<1>a. net' \subseteq n /\ net' \subseteq net
  BY DEF AttemptFails, Remaining
<1>b. gate' = Left(gate, c) /\ gate' \in Seq(Calls) /\ UNCHANGED <<last, exNonce, foreign, orderVars>>
  BY LeftFacts DEF AttemptFails, IInv, CallTypes
<1>c. poisoned' \in BOOLEAN /\ (poisoned' => poisoned \/ e = "invalid_nonce")
  BY DEF AttemptFails, Poisons, IInv, CallTypes
<1>1. call' \in [Calls -> CallRecords]
  <2>1. call[c] \in CallRecords
    BY DEF IInv, CallTypes
  <2>2. [call[c] EXCEPT !.pc = IF Retries(c, e) THEN "backoff" ELSE "returned",
                        !.resigned = @ \/ e = "invalid_nonce",
                        !.answer = IF Retries(c, e) THEN None ELSE e] \in CallRecords
    BY <2>1, Names DEF CallRecords
  <2> QED BY <2>2 DEF AttemptFails, IInv, CallTypes
<1>2. CallTypes'
  BY <1>1, <1>a, <1>b, <1>c DEF IInv, CallTypes, orderVars
<1>3. /\ call'[c].op = call[c].op /\ call'[c].via = call[c].via
      /\ call'[c].pc = (IF Retries(c, e) THEN "backoff" ELSE "returned") /\ call'[c].attempt = call[c].attempt
      /\ call'[c].resigned = (call[c].resigned \/ e = "invalid_nonce") /\ call'[c].nonce = call[c].nonce
      /\ call'[c].answer = (IF Retries(c, e) THEN None ELSE e)
  BY DEF IInv, CallTypes, CallRecords, AttemptFails
<1>4. OrdersKept /\ \A d \in Calls \ {c} : Untouched(d)
  BY <1>a, <1>b DEF AttemptFails, IInv, CallTypes, OrdersKept, Untouched, orderVars
<1>5. Stage(c)'
  <2>1. Retries(c, e) => \/ ~call[c].resigned /\ e = "invalid_nonce"
                         \/ call[c].attempt < Budget
    BY DEF Retries, Budget
  <2>2. Stage(c) /\ Budget \in Nat /\ call[c].attempt \in Nat
    BY BudgetType DEF IInv, Stages, CallTypes, CallRecords
  <2>3. call[c].resigned \in BOOLEAN
    BY DEF IInv, CallTypes, CallRecords
  <2>4. Budget' = Budget
    BY DEF Budget, Larger
  <2>5. CASE Retries(c, e)
    <3>1. /\ call'[c].pc = "backoff" /\ call'[c].answer = None /\ call[c].op # None
          /\ call[c].via = "rest" /\ call[c].attempt <= Budget + 1
      BY <1>3, <2>2, <2>5 DEF Stage
    <3>2. CASE e = "invalid_nonce"
      <4>1. call'[c].resigned
        BY <1>3, <3>2
      <4>2. call[c].attempt <= Budget
        BY <2>1, <2>2, <2>5 DEF Stage
      <4> QED BY <1>3, <2>4, <3>1, <4>1, <4>2 DEF Stage
    <3>3. CASE e # "invalid_nonce"
      BY <1>3, <2>1, <2>2, <2>4, <2>5, <3>1, <3>3 DEF Stage
    <3> QED BY <3>2, <3>3
  <2>6. CASE ~Retries(c, e)
    BY <1>3, <2>2, <2>3, <2>4, <2>6 DEF Stage
  <2> QED BY <2>5, <2>6
<1>6. Sent(c)'
  BY <1>3, <1>a, <1>b, PlacementsNotRetried
     DEF IInv, CallTypes, SentOnce, Sent, Clean, orderVars
<1>7. Fate(c)'
  <2>1. call[c].op \in {"add", "amend"} => ~Retries(c, e)
    BY PlacementsNotRetried DEF Placements
  <2>2. e # None
    BY DEF Errors, Codes, Unsent, NoAnswer, Statuses, None
  <2> QED BY <1>3, <1>a, <1>b, <2>1, <2>2 DEF Fate, Clean, orderVars
<1>8. SoughtFor(c)'
  <2>1. e # "nothing" /\ None # "nothing"
    BY DEF Errors, Codes, Unsent, NoAnswer, Statuses, None
  <2> QED BY <1>3, <1>b, <2>1 DEF IInv, CallTypes, SoughtKept, SoughtFor, orderVars
<1>9. GateHeld'
  BY <1>3, <1>4, <1>b, GateKept
<1>10. NoncesOrdered'
  <2>1. ~foreign => e # "invalid_nonce" /\ ~poisoned
    BY DEF IInv, NoncesOrdered
  <2>2. ~foreign => ~poisoned' /\ call'[c].answer # "invalid_nonce"
    BY <1>3, <1>c, <2>1 DEF None
  <2> QED BY <1>2, <1>3, <1>4, <1>a, <1>b, <2>2, NoncesKept
<1> QED BY <1>2, <1>4, <1>5, <1>6, <1>7, <1>8, <1>9, <1>10, OneTouched

\* The answer of the exchange arrives whole and is no error.
LEMMA AnswerTakenKeeps ==
    ASSUME IInv, NEW c \in Calls, call[c].pc = "wire", call[c].answer # None, call[c].answer \notin Errors,
           call' = [call EXCEPT ![c].pc = "returned"], gate' = Left(gate, c),
           UNCHANGED <<last, net, exNonce, foreign, poisoned, orderVars>>
    PROVE  IInv'
<1>1. call' \in [Calls -> CallRecords]
  BY Names, ZenonT(60) DEF IInv, CallTypes, CallRecords, orderVars
<1>2. CallTypes'
  <2>1. gate' \in Seq(Calls)
    BY LeftFacts DEF IInv, CallTypes
  <2> QED BY <1>1, <2>1 DEF IInv, CallTypes, orderVars
<1>3. /\ call'[c].op = call[c].op /\ call'[c].via = call[c].via
      /\ call'[c].pc = "returned" /\ call'[c].attempt = call[c].attempt
      /\ call'[c].resigned = call[c].resigned /\ call'[c].nonce = call[c].nonce
      /\ call'[c].answer = call[c].answer
  BY DEF IInv, CallTypes, CallRecords, orderVars
<1>4. OrdersKept /\ \A d \in Calls \ {c} : Untouched(d)
  BY DEF IInv, CallTypes, OrdersKept, Untouched, orderVars
<1>5. Stage(c)'
  BY <1>3, BudgetType DEF IInv, CallTypes, CallRecords, Stages, Stage, None, orderVars
<1>6. Sent(c)'
  BY <1>3 DEF IInv, CallTypes, SentOnce, Sent, Clean, orderVars
<1>7. Fate(c)'
  BY <1>3
     DEF IInv, CallTypes, FateKept, Fate, SentOnce, Sent, Clean, Telling, NoAnswer,
         Statuses, Placements, None, Told, orderVars
<1>8. SoughtFor(c)'
  BY <1>3 DEF IInv, CallTypes, SoughtKept, SoughtFor, None, orderVars
<1>9. GateHeld'
  BY <1>3, <1>4, GateKept DEF orderVars
<1>10. NoncesOrdered'
  BY <1>2, <1>3, <1>4, NoncesKept DEF IInv, NoncesOrdered, None, orderVars
<1> QED BY <1>2, <1>4, <1>5, <1>6, <1>7, <1>8, <1>9, <1>10, OneTouched

\* An attempt of c ends.
LEMMA AttemptEndsKeeps ==
    ASSUME IInv, NEW c \in Calls, UNCHANGED orderVars,
           \/ ChargeRefused(c)
           \/ \E e \in Unsent : NeverSent(c, e)
           \/ \E e \in Statuses : StatusError(c, e)
           \/ TimesOut(c)
           \/ Answered(c)
    PROVE  IInv'
<1>1. CASE ChargeRefused(c)
  <2>1. "rate_limit" \in Errors /\ call[c].pc = "charge" /\ AttemptFails(c, "rate_limit", net)
    BY <1>1 DEF ChargeRefused, Errors
  <2>2. call[c].op \in {"add", "amend"} => executed[c] = 0 /\ \A m \in net : m.call # c
    BY <2>1 DEF IInv, SentOnce, Sent, Clean, Placements
  <2> QED BY <2>1, <2>2, FailsKeeps
<1>2. ASSUME NEW e \in Unsent, NeverSent(c, e)
      PROVE  IInv'
  <2>1. /\ e \in Errors /\ e # "invalid_nonce" /\ call[c].pc = "wire"
        /\ Current(c) \in net /\ Current(c).call = c
        /\ AttemptFails(c, e, net \ {Current(c)})
    BY <1>2 DEF NeverSent, Errors, Unsent, Current, Request
  <2>2. call[c].op \in {"add", "amend"} =>
          executed[c] = 0 /\ \A m \in net \ {Current(c)} : m.call # c
    <3> HAVE call[c].op \in {"add", "amend"}
    <3>1. executed[c] = 0 /\ \A n \in net : n.call = c => n = Current(c)
      BY <2>1, OneRequest DEF Placements
    <3> QED BY <3>1
  <2>3. net \ {Current(c)} \in SUBSET net
    OBVIOUS
  <2> QED BY <2>1, <2>2, <2>3, FailsKeeps
<1>3. ASSUME NEW e \in Statuses, StatusError(c, e)
      PROVE  IInv'
  <2>1. e \in Errors /\ e # "invalid_nonce" /\ call[c].pc = "wire"
    BY <1>3 DEF StatusError, Errors, Statuses
  <2>2. \E n \in SUBSET net : AttemptFails(c, e, n)
    BY <1>3 DEF StatusError
  <2> QED BY <2>1, <2>2, FailsKeeps
<1>4. CASE TimesOut(c)
  <2>1. /\ "timed_out" \in Errors /\ "timed_out" \in Telling /\ call[c].pc = "wire"
        /\ AttemptFails(c, "timed_out", net)
    BY <1>4 DEF TimesOut, Errors, NoAnswer, Telling
  <2> QED BY <2>1, FailsKeeps
<1>5. CASE Answered(c)
  <2>1. call[c].pc = "wire" /\ call[c].answer # None
    BY <1>5 DEF Answered
  <2>2. CASE call[c].answer \notin Errors /\ call' = [call EXCEPT ![c].pc = "returned"]
             /\ gate' = Left(gate, c) /\ UNCHANGED <<last, net, exNonce, foreign, poisoned>>
    BY <2>1, <2>2, AnswerTakenKeeps
  <2>3. CASE call[c].answer \in Errors /\ AttemptFails(c, call[c].answer, net)
    <3>1. call[c].op \in {"add", "amend"}
            /\ call[c].answer \notin Telling \union {"shape"} \union Statuses =>
              executed[c] = 0 /\ \A m \in net : m.call # c
      BY <2>1, <2>3 DEF IInv, FateKept, Fate, Clean
    <3> QED BY <2>1, <2>3, <3>1, FailsKeeps
  <2>4. CASE AttemptFails(c, "undecoded", net)
    <3>1. "undecoded" \in Errors /\ "undecoded" \in Telling
      BY DEF Errors, NoAnswer, Telling
    <3> QED BY <2>1, <2>4, <3>1, FailsKeeps
  <2>5. CASE AttemptFails(c, "shape", net)
    <3>1. "shape" \in Errors
      BY DEF Errors
    <3> QED BY <2>1, <2>5, <3>1, FailsKeeps
  <2> QED BY <1>5, <2>2, <2>3, <2>4, <2>5 DEF Answered
<1> QED BY <1>1, <1>2, <1>3, <1>4, <1>5

\* An operation other than a reconcile is submitted, or refused at once.
LEMMA SubmitKeeps ==
    ASSUME IInv, NEW c \in Calls, NEW op \in Ops \ {"reconcile"}, NEW via, NEW pc, NEW answer,
           \/ via = "rest" /\ pc = "charge" /\ answer = None
           \/ via = "ws" /\ pc = "connect" /\ answer = None
           \/ via = "ws" /\ pc = "done" /\ answer \in {"blocked", "loop_dead"},
           Submits(c, op, via, pc, answer), UNCHANGED sought
    PROVE  IInv'
<1>a. call[c].pc = "idle" /\ call[c].op = None /\ Clean(c) /\ leg[c] = "open" /\ order[c] = "absent"
  BY DEF Submits, IInv, Stages, Stage, SentOnce, Sent, SoughtKept, SoughtFor, None
<1>b. UNCHANGED <<gate, last, net, exNonce, foreign, poisoned, events, executed, order, leg, sought>>
  BY DEF Submits
<1>c. op # None /\ op \in Ops \union {None} /\ answer \in Answers /\ pc \in CallStates
      /\ answer # "invalid_nonce"
  BY Names DEF None, Ops, Placements
<1>d. [Idle EXCEPT !.op = op, !.via = via, !.pc = pc,
                   !.attempt = IF pc = "done" THEN 0 ELSE 1, !.answer = answer] \in CallRecords
  <2>1. Idle \in CallRecords /\ via \in {"rest", "ws"} /\ (IF pc = "done" THEN 0 ELSE 1) \in Nat
    BY Names
  <2> QED BY <1>c, <2>1 DEF CallRecords
<1>1. call' \in [Calls -> CallRecords]
  BY <1>d DEF Submits, IInv, CallTypes
<1>2. CallTypes'
  BY <1>1, <1>b DEF IInv, CallTypes
<1>3. /\ call'[c].op = op /\ call'[c].via = via
      /\ call'[c].pc = pc /\ call'[c].attempt = (IF pc = "done" THEN 0 ELSE 1)
      /\ call'[c].resigned = FALSE /\ call'[c].nonce = 0
      /\ call'[c].answer = answer
  BY DEF Submits, Idle, IInv, CallTypes
<1>4. OrdersKept /\ \A d \in Calls \ {c} : Untouched(d)
  BY <1>b DEF Submits, IInv, CallTypes, OrdersKept, Untouched
<1>5. Stage(c)'
  BY <1>3, <1>c, BudgetType DEF Stage, Budget, Larger
<1>6. Sent(c)'
  BY <1>3, <1>a, <1>b DEF Sent, Clean
<1>7. Fate(c)'
  BY <1>3, <1>a, <1>b DEF Fate, Clean, None, Telling, NoAnswer
<1>8. SoughtFor(c)'
  BY <1>3, <1>a, <1>b DEF SoughtFor
<1>9. GateHeld'
  BY <1>3, <1>4, <1>b, GateKept
<1>10. NoncesOrdered'
  <2>1. ~foreign => ~poisoned' /\ call'[c].answer # "invalid_nonce"
    BY <1>3, <1>b, <1>c DEF IInv, NoncesOrdered
  <2>2. call'[c].pc # "wire" /\ (\A m \in net : m.call # c) /\ net' \subseteq net
    BY <1>3, <1>a, <1>b DEF Clean
  <2> QED BY <1>2, <1>4, <1>b, <2>1, <2>2, NoncesKept
<1> QED BY <1>2, <1>4, <1>5, <1>6, <1>7, <1>8, <1>9, <1>10, OneTouched

\* A reconcile is submitted.
LEMMA ReconcileKeeps ==
    ASSUME IInv, NEW c \in Calls, NEW t \in Calls, Reconcile(c, t)
    PROVE  IInv'
<1>a. call[c].pc = "idle" /\ call[c].op = None /\ Clean(c) /\ leg[c] = "open" /\ order[c] = "absent"
  BY DEF Reconcile, Submits, IInv, Stages, Stage, SentOnce, Sent, SoughtKept, SoughtFor,
         None
<1>b. UNCHANGED <<gate, last, net, exNonce, foreign, poisoned, events, executed, order, leg>>
  BY DEF Reconcile, Submits
<1>c. /\ sought' = [sought EXCEPT ![c] = [target |-> t, placed |-> order[t] # "absent"]]
      /\ sought'[c].target = t /\ (sought'[c].placed <=> order[t] # "absent")
  BY DEF Reconcile, IInv, CallTypes
<1>d. [Idle EXCEPT !.op = "reconcile", !.via = "rest", !.pc = "charge",
                   !.attempt = 1, !.answer = None] \in CallRecords
  <2>1. /\ Idle \in CallRecords /\ "reconcile" \in Ops \union {None}
        /\ "charge" \in CallStates /\ None \in Answers
    BY Names DEF Ops
  <2> QED BY <2>1 DEF CallRecords
<1>e. call' = [call EXCEPT ![c] = [Idle EXCEPT !.op = "reconcile", !.via = "rest", !.pc = "charge",
                                               !.attempt = 1, !.answer = None]]
  BY DEF Reconcile, Submits
<1>1. call' \in [Calls -> CallRecords]
  BY <1>d, <1>e DEF IInv, CallTypes
<1>2. CallTypes'
  BY <1>1, <1>b, <1>c DEF IInv, CallTypes
<1>3. /\ call'[c].op = "reconcile" /\ call'[c].via = "rest"
      /\ call'[c].pc = "charge" /\ call'[c].attempt = 1
      /\ call'[c].resigned = FALSE /\ call'[c].nonce = 0
      /\ call'[c].answer = None
  BY <1>e DEF Idle, IInv, CallTypes
<1>4. OrdersKept /\ \A d \in Calls \ {c} : Untouched(d)
  BY <1>b, <1>c, <1>e DEF IInv, CallTypes, OrdersKept, Untouched
<1>5. Stage(c)'
  BY <1>3, BudgetType DEF Stage, Budget, Larger, None
<1>6. Sent(c)'
  BY <1>3, <1>a, <1>b DEF Sent, Clean
<1>7. Fate(c)'
  BY <1>3, <1>a, <1>b DEF Fate
<1>8. SoughtFor(c)'
  BY <1>3, <1>a, <1>b, <1>c DEF SoughtFor, None
<1>9. GateHeld'
  BY <1>3, <1>4, <1>b, GateKept
<1>10. NoncesOrdered'
  <2>1. ~foreign => ~poisoned' /\ call'[c].answer # "invalid_nonce"
    BY <1>3, <1>b DEF IInv, NoncesOrdered, None
  <2>2. call'[c].pc # "wire" /\ (\A m \in net : m.call # c) /\ net' \subseteq net
    BY <1>3, <1>a, <1>b DEF Clean
  <2> QED BY <1>2, <1>4, <1>b, <2>1, <2>2, NoncesKept
<1> QED BY <1>2, <1>4, <1>5, <1>6, <1>7, <1>8, <1>9, <1>10, OneTouched

\* A call returns to its caller.
LEMMA ConcludesKeeps ==
    ASSUME IInv, NEW c \in Calls, Concludes(c)
    PROVE  IInv'
<1> DEFINE answer == IF call[c].op \in Placements \/ call[c].answer = "nothing"
                    THEN call[c].answer ELSE None
<1>a. /\ call' = [call EXCEPT ![c] = [Idle EXCEPT !.op = call[c].op, !.via = call[c].via,
                                                  !.pc = "done", !.answer = answer]]
      /\ call[c].pc = "returned"
      /\ ~(call[c].op = "reconcile" /\ call[c].answer = "nothing" /\ leg[c] = "open")
  BY DEF Concludes, Over, FirstLeg
<1>b. UNCHANGED <<gate, last, net, exNonce, foreign, poisoned, executed, order, sought, leg>>
  BY DEF Concludes
<1>c. events' = [events EXCEPT ![c] = @ \union Outcome(call[c].op, call[c].answer)]
      /\ events'[c] = events[c] \union Outcome(call[c].op, call[c].answer)
  BY DEF Concludes, IInv, CallTypes
<1>d. call[c] \in CallRecords /\ answer \in Answers
  BY Names DEF IInv, CallTypes, CallRecords
<1>f. Outcome(call[c].op, call[c].answer) \in SUBSET EventNames
  BY DEF Outcome, EventNames
<1>e. Stage(c) /\ Fate(c) /\ SoughtFor(c) /\ Sent(c)
  BY DEF IInv, Stages, FateKept, SoughtKept, SentOnce
<1>1. call' \in [Calls -> CallRecords]
  <2>1. [Idle EXCEPT !.op = call[c].op, !.via = call[c].via, !.pc = "done", !.answer = answer]
          \in CallRecords
    <3> HIDE DEF answer
    <3> QED BY <1>d, Names DEF CallRecords
  <2> QED BY <1>a, <2>1 DEF IInv, CallTypes
<1>2. CallTypes'
  BY <1>1, <1>b, <1>c, <1>f DEF IInv, CallTypes
<1>3. /\ call'[c].op = call[c].op /\ call'[c].via = call[c].via
      /\ call'[c].pc = "done" /\ call'[c].attempt = 0
      /\ call'[c].resigned = FALSE /\ call'[c].nonce = 0
      /\ call'[c].answer = (IF call[c].op \in Placements \/ call[c].answer = "nothing" THEN call[c].answer ELSE None)
  BY <1>a DEF Idle, IInv, CallTypes
<1>4. OrdersKept /\ \A d \in Calls \ {c} : Untouched(d)
  BY <1>a, <1>b, <1>c DEF IInv, CallTypes, OrdersKept, Untouched
<1>5. Stage(c)'
  BY <1>3, <1>a, <1>e, BudgetType DEF Stage, Budget, Larger, None
<1>6. Sent(c)'
  BY <1>3, <1>a, <1>b, <1>e DEF Sent, Clean
<1>7. Fate(c)'
  <2>1. SUFFICES ASSUME call[c].op \in {"add", "amend"}
                 PROVE  Fate(c)'
    BY <1>3 DEF Fate
  <2>2. call'[c].answer = call[c].answer /\ call[c].answer # None
    BY <1>3, <1>a, <1>e, <2>1 DEF Placements, Fate
  <2>3. call[c].answer \in Telling => Told(c)'
    <3> HAVE call[c].answer \in Telling
    <3>1. CASE call[c].answer = "ok"
      <4>1. ~IsSentAmbiguous("ok") /\ "ok" \notin Codes \union {"shape"}
        BY DEF IsSentAmbiguous, Codes, NoAnswer
      <4>2. call[c].op = "add" => Outcome(call[c].op, call[c].answer) = {"WireSent"}
        BY <3>1, <4>1 DEF Outcome
      <4>3. call[c].op = "amend" => Outcome(call[c].op, call[c].answer) = {"WireAccepted"}
        BY <3>1, <4>1 DEF Outcome
      <4> QED BY <1>c, <2>1, <4>2, <4>3 DEF Told
    <3>2. CASE call[c].answer # "ok"
      <4>1. IsSentAmbiguous(call[c].answer) /\ call[c].answer \notin Codes \union {"shape"}
        BY <3>2 DEF IsSentAmbiguous, Telling, Codes, NoAnswer
      <4>2. Outcome(call[c].op, call[c].answer) = {"Ambiguous"}
        BY <2>1, <3>2, <4>1 DEF Outcome, OpEmitsAmbiguous
      <4> QED BY <1>c, <4>2 DEF Told
    <3> QED BY <3>1, <3>2
  <2> QED BY <1>3, <1>a, <1>b, <1>e, <2>1, <2>2, <2>3 DEF Fate, Clean
<1>8. SoughtFor(c)'
  BY <1>3, <1>a, <1>b, <1>e DEF SoughtFor, None, IInv, CallTypes
<1>9. GateHeld'
  BY <1>3, <1>4, <1>b, GateKept
<1>10. NoncesOrdered'
  <2>1. ~foreign => ~poisoned' /\ call'[c].answer # "invalid_nonce"
    BY <1>3, <1>b DEF IInv, NoncesOrdered, None
  <2>2. call'[c].pc # "wire" /\ call'[c].via = call[c].via /\ net' \subseteq net
    BY <1>3, <1>b
  <2> QED BY <1>2, <1>4, <1>b, <2>1, <2>2, NoncesKept
<1> QED BY <1>2, <1>4, <1>5, <1>6, <1>7, <1>8, <1>9, <1>10, OneTouched

\* The caller drops the call at an await.
LEMMA DropsKeeps ==
    ASSUME IInv, NEW c \in Calls, Drops(c)
    PROVE  IInv'
<1>a. /\ call' = [call EXCEPT ![c] = [Idle EXCEPT !.op = call[c].op, !.via = call[c].via,
                                                  !.pc = "dropped", !.answer = None]]
      /\ call[c].pc \in {"gate", "wire", "backoff", "connect", "wait"}
  BY DEF Drops, Over
<1>b. /\ UNCHANGED <<last, exNonce, foreign, poisoned, executed, order, sought, leg>>
      /\ gate' = Left(gate, c) /\ net' \subseteq net
  BY DEF Drops, Remaining
<1>c. events' = IF GuardArmed(c)
                THEN [events EXCEPT ![c] = @ \union {"CancellationAttempted"}] ELSE events
  BY DEF Drops
<1>d. call[c] \in CallRecords
  BY DEF IInv, CallTypes
<1>e. Stage(c) /\ Sent(c) /\ SoughtFor(c)
  BY DEF IInv, Stages, SentOnce, SoughtKept
<1>1. call' \in [Calls -> CallRecords]
  <2>1. [Idle EXCEPT !.op = call[c].op, !.via = call[c].via, !.pc = "dropped", !.answer = None]
          \in CallRecords
    BY <1>d, Names DEF CallRecords
  <2> QED BY <1>a, <2>1 DEF IInv, CallTypes
<1>2. CallTypes'
  <2>1. gate' \in Seq(Calls)
    BY <1>b, LeftFacts DEF IInv, CallTypes
  <2>2. events' \in [Calls -> SUBSET EventNames]
    BY <1>c DEF IInv, CallTypes, EventNames
  <2> QED BY <1>1, <1>b, <2>1, <2>2 DEF IInv, CallTypes
<1>3. /\ call'[c].op = call[c].op /\ call'[c].via = call[c].via
      /\ call'[c].pc = "dropped" /\ call'[c].attempt = 0
      /\ call'[c].resigned = FALSE /\ call'[c].nonce = 0
      /\ call'[c].answer = None
  BY <1>a DEF Idle, IInv, CallTypes
<1>4. OrdersKept /\ \A d \in Calls \ {c} : Untouched(d)
  BY <1>a, <1>b, <1>c DEF IInv, CallTypes, OrdersKept, Untouched
<1>5. Stage(c)'
  BY <1>3, <1>a, <1>e, BudgetType DEF Stage, Budget, Larger, None
<1>6. Sent(c)'
  BY <1>3, <1>b, <1>e DEF Sent, Clean
<1>7. Fate(c)'
  <2>1. CASE call[c].pc = "connect"
    <3>1. call[c].op \in Placements => Clean(c)
      BY <1>e, <2>1 DEF Sent
    <3>2. call[c].op \in Placements => Clean(c)'
      BY <1>b, <3>1 DEF Clean
    <3> QED BY <1>3, <3>2 DEF Fate, Placements
  <2>2. CASE call[c].pc # "connect"
    <3>1. call[c].op \in {"add", "amend"} => GuardArmed(c)
      BY <1>a, <2>2 DEF GuardArmed, OpEmitsCancellation
    <3>2. call[c].op \in {"add", "amend"} => Told(c)'
      BY <1>c, <3>1 DEF Told, IInv, CallTypes
    <3> QED BY <1>3, <3>2 DEF Fate
  <2> QED BY <2>1, <2>2
<1>8. SoughtFor(c)'
  BY <1>3, <1>b, <1>e DEF SoughtFor, None, IInv, CallTypes
<1>9. GateHeld'
  BY <1>3, <1>4, <1>b, GateKept
<1>10. NoncesOrdered'
  <2>1. ~foreign => ~poisoned' /\ call'[c].answer # "invalid_nonce"
    BY <1>3, <1>b DEF IInv, NoncesOrdered, None
  <2>2. call'[c].pc # "wire" /\ call'[c].via = call[c].via
    BY <1>3
  <2> QED BY <1>2, <1>4, <1>b, <2>1, <2>2, NoncesKept
<1> QED BY <1>2, <1>4, <1>5, <1>6, <1>7, <1>8, <1>9, <1>10, OneTouched

\* What the exchange tells of m changes the answer of its call, if that hears it.
LEMMA TellsFacts ==
    ASSUME IInv, NEW m \in net, NEW a \in Answers, call' = Tells(m, a)
    PROVE  /\ m \in Messages /\ m.call \in Calls
           /\ call' \in [Calls -> CallRecords]
           /\ \A d \in Calls \ {m.call} : call'[d] = call[d]
           /\ call'[m.call].op = call[m.call].op /\ call'[m.call].via = call[m.call].via
           /\ call'[m.call].pc = call[m.call].pc /\ call'[m.call].nonce = call[m.call].nonce
           /\ call'[m.call].attempt = call[m.call].attempt
           /\ call'[m.call].resigned = call[m.call].resigned
           /\ \/ call'[m.call].answer = call[m.call].answer
              \/ /\ call'[m.call].answer = a
                 /\ \/ call[m.call].pc = "wire" /\ m = Current(m.call)
                    \/ call[m.call].pc = "wait"
<1>1. m \in Messages /\ m.call \in Calls /\ call[m.call] \in CallRecords
  BY DEF IInv, CallTypes, Messages
<1>2. call' = [call EXCEPT ![m.call].answer = a] \/ call' = call
  BY DEF Tells
<1>3. [call[m.call] EXCEPT !.answer = a] \in CallRecords
  BY <1>1 DEF CallRecords
<1>4. call' \in [Calls -> CallRecords]
  BY <1>1, <1>2, <1>3 DEF IInv, CallTypes
<1> QED BY <1>1, <1>2, <1>4 DEF Tells, IInv, CallTypes, CallRecords

\* The exchange takes a request from the wire, and its nonce with it.
LEMMA NoncesReceived ==
    ASSUME IInv, CallTypes', NEW m \in net, NEW a \in Answers, call' = Tells(m, a),
           net' = net \ {m}, UNCHANGED <<last, foreign, poisoned>>,
           \/ exNonce' = exNonce
           \/ Signed(m) /\ exNonce' = m.nonce,
           a = "invalid_nonce" => Signed(m) /\ m.nonce <= exNonce
    PROVE  NoncesOrdered'
<1>1. m \in Messages /\ m.call \in Calls /\ \A n \in net : n \in Messages /\ n.call \in Calls
  BY DEF IInv, CallTypes, Messages
<1>2. /\ \A d \in Calls \ {m.call} : call'[d] = call[d]
      /\ call'[m.call].op = call[m.call].op /\ call'[m.call].via = call[m.call].via
      /\ call'[m.call].pc = call[m.call].pc /\ call'[m.call].nonce = call[m.call].nonce
      /\ \/ call'[m.call].answer = call[m.call].answer
         \/ /\ call'[m.call].answer = a
            /\ \/ call[m.call].pc = "wire" /\ m = Current(m.call)
               \/ call[m.call].pc = "wait"
  BY TellsFacts
<1>3. \A d \in Calls : call'[d].via = call[d].via /\ call'[d].pc = call[d].pc
                       /\ call'[d].op = call[d].op /\ call'[d].nonce = call[d].nonce
  BY <1>2
<1>4. last \in Nat /\ exNonce \in Nat /\ m.nonce \in Int /\ m.nonce <= last
      /\ \A n \in net' : n \in net /\ n # m /\ n.nonce \in Int
  BY <1>1 DEF IInv, CallTypes, NoncesOrdered, Messages
<1>5. ~foreign /\ a = "invalid_nonce" => call'[m.call].answer = call[m.call].answer
  <2> SUFFICES ASSUME ~foreign, a = "invalid_nonce", call'[m.call].answer # call[m.call].answer
               PROVE  FALSE
    OBVIOUS
  <2>1. m.nonce > 0 /\ m.nonce <= exNonce
    BY DEF Signed
  <2>2. CASE call[m.call].pc = "wire" /\ m = Current(m.call)
    <3>1. m.nonce = call[m.call].nonce
      BY <2>2 DEF Current, Request
    <3>2. call[m.call].op # "get"
      BY <1>1, <1>4, <2>1, <2>2, <3>1 DEF IInv, NoncesOrdered, CallTypes, CallRecords
    <3>3. m.nonce = last
      BY <1>1, <2>2, <3>1, <3>2 DEF IInv, NoncesOrdered
    <3> QED BY <1>4, <2>1, <3>3 DEF IInv, NoncesOrdered
  <2>3. CASE call[m.call].pc = "wait"
    <3>1. call[m.call].via = "ws"
      BY <1>1, <2>3 DEF IInv, Stages, Stage
    <3>2. m.nonce = 0
      BY <3>1 DEF IInv, NoncesOrdered
    <3> QED BY <2>1, <3>2
  <2> QED BY <1>2, <2>2, <2>3
<1>6. ~foreign => \A d \in Calls : call'[d].answer # "invalid_nonce"
  BY <1>2, <1>5 DEF IInv, NoncesOrdered
<1>7. ~foreign => exNonce' <= last
  BY <1>4 DEF IInv, NoncesOrdered
<1>8. ~foreign => \A n \in net' : n.nonce = last /\ last > 0 => exNonce' < last
  BY <1>4 DEF IInv, NoncesOrdered
<1>9. \A n \in net' : n.nonce <= last /\ (call'[n.call].via = "ws" => n.nonce = 0)
  BY <1>1, <1>3, <1>4 DEF IInv, NoncesOrdered
<1>10. \A n, k \in net' : n.nonce = last /\ k.nonce = last /\ last > 0 => n = k
  BY <1>4 DEF IInv, NoncesOrdered
<1>11. \A d \in Calls : /\ call'[d].pc = "wire" /\ call'[d].op # "get" => call'[d].nonce = last
                        /\ call'[d].pc = "wire" /\ call'[d].op = "get" => call'[d].nonce <= 0
  BY <1>3 DEF IInv, NoncesOrdered
<1>12. last' = last /\ foreign' = foreign /\ (~foreign => ~poisoned')
  BY DEF IInv, NoncesOrdered
<1> QED BY <1>6, <1>7, <1>8, <1>9, <1>10, <1>11, <1>12 DEF NoncesOrdered

\* The exchange refuses a request.
LEMMA RefusedKeeps ==
    ASSUME IInv, NEW m \in net, NEW code \in Codes, Receives(m), call' = Tells(m, code),
           UNCHANGED <<executed, order>>,
           \/ exNonce' = exNonce
           \/ Signed(m) /\ exNonce' = m.nonce,
           code = "invalid_nonce" => Signed(m) /\ m.nonce <= exNonce
    PROVE  IInv'
<1> DEFINE c == m.call
<1>1. code \in Answers /\ code # None /\ code \notin {"ok", "nothing"}
  BY Names DEF Codes, None
<1>2. net' = net \ {m} /\ UNCHANGED <<gate, last, foreign, poisoned, events, sought, leg>>
  BY DEF Receives
<1>3. /\ m \in Messages /\ c \in Calls
      /\ call' \in [Calls -> CallRecords]
      /\ \A d \in Calls \ {c} : call'[d] = call[d]
      /\ call'[c].op = call[c].op /\ call'[c].via = call[c].via
      /\ call'[c].pc = call[c].pc /\ call'[c].nonce = call[c].nonce
      /\ call'[c].attempt = call[c].attempt
      /\ call'[c].resigned = call[c].resigned
      /\ \/ call'[c].answer = call[c].answer
         \/ call'[c].answer = code /\ call[c].pc \in {"wire", "wait"}
  BY <1>1, TellsFacts
<1>4. CallTypes'
  BY <1>2, <1>3 DEF IInv, CallTypes, Messages, Signed
<1>5. OrdersKept /\ \A d \in Calls \ {c} : Untouched(d)
  BY <1>2, <1>3 DEF OrdersKept, Untouched
<1>6. Stage(c) /\ Sent(c) /\ Fate(c) /\ SoughtFor(c)
  BY <1>3 DEF IInv, Stages, SentOnce, FateKept, SoughtKept
<1> HIDE DEF c
<1>7. Stage(c)'
  BY <1>3, <1>6 DEF Stage, Budget, Larger
<1>8. Sent(c)'
  BY <1>2, <1>3, <1>6 DEF Sent, Clean
<1>9. call[c].op \in Placements => Clean(c)'
  <2> HAVE call[c].op \in Placements
  <2>1. executed[c] = 0 /\ \A n \in net : n.call = c => n = m
    BY <1>3, OneRequest DEF c
  <2> QED BY <1>2, <2>1 DEF Clean
<1>10. Fate(c)'
  <2>1. Told(c) => Told(c)'
    BY <1>2 DEF Told
  <2> QED BY <1>1, <1>3, <1>6, <1>9, <2>1 DEF Fate, Placements
<1>11. SoughtFor(c)'
  BY <1>1, <1>2, <1>3, <1>6 DEF SoughtFor, IInv, CallTypes
<1>12. GateHeld'
  BY <1>2, <1>3, <1>5, GateKept
<1>13. NoncesOrdered'
  BY <1>1, <1>2, <1>4, NoncesReceived
<1> QED BY <1>3, <1>4, <1>5, <1>7, <1>8, <1>10, <1>11, <1>12, <1>13, OneTouched

\* The exchange executes a request.
LEMMA ExecutesKeeps ==
    ASSUME IInv, NEW m \in net, Executes(m)
    PROVE  IInv'
<1> DEFINE c == m.call
<1>1. Finds(c) \in Answers /\ Finds(c) # "invalid_nonce" /\ Finds(c) # None
      /\ Finds(c) \in {"ok", "found", "nothing"} /\ (call[c].op # "reconcile" => Finds(c) = "ok")
  <2>1. Finds(c) \in {"ok", "found", "nothing"}
    BY DEF Finds
  <2>2. call[c].op # "reconcile" => Finds(c) = "ok"
    BY DEF Finds
  <2> QED BY <2>1, <2>2, Names DEF None
<1>2. net' = net \ {m} /\ UNCHANGED <<gate, last, foreign, poisoned, events, sought, leg>>
  BY DEF Executes, Accepts, Receives
<1>a. call' = Tells(m, Finds(c))
  BY DEF Executes
<1>3. /\ m \in Messages /\ c \in Calls
      /\ call' \in [Calls -> CallRecords]
      /\ \A d \in Calls \ {c} : call'[d] = call[d]
      /\ call'[c].op = call[c].op /\ call'[c].via = call[c].via
      /\ call'[c].pc = call[c].pc /\ call'[c].nonce = call[c].nonce
      /\ call'[c].attempt = call[c].attempt
      /\ call'[c].resigned = call[c].resigned
      /\ \/ call'[c].answer = call[c].answer
         \/ call'[c].answer = Finds(c) /\ call[c].pc \in {"wire", "wait"}
  BY <1>1, <1>a, TellsFacts
<1>4. exNonce' = exNonce \/ (Signed(m) /\ exNonce' = m.nonce)
  BY DEF Executes, Accepts
<1>b. /\ executed' = IF call[c].op \in Placements THEN [executed EXCEPT ![c] = @ + 1] ELSE executed
      /\ order' = IF call[c].op = "add" THEN [order EXCEPT ![c] = "open"] ELSE order
  BY DEF Executes
<1>5. CallTypes'
  <2>1. exNonce' \in Nat
    BY <1>3, <1>4 DEF IInv, CallTypes, Messages, Signed
  <2> QED BY <1>2, <1>3, <1>b, <2>1 DEF IInv, CallTypes
<1>6. Stage(c) /\ Sent(c) /\ Fate(c) /\ SoughtFor(c)
  BY <1>3 DEF IInv, Stages, SentOnce, FateKept, SoughtKept
<1>c. call[c].op \in Placements =>
        executed[c] = 0 /\ (\A n \in net : n.call = c => n = m)
        /\ call[c].pc \notin {"idle", "charge", "gate", "connect", "backoff"} /\ ~Clean(c)
  BY <1>3, OneRequest
<1>d. call[c].op \in Placements => executed'[c] = 1 /\ \A n \in net' : n.call # c
  BY <1>2, <1>3, <1>b, <1>c DEF IInv, CallTypes
<1>e. order[c] = "absent"
  BY <1>3, <1>6, <1>c DEF SoughtFor, Placements
<1>7. OrdersKept /\ \A d \in Calls \ {c} : Untouched(d)
  BY <1>2, <1>3, <1>b, <1>e DEF OrdersKept, Untouched, IInv, CallTypes
<1>8. Stage(c)'
  BY <1>1, <1>3, <1>6 DEF Stage, Budget, Larger
<1>f. call[c].pc # "idle"
  BY <1>6 DEF Sent, Clean
<1>9. Sent(c)'
  BY <1>3, <1>c, <1>d, <1>f DEF Sent
<1>10. Fate(c)'
  <2>1. Told(c) => Told(c)'
    BY <1>2 DEF Told
  <2>2. SUFFICES ASSUME call[c].op \in {"add", "amend"}
                 PROVE  Fate(c)'
    BY <1>3 DEF Fate
  <2>3. ~Clean(c) /\ Finds(c) = "ok"
    BY <1>1, <1>c, <2>2 DEF Placements
  <2>4. call'[c].answer # None \/ call'[c].answer = call[c].answer
    BY <1>1, <1>3
  <2> QED BY <1>1, <1>3, <1>6, <2>1, <2>3, <2>4 DEF Fate, Telling
<1>11. SoughtFor(c)'
  <2>1. order'[c] # "absent" => call'[c].op = "add" /\ executed'[c] > 0
    BY <1>3, <1>b, <1>d, <1>e DEF Placements
  <2>2. call'[c].op # "reconcile" => leg'[c] = "open"
    BY <1>2, <1>3, <1>6 DEF SoughtFor
  <2>3. ASSUME call[c].op = "reconcile", sought[c].placed
        PROVE  /\ order' = order
               /\ order[sought[c].target] # "absent"
               /\ Finds(c) = "nothing" => leg[c] = "open" /\ order[sought[c].target] = "closed"
    <3>1. order' = order /\ order[sought[c].target] # "absent"
      BY <1>6, <1>b, <2>3 DEF SoughtFor
    <3>2. Finds(c) = "nothing" => order[sought[c].target] # leg[c]
      BY <2>3 DEF Finds
    <3>3. leg[c] \in {"open", "closed"} /\ order[sought[c].target] \in {"absent", "open", "closed"}
          /\ (leg[c] = "closed" => order[sought[c].target] = "closed")
      BY <1>3, <1>6, <2>3 DEF IInv, CallTypes, SoughtFor
    <3> QED BY <3>1, <3>2, <3>3
  <2> QED BY <1>2, <1>3, <1>6, <2>1, <2>2, <2>3 DEF SoughtFor
<1>12. GateHeld'
  BY <1>2, <1>3, <1>7, GateKept
<1>13. NoncesOrdered'
  BY <1>1, <1>2, <1>4, <1>5, <1>a, NoncesReceived
<1> QED BY <1>3, <1>5, <1>7, <1>8, <1>9, <1>10, <1>11, <1>12, <1>13, OneTouched

\* An order closes at the exchange.
LEMMA ClosesKeeps ==
    ASSUME IInv, NEW c \in Calls, Closes(c)
    PROVE  IInv'
<1>1. UNCHANGED <<call, gate, last, net, exNonce, foreign, poisoned, events, executed, sought, leg>>
      /\ order[c] = "open" /\ order' = [order EXCEPT ![c] = "closed"]
  BY DEF Closes, restVars
<1>2. CallTypes'
  BY <1>1 DEF IInv, CallTypes
<1>3. OrdersKept /\ \A d \in Calls : Untouched(d)
  BY <1>1 DEF IInv, CallTypes, OrdersKept, Untouched
<1>4. \A d \in Calls : Stage(d)' /\ Sent(d)' /\ Fate(d)' /\ SoughtFor(d)'
  BY <1>2, <1>3, UntouchedKeeps
<1>5. GateHeld' /\ NoncesOrdered'
  BY <1>1 DEF IInv, GateHeld, NoncesOrdered
<1> QED BY <1>2, <1>4, <1>5 DEF IInv, Stages, SentOnce, FateKept, SoughtKept

\* Another process signs with the key.
LEMMA OtherSignerKeeps ==
    ASSUME IInv, OtherSigner, UNCHANGED orderVars
    PROVE  IInv'
<1>1. UNCHANGED <<call, gate, last, net, poisoned, events, executed, order, sought, leg>>
      /\ foreign' = TRUE /\ exNonce' \in Nat
  BY RestAssumption DEF OtherSigner, orderVars, IInv, CallTypes
<1>2. CallTypes'
  BY <1>1 DEF IInv, CallTypes
<1>3. OrdersKept /\ \A d \in Calls : Untouched(d)
  BY <1>1 DEF OrdersKept, Untouched
<1>4. \A d \in Calls : Stage(d)' /\ Sent(d)' /\ Fate(d)' /\ SoughtFor(d)'
  BY <1>2, <1>3, UntouchedKeeps
<1>5. GateHeld' /\ NoncesOrdered'
  BY <1>1 DEF IInv, GateHeld, NoncesOrdered
<1> QED BY <1>2, <1>4, <1>5 DEF IInv, Stages, SentOnce, FateKept, SoughtKept

\* A reactor loop dies, and with it every pending completion.
LEMMA LoopDiesKeeps ==
    ASSUME IInv, LoopDies
    PROVE  IInv'
<1>1. /\ UNCHANGED <<gate, last, exNonce, foreign, poisoned, events, executed, order, sought, leg>>
      /\ net' \subseteq net
      /\ call' = [c \in Calls |->
                    IF call[c].pc = "wait"
                    THEN [call[c] EXCEPT !.pc = "returned", !.answer = "loop_closed"]
                    ELSE call[c]]
  BY DEF LoopDies
<1>2. ASSUME NEW c \in Calls, call[c].pc = "wait"
      PROVE  /\ call'[c] \in CallRecords
             /\ call'[c].op = call[c].op /\ call'[c].via = call[c].via /\ call'[c].pc = "returned"
             /\ call'[c].attempt = call[c].attempt /\ call'[c].resigned = call[c].resigned
             /\ call'[c].answer = "loop_closed"
  <2>1. call'[c] = [call[c] EXCEPT !.pc = "returned", !.answer = "loop_closed"]
        /\ call[c] \in CallRecords
    BY <1>1, <1>2 DEF IInv, CallTypes
  <2>2. "returned" \in CallStates /\ "loop_closed" \in Answers
    BY Names
  <2> QED BY <2>1, <2>2 DEF CallRecords
<1>3. \A c \in Calls : call[c].pc # "wait" => call'[c] = call[c]
  BY <1>1
<1>4. CallTypes'
  <2>1. call' \in [Calls -> CallRecords]
    BY <1>1, <1>2, <1>3 DEF IInv, CallTypes
  <2> QED BY <1>1, <2>1 DEF IInv, CallTypes
<1>5. OrdersKept
  BY <1>1 DEF OrdersKept
<1>6. ASSUME NEW c \in Calls
      PROVE  Stage(c)' /\ Sent(c)' /\ Fate(c)' /\ SoughtFor(c)'
  <2>1. CASE call[c].pc # "wait"
    <3>1. Untouched(c)
      BY <1>1, <1>3, <2>1 DEF Untouched
    <3> QED BY <1>4, <1>5, <3>1, UntouchedKeeps
  <2>2. CASE call[c].pc = "wait"
    <3>1. Stage(c) /\ Sent(c) /\ Fate(c) /\ SoughtFor(c)
      BY DEF IInv, Stages, SentOnce, FateKept, SoughtKept
    <3>2. Stage(c)'
      BY <1>2, <2>2, <3>1 DEF Stage, Budget, Larger
    <3>3. Sent(c)'
      BY <1>1, <1>2, <2>2, <3>1 DEF Sent, Clean
    <3>4. Fate(c)'
      BY <1>2, <2>2 DEF Fate, Telling, None
    <3>5. SoughtFor(c)'
      BY <1>1, <1>2, <2>2, <3>1 DEF SoughtFor, IInv, CallTypes
    <3> QED BY <3>2, <3>3, <3>4, <3>5
  <2> QED BY <2>1, <2>2
<1>7. \A c \in Calls : /\ call'[c].via = call[c].via
                       /\ call'[c].pc \in {"gate", "wire"} => call'[c] = call[c]
                       /\ call'[c].answer = "invalid_nonce" => call[c].answer = "invalid_nonce"
  BY <1>2, <1>3
<1>8. GateHeld'
  BY <1>1, <1>7 DEF IInv, GateHeld
<1>9. NoncesOrdered'
  <2>1. \A m \in net' : m \in net /\ m.call \in Calls
    BY <1>1 DEF IInv, CallTypes, Messages
  <2>2. /\ \A m \in net' : m.nonce <= last /\ (call'[m.call].via = "ws" => m.nonce = 0)
        /\ \A m, n \in net' : m.nonce = last /\ n.nonce = last /\ last > 0 => m = n
    <3>1. \A m \in net' : m.nonce <= last /\ (call[m.call].via = "ws" => m.nonce = 0)
      BY <2>1 DEF IInv, NoncesOrdered
    <3>2. \A m, n \in net' : m.nonce = last /\ n.nonce = last /\ last > 0 => m = n
      BY <2>1 DEF IInv, NoncesOrdered
    <3> QED BY <1>7, <2>1, <3>1, <3>2
  <2>3. \A c \in Calls : /\ call'[c].pc = "wire" /\ call'[c].op # "get" => call'[c].nonce = last
                         /\ call'[c].pc = "wire" /\ call'[c].op = "get" => call'[c].nonce <= 0
    BY <1>7 DEF IInv, NoncesOrdered
  <2>4. ~foreign => /\ exNonce <= last
                    /\ \A m \in net' : m.nonce = last /\ last > 0 => exNonce < last
                    /\ ~poisoned
                    /\ \A c \in Calls : call'[c].answer # "invalid_nonce"
    BY <1>7, <2>1 DEF IInv, NoncesOrdered
  <2>5. last' = last /\ exNonce' = exNonce /\ foreign' = foreign /\ poisoned' = poisoned
    BY <1>1
  <2> QED BY <2>2, <2>3, <2>4, <2>5 DEF NoncesOrdered
<1> QED BY <1>4, <1>6, <1>8, <1>9 DEF IInv, Stages, SentOnce, FateKept, SoughtKept

-----------------------------------------------------------------------------
(* The invariant.                                                          *)

\* It holds at the start.
LEMMA InitIInv == Init => IInv
<1> SUFFICES ASSUME Init PROVE IInv
  OBVIOUS
<1>1. /\ \A c \in Calls : call[c] = Idle /\ executed[c] = 0 /\ order[c] = "absent" /\ leg[c] = "open"
      /\ gate = <<>> /\ last = 0 /\ net = {} /\ exNonce = 0 /\ foreign = FALSE /\ poisoned = FALSE
  BY DEF Init, RestInit
<1>2. CallTypes
  <2>1. call \in [Calls -> CallRecords]
    BY Names DEF Init, RestInit
  <2>2. sought \in [Calls -> [target : Calls, placed : BOOLEAN]]
    BY DEF Init
  <2>3. events \in [Calls -> SUBSET EventNames] /\ executed \in [Calls -> Nat]
    BY DEF Init
  <2>4. order \in [Calls -> {"absent", "open", "closed"}] /\ leg \in [Calls -> {"open", "closed"}]
    BY DEF Init
  <2>5. gate \in Seq(Calls)
    BY <1>1
  <2>6. last \in Nat /\ exNonce \in Nat /\ net \subseteq Messages
    BY <1>1
  <2>7. foreign \in BOOLEAN /\ poisoned \in BOOLEAN
    BY <1>1
  <2> QED BY <2>1, <2>2, <2>3, <2>4, <2>5, <2>6, <2>7 DEF CallTypes
<1>3. /\ Idle.op = None /\ Idle.pc = "idle" /\ Idle.attempt = 0 /\ Idle.answer = None
      /\ Idle.resigned = FALSE /\ None \notin Placements \union {"add", "amend", "reconcile", "get"}
  BY DEF Idle, None, Placements
<1>4. Stages
  BY <1>1, <1>3, BudgetType DEF Stages, Stage
<1>5. GateHeld
  BY <1>1, <1>3 DEF GateHeld
<1>6. NoncesOrdered
  BY <1>1, <1>3 DEF NoncesOrdered, None
<1>7. SentOnce
  BY <1>1, <1>3 DEF SentOnce, Sent, Clean
<1>8. FateKept
  BY <1>1, <1>3 DEF FateKept, Fate
<1>9. SoughtKept
  BY <1>1, <1>3 DEF SoughtKept, SoughtFor
<1> QED BY <1>2, <1>4, <1>5, <1>6, <1>7, <1>8, <1>9 DEF IInv

\* A call is submitted, or refused at once.
LEMMA AnySubmitKeeps ==
    ASSUME IInv, NEW c \in Calls, Submit(c)
    PROVE  IInv'
<1>1. ASSUME NEW op \in Ops, SubmitRest(c, op)
      PROVE  IInv'
  <2>1. op \in Ops \ {"reconcile"} /\ Submits(c, op, "rest", "charge", None) /\ UNCHANGED sought
    BY <1>1 DEF SubmitRest
  <2> QED BY <2>1, SubmitKeeps
<1>2. ASSUME NEW op \in Ops, NEW status, SubmitWs(c, op, status)
      PROVE  IInv'
  <2>1. UNCHANGED sought /\ \E pc, answer :
          /\ \/ pc = "connect" /\ answer = None
             \/ pc = "done" /\ answer \in {"blocked", "loop_dead"}
          /\ Submits(c, op, "ws", pc, answer)
    BY <1>2 DEF SubmitWs
  <2>2. op # "reconcile"
    BY <2>1 DEF Submits, Vias
  <2> QED BY <2>1, <2>2, SubmitKeeps
<1>3. ASSUME NEW t \in Calls \ {c}, Reconcile(c, t)
      PROVE  IInv'
  BY <1>3, ReconcileKeeps
<1> QED BY <1>1, <1>2, <1>3 DEF Submit

\* The WS arm of a call, or the frame it left.
LEMMA AnyWsStepKeeps ==
    ASSUME IInv, NEW c \in Calls, WsStep(c)
    PROVE  IInv'
BY WsNotPostedKeeps, WsPostedKeeps, WsRefusedKeeps, WsSentKeeps, WsForgottenKeeps,
   WsDrainedKeeps, WsDeadlineKeeps, WsAnsweredKeeps DEF WsStep

\* The REST arm of a call.
LEMMA AnyRestStepKeeps ==
    ASSUME IInv, NEW c \in Calls, RestStep(c), UNCHANGED orderVars
    PROVE  IInv'
BY PassChargeKeeps, SendGetKeeps, SignKeeps, AttemptEndsKeeps, WakeKeeps DEF RestStep

\* A step of the exchange, or of what uses its account elsewhere.
LEMMA ExchangeKeeps ==
    ASSUME IInv, Exchange
    PROVE  IInv'
<1>1. ASSUME NEW m \in net, RejectsNonce(m)
      PROVE  IInv'
  <2>1. "invalid_nonce" \in Codes
    BY DEF Codes
  <2> QED BY <1>1, <2>1, RefusedKeeps DEF RejectsNonce
<1>2. ASSUME NEW m \in net, NEW code \in Codes \ {"invalid_nonce"}, Rejects(m, code)
      PROVE  IInv'
  <2>1. /\ Receives(m) /\ call' = Tells(m, code) /\ UNCHANGED <<executed, order>>
        /\ exNonce' = exNonce \/ (Signed(m) /\ exNonce' = m.nonce)
        /\ code \in Codes /\ code # "invalid_nonce"
    BY <1>2 DEF Rejects, Accepts
  <2> QED BY <2>1, RefusedKeeps
<1> QED BY <1>1, <1>2, ExecutesKeeps, ClosesKeeps, OtherSignerKeeps DEF Exchange

\* Every step keeps it.
LEMMA NextIInv == IInv /\ [Next]_vars => IInv'
<1> SUFFICES ASSUME IInv, [Next]_vars PROVE IInv'
  OBVIOUS
<1>1. CASE Next
  BY <1>1, AnySubmitKeeps, AnyWsStepKeeps, AnyRestStepKeeps, DropsKeeps, ConcludesKeeps,
     NextLegKeeps, ExchangeKeeps, LoopDiesKeeps DEF Next
<1>2. CASE UNCHANGED vars
  <2>1. UNCHANGED <<call, gate, last, net, exNonce, foreign, poisoned, events, executed, order,
                    sought, leg>>
    BY <1>2 DEF vars, restVars, orderVars
  <2>2. CallTypes' /\ GateHeld' /\ NoncesOrdered'
    BY <2>1 DEF IInv, CallTypes, GateHeld, NoncesOrdered
  <2>3. OrdersKept /\ \A d \in Calls : Untouched(d)
    BY <2>1 DEF OrdersKept, Untouched
  <2>4. \A d \in Calls : Stage(d)' /\ Sent(d)' /\ Fate(d)' /\ SoughtFor(d)'
    BY <2>2, <2>3, UntouchedKeeps
  <2> QED BY <2>2, <2>4 DEF IInv, Stages, SentOnce, FateKept, SoughtKept
<1> QED BY <1>1, <1>2

\* The seven parts hold in every state of every program of calls.
THEOREM InductiveInvariant == Spec => []IInv
BY InitIInv, NextIInv, PTL DEF Spec

\* Where a call is, its attempts (run_retry_loop gives it one re-sign beyond the
\* budget), the gate and the wire have their types, for any number of calls.
THEOREM TypeCorrect == Spec => []TypeOK
<1>1. IInv => TypeOK
  <2> SUFFICES ASSUME IInv PROVE TypeOK
    OBVIOUS
  <2>1. \A c \in Calls : call[c] \in CallRecords /\ Stage(c)
    BY DEF IInv, CallTypes, Stages
  <2>2. \A c \in Calls : call[c].attempt \in 0..(Larger(MaxAttempts, 1) + 1)
    BY <2>1, BudgetType DEF Stage, CallRecords, Budget
  <2> QED BY <2>1, <2>2 DEF IInv, CallTypes, CallRecords, Messages, TypeOK
<1> QED BY <1>1, InductiveInvariant, PTL

\* An order, an amend or a batch is executed at most once, for any number of
\* concurrent calls, any budget of attempts and any loss or delay: its policy
\* (RetryPolicy::never_retry) never puts a second request on the wire.
THEOREM PlacedAtMostOnce == Spec => []PlacedOnce
<1>1. IInv => PlacedOnce
  <2> SUFFICES ASSUME IInv, NEW c \in Calls, call[c].op \in Placements
               PROVE  executed[c] <= 1
    BY DEF PlacedOnce
  <2>1. Sent(c) /\ executed[c] \in Nat
    BY DEF IInv, SentOnce, CallTypes
  <2>2. executed[c] > 0 => executed[c] = 1
    BY <2>1 DEF Sent
  <2> QED BY <2>1, <2>2
<1> QED BY <1>1, InductiveInvariant, PTL

\* An add or amend that the exchange executed is announced when its call is
\* over, by emit_rest_submit_outcome, ws_send_and_decode or the CancelEmitGuard.
THEOREM FateIsAnnounced == Spec => []FateAnnounced
<1>1. IInv => FateAnnounced
  <2> SUFFICES ASSUME IInv, NEW c \in Calls, call[c].op \in {"add", "amend"}, Finished(c),
                      executed[c] > 0, call[c].answer \notin Statuses \union {"shape"}
               PROVE  Told(c)
    BY DEF FateAnnounced, Told
  <2>1. Fate(c) /\ ~Clean(c)
    BY DEF IInv, FateKept, Clean
  <2>2. CASE call[c].pc = "dropped"
    BY <2>1, <2>2 DEF Fate
  <2>3. CASE call[c].pc = "done"
    BY <2>1, <2>3 DEF Fate
  <2> QED BY <2>2, <2>3 DEF Finished
<1> QED BY <1>1, InductiveInvariant, PTL

\* Under the nonce gate, and whatever the wall clock reads, no live call has its
\* nonce refused, and no NoncePoisonedEvent is published, unless another signer
\* uses the key.
THEOREM NonceIsRefusedByOthers == Spec => []NonceRefusedByOthers
<1>1. IInv => NonceRefusedByOthers
  BY DEF IInv, NoncesOrdered, NonceRefusedByOthers
<1> QED BY <1>1, InductiveInvariant, PTL

\* find_order_by_cl_ord_id never answers NotPlaced for an order that was at the
\* exchange when it was asked: read in this order, the lists cannot both miss it.
THEOREM ReconcileFindsPlaced == Spec => []ReconcileFinds
<1>1. IInv => ReconcileFinds
  BY DEF IInv, SoughtKept, SoughtFor, ReconcileFinds
<1> QED BY <1>1, InductiveInvariant, PTL

=============================================================================
