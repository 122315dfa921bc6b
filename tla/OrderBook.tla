------------------------------ MODULE OrderBook ------------------------------
(***************************************************************************)
(* The maintained order book of one symbol: OrderBookBuilder               *)
(* (src/rust/src/book), the book half of a registry entry, and the reactor *)
(* steps that notice a gap, ask for a new snapshot and watch over it       *)
(* (frame_routing.rs).  The exchange streams its book at the subscribed    *)
(* depth, each frame with the checksum of its best levels; frames may be   *)
(* lost or garbled, sends refused, the connection torn down and brought    *)
(* up again, the subscription rejected, released and taken again.          *)
(*                                                                         *)
(* A checksum is the levels it covers: CRC32 collisions are left out.      *)
(***************************************************************************)
EXTENDS Integers, Sequences, FiniteSets

CONSTANTS
    Prices,         \* price levels, of both sides
    Quantities,     \* wire quantities other than zero
    Underflows,     \* those of them that a Decimal rounds to zero
    ChecksumDepth,  \* CHECKSUM_DEPTH: levels per side that the checksum covers
    Tiers,          \* BookDepth: the depths the exchange accepts
    Requests,       \* what callers subscribe with: [channel, depth]
    MaxGaps,        \* MAX_CONSECUTIVE_BOOK_GAPS
    Books,          \* the exchange's first book
    Moves,          \* the changes of a level it may make: [side, price, qty]
    OutboxCap,      \* frames the socket's outbox takes
    MaxInbox,       \* bound: frames on their way to the client
    MaxChanges,     \* bound: changes of the exchange's book
    MaxFaults,      \* bound: frames lost or garbled
    MaxTears,       \* bound: ends of a session
    MaxCalls        \* bound: subscribe calls

ASSUME BookAssumption ==
    /\ Prices \subseteq Nat /\ IsFiniteSet(Prices) /\ Quantities \subseteq Nat \ {0}
    /\ Underflows \subseteq Quantities
    /\ Tiers \subseteq Nat /\ ChecksumDepth \in Nat \ {0}
    /\ \E d \in Tiers : d > ChecksumDepth
    /\ MaxGaps \in Nat \ {0}
    /\ Requests \subseteq [channel : {"book", "raw"}, depth : Tiers]
    /\ Books \subseteq [{"bids", "asks"} -> [Prices -> Quantities \union {0}]]
    /\ Moves \subseteq [side : {"bids", "asks"}, price : Prices, qty : Quantities \union {0}]

Sides == {"bids", "asks"}

\* A side of a book: the quantity at each price, 0 for no level.
Levels == [Prices -> Quantities \union {0}]

VARIABLES
    exBook,    \* the exchange's book (external)
    server,    \* its stream to this client: subscribed, depth, level still to publish, and
               \* whether every frame since the last snapshot got through (external)
    inbox,     \* frames on their way to the client
    outbox,    \* subscribe and unsubscribe frames on their way to the exchange
    entry,     \* the registry entry: its state and subscribe params
    builder,   \* its OrderBookBuilder, or NoBuilder
    link,      \* the connection and the per-entry timers it keeps
    spent      \* what was used of the bounds

vars == <<exBook, server, inbox, outbox, entry, builder, link, spent>>

-----------------------------------------------------------------------------
(* Books, checksums and depths.                                            *)

\* BTreeMap order: bids by falling, asks by rising price.
Better(s, p, q) == IF s = "bids" THEN p > q ELSE p < q

\* The n best levels of side s.
Top(s, levels, n) ==
    [p \in Prices |->
        IF Cardinality({q \in Prices : levels[q] # 0 /\ Better(s, q, p)}) < n
        THEN levels[p] ELSE 0]

\* compute_checksum: the best levels of both sides.
Checksum(book) == [s \in Sides |-> Top(s, book[s], ChecksumDepth)]

\* Fault: a book is subscribed at the depth its caller asked for.
WireDepthAsAsked(d) == d

\* BookDepth::wire_depth: more than the checksum covers.
WireDepth(d) ==
    CHOOSE n \in Tiers : /\ n >= d /\ n > ChecksumDepth
                         /\ \A k \in Tiers : (k >= d /\ k > ChecksumDepth) => n <= k

\* The depth a request is subscribed at; a raw book gets exactly its own.
SubscribedDepth(r) == IF r.channel = "book" THEN WireDepth(r.depth) ELSE r.depth

TrimToDepth(book, n) == [s \in Sides |-> Top(s, book[s], n)]

-----------------------------------------------------------------------------
(* OrderBookBuilder.                                                       *)

NoBuilder == [book |-> [s \in Sides |-> [p \in Prices |-> 0]],
              depth |-> 0, caller |-> 0, resyncing |-> FALSE, gaps |-> 0, chained |-> FALSE]

\* A builder of a request: only a book has one.  (chained: since the snapshot it
\* started from no frame was missed, of a stream of its depth; not in the code.)
NewBuilder(r) ==
    IF r.channel = "book"
    THEN [NoBuilder EXCEPT !.depth = WireDepth(r.depth), !.caller = r.depth]
    ELSE NoBuilder

HasBuilder == builder.depth # 0

\* Fault: a level goes when its Decimal is zero.
DeltaDeletesTyped(q) == q = 0 \/ q \in Underflows

\* delta_level_deletes: only a quantity that is zero on the wire deletes.
DeltaDeletes(q) == q = 0

\* begin_resync
BeginResync(b) == [b EXCEPT !.book = NoBuilder.book, !.resyncing = TRUE, !.chained = FALSE]

\* apply_snapshot and apply_delta, before they validate.
Applied(b, f) ==
    LET Changed(s, p) == {c \in f.changes : c.side = s /\ c.price = p}
        Level(s, p) ==
            IF Changed(s, p) = {} THEN b.book[s][p]
            ELSE LET q == (CHOOSE c \in Changed(s, p) : TRUE).qty
                 IN  IF DeltaDeletes(q) THEN 0 ELSE q
        book == IF f.type = "snapshot" THEN f.book
                ELSE [s \in Sides |-> [p \in Prices |-> Level(s, p)]]
    IN  [b EXCEPT !.book = TrimToDepth(book, b.depth),
                  !.resyncing = @ /\ f.type # "snapshot",
                  !.chained = f.intact /\ f.depth = b.depth /\ (@ \/ f.type = "snapshot")]

\* Fault: a mismatch is not acted on.
ValidatedNever(b, f) == [b EXCEPT !.gaps = 0]

\* validate_and_record
Validated(b, f) ==
    IF Checksum(b.book) = f.checksum THEN [b EXCEPT !.gaps = 0]
    ELSE [b EXCEPT !.gaps = @ + 1]

\* Fault: a reseed that was not answered is not counted.
NoteReseedFailureNever(b) == b

\* note_reseed_failure
NoteReseedFailure(b) == [b EXCEPT !.gaps = @ + 1]

\* build_update: what the caller gets of the book.
BuildUpdate(b) == [s \in Sides |-> Top(s, b.book[s], b.caller)]

\* parse_book_frame
Parses(f) == ~f.garbled

\* drive_update
Drive(f) ==
    LET b == Validated(Applied(builder, f), f)
    IN  CASE ~HasBuilder -> [outcome |-> "pass", builder |-> NoBuilder]
          [] HasBuilder /\ builder.resyncing /\ f.type = "delta" ->
                [outcome |-> "awaiting", builder |-> builder]
          [] HasBuilder /\ ~(builder.resyncing /\ f.type = "delta") /\ ~Parses(f) ->
                [outcome |-> "pass", builder |-> [builder EXCEPT !.chained = FALSE]]
          [] HasBuilder /\ ~(builder.resyncing /\ f.type = "delta") /\ Parses(f) ->
                CASE b.gaps = 0 -> [outcome |-> "maintained", builder |-> b]
                  [] b.gaps >= MaxGaps -> [outcome |-> "exhausted", builder |-> NoBuilder]
                  [] OTHER -> [outcome |-> "gap", builder |-> b]

\* The fan of a frame: what the handlers of on_book get.  A maintained book, a
\* frame as it came (decode_book) where there is no builder, or nothing.
OnBook(f) ==
    LET d == Drive(f)
    IN  CASE d.outcome = "maintained" ->
                {[kind |-> "maintained", book |-> BuildUpdate(d.builder), builder |-> d.builder]}
          [] d.outcome = "pass" /\ Parses(f) ->
                {[kind |-> "frame", book |-> f.book, builder |-> d.builder]}
          [] OTHER -> {}

-----------------------------------------------------------------------------
(* Sending.                                                                *)

Unsubscribed == [on |-> FALSE, depth |-> 0, owed |-> {}, intact |-> FALSE]

\* The timers and the socket go with the session: clear_subscribe_ack_state.
\* (refused: this session's replay was refused by the outbox; not in the code.)
Torn == [up |-> FALSE, ack |-> FALSE, resend |-> FALSE, reseed |-> FALSE, refused |-> FALSE]

\* send_frame: a full outbox takes nothing more; other keys may have filled it.
Sendable(out, frame) == IF Len(out) < OutboxCap THEN {Append(out, frame)} ELSE {}

\* What a subscribe may come to: no socket, so nothing; sent, its ack awaited;
\* refused by a full outbox, to be sent again; or the session ends, because the
\* refusals exhausted the ack budget or the writer is dead.
Subscribing(l, out, r) ==
    IF ~l.up THEN {[link |-> l, outbox |-> out]}
    ELSE {[link |-> [l EXCEPT !.ack = TRUE], outbox |-> o] :
              o \in Sendable(out, [op |-> "sub", depth |-> SubscribedDepth(r)])}
         \union {[link |-> [l EXCEPT !.ack = FALSE, !.resend = TRUE], outbox |-> out],
                 [link |-> Torn, outbox |-> <<>>]}

\* An unsubscribe is sent, or refused and forgotten.
Unsubscribing(l, out) ==
    IF ~l.up THEN {out} ELSE {out} \union Sendable(out, [op |-> "unsub", depth |-> 0])

\* The session after a send, with the frames still to be handled; the send is of
\* so many calls of a caller.
Sends(outcome, frames, calls) ==
    /\ link' = outcome.link
    /\ outbox' = outcome.outbox
    /\ inbox' = IF outcome.link.up THEN frames ELSE <<>>
    /\ server' = IF outcome.link.up THEN server ELSE Unsubscribed
    /\ spent' = [spent EXCEPT !.calls = @ + calls,
                              !.tears = @ + IF link.up /\ ~outcome.link.up THEN 1 ELSE 0]
    /\ spent'.tears <= MaxTears

\* send_book_reseed: unsubscribe, subscribe, and set the watch whatever became
\* of either.
ReseedOutcomes(l, out) ==
    UNION {{[o EXCEPT !.link.reseed = TRUE] : o \in Subscribing(l, u, entry.params)} :
             u \in Unsubscribing(l, out)}

-----------------------------------------------------------------------------
(* Inbound frames.                                                         *)

Init ==
    /\ exBook \in Books
    /\ server = Unsubscribed
    /\ inbox = <<>>
    /\ outbox = <<>>
    /\ entry = [state |-> "absent", params |-> [channel |-> "raw", depth |-> 0]]
    /\ builder = NoBuilder
    /\ link = [Torn EXCEPT !.up = TRUE]
    /\ spent = [changes |-> 0, faults |-> 0, tears |-> 0, calls |-> 0]

\* recover_book_gap
RecoverBookGap(b, frames) ==
    /\ builder' = BeginResync(b)
    /\ \E o \in ReseedOutcomes(link, outbox) : Sends(o, frames, 0)

\* route_text_frame: the book fan, then recover_book_gap.
DataFrame ==
    /\ link.up
    /\ inbox # <<>>
    /\ LET f == Head(inbox)
           d == Drive(f)
       IN  /\ f.type \in {"snapshot", "delta"}
           /\ IF d.outcome = "gap"
              THEN RecoverBookGap(d.builder, Tail(inbox))
              ELSE /\ builder' = d.builder
                   /\ inbox' = Tail(inbox)
                   /\ UNCHANGED <<outbox, link, server, spent>>
           /\ UNCHANGED <<exBook, entry>>

\* handle_sub_ack, of a success: the retry chain is over.
Ack ==
    /\ link.up
    /\ inbox # <<>>
    /\ Head(inbox).type = "ack"
    /\ inbox' = Tail(inbox)
    /\ link' = [link EXCEPT !.ack = FALSE, !.resend = FALSE]
    /\ UNCHANGED <<exBook, server, outbox, entry, builder, spent>>

\* The last transient failure ends the session, an earlier one owes a resend.
SubscribeFails(frames) ==
    \E o \in {[link |-> [link EXCEPT !.ack = FALSE, !.resend = TRUE], outbox |-> outbox],
              [link |-> Torn, outbox |-> <<>>]} : Sends(o, frames, 0)

\* handle_sub_ack, of a reject: none of ours, for good, or for now.
Reject ==
    /\ link.up
    /\ inbox # <<>>
    /\ Head(inbox).type = "reject"
    /\ \/ /\ ~link.ack
          /\ inbox' = Tail(inbox)
          /\ UNCHANGED <<server, outbox, entry, link, spent>>
       \/ /\ link.ack
          /\ inbox' = Tail(inbox)
          /\ entry' = [entry EXCEPT !.state = "terminated"]
          /\ link' = [link EXCEPT !.ack = FALSE, !.resend = FALSE, !.reseed = FALSE]
          /\ UNCHANGED <<server, outbox, spent>>
       \/ /\ link.ack
          /\ SubscribeFails(Tail(inbox))
          /\ UNCHANGED entry
    /\ UNCHANGED <<exBook, builder>>

-----------------------------------------------------------------------------
(* Timers and the session.                                                 *)

\* note_reseed_timeout
ReseedTimeoutOutcome ==
    CASE entry.state # "live" \/ ~HasBuilder \/ ~builder.resyncing -> "stale"
      [] entry.state = "live" /\ HasBuilder /\ builder.resyncing ->
            IF NoteReseedFailure(builder).gaps >= MaxGaps THEN "exhausted" ELSE "retry"

\* The watch fires: handle_book_reseed_timeout.
ReseedTimeout ==
    /\ link.reseed
    /\ LET popped == [link EXCEPT !.reseed = FALSE]
       IN  \/ /\ ReseedTimeoutOutcome = "stale"
              /\ link' = popped
              /\ UNCHANGED <<builder, server, inbox, outbox, spent>>
           \/ /\ ReseedTimeoutOutcome = "retry"
              /\ builder' = NoteReseedFailure(builder)
              /\ \E o \in ReseedOutcomes(popped, outbox) : Sends(o, inbox, 0)
           \/ /\ ReseedTimeoutOutcome = "exhausted"
              /\ builder' = NoBuilder
              /\ link' = popped
              /\ UNCHANGED <<server, inbox, outbox, spent>>
    /\ UNCHANGED <<exBook, entry>>

\* handle_subscribe_failure, of a subscribe that was not answered.
AckTimeout ==
    /\ link.ack
    /\ SubscribeFails(inbox)
    /\ UNCHANGED <<exBook, entry, builder>>

\* handle_subscribe_resend
ResendDue ==
    /\ link.resend
    /\ LET popped == [link EXCEPT !.resend = FALSE]
       IN  \E o \in Subscribing(popped, outbox, entry.params) : Sends(o, inbox, 0)
    /\ UNCHANGED <<exBook, entry, builder>>

\* The connection is lost.
TearDown ==
    /\ link.up
    /\ Sends([link |-> Torn, outbox |-> <<>>], <<>>, 0)
    /\ UNCHANGED <<exBook, entry, builder>>

\* The replay of the entry after a reconnect; a book that still waits for its
\* snapshot is watched again, when its subscribe was sent.
ReplayOutcomes ==
    {[o EXCEPT !.link.reseed = @ \/ (o.link.ack /\ builder.resyncing),
               !.link.refused = o.link.resend] :
        o \in Subscribing([link EXCEPT !.up = TRUE], <<>>, entry.params)}

BringUp ==
    /\ ~link.up
    /\ IF entry.state = "live"
       THEN \E o \in ReplayOutcomes : Sends(o, <<>>, 0)
       ELSE Sends([link |-> [link EXCEPT !.up = TRUE], outbox |-> <<>>], <<>>, 0)
    /\ UNCHANGED <<exBook, entry, builder>>

-----------------------------------------------------------------------------
(* Callers.                                                                *)

\* The first holder of the key, or the reviver of a rejected one.
Subscribe(r) ==
    /\ entry.state # "live"
    /\ spent.calls < MaxCalls
    /\ entry' = [state |-> "live", params |-> r]
    /\ builder' = NewBuilder(r)
    /\ \E o \in Subscribing(link, outbox, r) : Sends(o, inbox, 1)
    /\ UNCHANGED exBook

\* The last holder leaves: teardown_released_key, or the tombstone is removed.
Unsubscribe ==
    /\ entry.state # "absent"
    /\ entry' = [entry EXCEPT !.state = "absent"]
    /\ builder' = NoBuilder
    /\ link' = [link EXCEPT !.ack = FALSE, !.resend = FALSE, !.reseed = FALSE]
    /\ outbox' \in IF entry.state = "live" THEN Unsubscribing(link, outbox) ELSE {outbox}
    /\ UNCHANGED <<exBook, server, inbox, spent>>

-----------------------------------------------------------------------------
(* The exchange (external).                                                *)

Frame(type) ==
    [type |-> type, book |-> NoBuilder.book, changes |-> {}, checksum |-> NoBuilder.book,
     garbled |-> FALSE, intact |-> FALSE, depth |-> 0, truth |-> NoBuilder.book,
     shown |-> NoBuilder.book]

\* A data frame goes out whole, garbled, or not at all.
Streams(s, f, before, used) ==
    \/ /\ inbox' = Append(before, [f EXCEPT !.intact = s.intact, !.depth = s.depth])
       /\ server' = s
       /\ spent' = used
    \/ /\ used.faults < MaxFaults
       /\ spent' = [used EXCEPT !.faults = @ + 1]
       /\ server' = [s EXCEPT !.intact = FALSE]
       /\ inbox' \in {before, Append(before, [f EXCEPT !.garbled = TRUE])}

\* A frame of the exchange's book; shown is what it has published of it so far.
Snapshot(book, n) ==
    LET top == [s \in Sides |-> Top(s, book[s], n)]
    IN  [Frame("snapshot") EXCEPT !.book = top, !.checksum = Checksum(book),
                                  !.truth = book, !.shown = top]

Delta(changes, book, n, owed) ==
    LET Withheld(s, p) == \E c \in owed : c.side = s /\ c.price = p
        Top_(s, p) == Top(s, book[s], n)[p]
    IN  [Frame("delta") EXCEPT !.changes = changes, !.checksum = Checksum(book), !.truth = book,
            !.shown = [s \in Sides |-> [p \in Prices |-> IF Withheld(s, p) THEN 0
                                                         ELSE Top_(s, p)]]]

\* The exchange takes the next request: it acknowledges a subscribe and sends
\* its book, or rejects it (a second subscribe always), or stops the stream.
Serves ==
    /\ outbox # <<>>
    /\ Len(inbox) < MaxInbox
    /\ outbox' = Tail(outbox)
    /\ \/ /\ Head(outbox).op = "unsub"
          /\ server' = Unsubscribed
          /\ UNCHANGED <<inbox, spent>>
       \/ /\ Head(outbox).op = "sub"
          /\ inbox' = Append(inbox, Frame("reject"))
          /\ UNCHANGED <<server, spent>>
       \/ /\ Head(outbox).op = "sub"
          /\ ~server.on
          /\ LET n == Head(outbox).depth
             IN  Streams([on |-> TRUE, depth |-> n, owed |-> {}, intact |-> TRUE],
                         Snapshot(exBook, n), Append(inbox, Frame("ack")), spent)
    /\ UNCHANGED <<exBook, entry, builder, link>>

\* A level changes.  A level that moves into the subscribed depth is published
\* in a frame of its own, before anything else; one that moves out is not
\* mentioned.
Changes(c) ==
    /\ spent.changes < MaxChanges
    /\ Len(inbox) < MaxInbox
    /\ server.owed = {}
    /\ exBook[c.side][c.price] # c.qty
    /\ exBook' = [exBook EXCEPT ![c.side][c.price] = c.qty]
    /\ LET old == Top(c.side, exBook[c.side], server.depth)
           new == Top(c.side, exBook'[c.side], server.depth)
           used == [spent EXCEPT !.changes = @ + 1]
           owed == {[side |-> c.side, price |-> x, qty |-> new[x]] :
                       x \in {x \in Prices \ {c.price} : old[x] = 0 /\ new[x] # 0}}
       IN  IF server.on /\ old # new
           THEN Streams([server EXCEPT !.owed = owed],
                        Delta({c}, exBook', server.depth, owed), inbox, used)
           ELSE spent' = used /\ UNCHANGED <<server, inbox>>
    /\ UNCHANGED <<outbox, entry, builder, link>>

Publishes ==
    /\ server.owed # {}
    /\ Len(inbox) < MaxInbox
    /\ Streams([server EXCEPT !.owed = {}],
               Delta(server.owed, exBook, server.depth, {}), inbox, spent)
    /\ UNCHANGED <<exBook, outbox, entry, builder, link>>

-----------------------------------------------------------------------------
Client ==
    \/ DataFrame \/ Ack \/ Reject
    \/ ReseedTimeout \/ AckTimeout \/ ResendDue \/ TearDown \/ BringUp
    \/ \E r \in Requests : Subscribe(r)
    \/ Unsubscribe

Exchange ==
    \/ Serves
    \/ \E c \in Moves : Changes(c)
    \/ Publishes

Next == Client \/ Exchange

\* Timers fire and a lost connection is brought up again; the exchange and the
\* callers need do nothing.
Spec == Init /\ [][Next]_vars /\ WF_vars(ReseedTimeout) /\ WF_vars(BringUp)

-----------------------------------------------------------------------------
(* Properties.                                                             *)

\* The book never keeps more than the subscribed depth, and the gap streak
\* ends maintenance before it passes the cap.
TypeOK ==
    /\ exBook \in [Sides -> Levels]
    /\ builder.book \in [Sides -> Levels]
    /\ \A s \in Sides : Cardinality({p \in Prices : builder.book[s][p] # 0}) <= builder.depth
    /\ builder.gaps \in 0..(MaxGaps - 1)
    /\ entry.state \in {"absent", "live", "terminated"}

\* The book frame about to be handled, if there is one.
NextFrame ==
    IF link.up /\ inbox # <<>> THEN {f \in {Head(inbox)} : f.type \in {"snapshot", "delta"}}
    ELSE {}

\* on_book is never given a maintained book whose best levels, as far as the
\* checksum and the caller reach, are not the exchange's of that frame,
\* whatever was lost, garbled, late or rejected before (validate_and_record).
DeliveredValid ==
    \A f \in NextFrame : \A u \in OnBook(f) :
        LET n == IF u.builder.caller < ChecksumDepth THEN u.builder.caller ELSE ChecksumDepth
        IN  u.kind = "maintained" => \A s \in Sides : Top(s, u.book[s], n) = Top(s, f.truth[s], n)

\* On a stream that missed nothing since its snapshot every frame validates:
\* no gap is declared, no data withheld (trim_to_depth, delta_level_deletes
\* and the headroom of wire_depth keep the book in step).
NoFalseGap ==
    \A f \in NextFrame :
        (HasBuilder /\ Applied(builder, f).chained) =>
            \E u \in OnBook(f) : u.kind = "maintained"

\* And then all of the book given out is right, below the checksum's reach
\* too: what the exchange has published of its book, down to the caller's depth.
DeliveredExact ==
    \A f \in NextFrame : \A u \in OnBook(f) :
        (u.kind = "maintained" /\ u.builder.chained) =>
            \A s \in Sides : u.book[s] = Top(s, f.shown[s], u.builder.caller)

\* A book that waits for a snapshot cannot freeze on_book silently: the wait
\* ends, by a snapshot or by giving maintenance up, whatever the exchange does
\* (is_book_resyncing, note_reseed_timeout).  Excepted is a session whose
\* replay the outbox refused: the resend sets no watch.
ResyncEnds ==
    (entry.state = "live" /\ builder.resyncing) ~>
        (entry.state # "live" \/ ~builder.resyncing \/ link.refused)

=============================================================================
