--------------------------- MODULE OrderComposition ---------------------------
(***************************************************************************)
(* How an order request is built, validated and put on the wire.           *)
(*                                                                         *)
(* A caller fills in a request with the setters of                         *)
(* src/rust/src/api/trade/types/requests.rs in any order, hands it to      *)
(* TradeNamespace::order, order_batch or order_amend (which allocate the   *)
(* client order ids) and awaits it on a transport; the executor validates  *)
(* it, rejects what the transport cannot represent and composes the REST   *)
(* form or the WS parameters.  Amounts and spellings are abstracted; what  *)
(* the two transports do with relative prices, trigger legs, conditional   *)
(* closes, flags, dates and identifiers is not.                            *)
(***************************************************************************)
EXTENDS Integers, Sequences, FiniteSets

CONSTANTS
    None,        \* an absent field
    Prices,      \* the prices a setter may be given
    Leverages,   \* the u8 values leverage may be given
    Times,       \* [day, tod] instants start_time and expire_time may be given
    ClosePrices, \* the prices of a conditional close
    MaxSets,     \* bound: setters applied to one request, by its kind
    Pads         \* bound: how many plain entries a batch may get at once

Kinds == {"order", "batch", "amend"}
Transports == {"Rest", "WsV2Auth"}

OrderTypes == {"market", "limit", "iceberg", "stop-loss", "take-profit",
               "stop-loss-limit", "take-profit-limit", "trailing-stop",
               "trailing-stop-limit", "settle-position", "unknown"}

\* A price is absolute ("static") or an offset from the market in quote
\* currency or percent; its sign is what validation and rendering look at.
PriceRecords == [unit : {"static", "quote", "pct"}, sign : {"neg", "zero", "pos"}]

ASSUME PricesAssumption ==
    /\ Prices \subseteq PriceRecords
    /\ ClosePrices \subseteq Prices

OFlags == {"fcib", "fciq", "nompp", "post"}

\* TimeSpec: no instant before the epoch.
ASSUME TimesAssumption == \A t \in Times : t \in [day : Nat, tod : Nat] /\ t.tod < 86400

IsOffset(p) == p # None /\ p.unit # "static"

CloseTypes == {"limit", "stop-loss", "take-profit", "stop-loss-limit",
               "take-profit-limit", "trailing-stop", "trailing-stop-limit"}

Closes == [type : CloseTypes, price : ClosePrices, price2 : ClosePrices \cup {None}]

NoClose == [type |-> None, price |-> None, price2 |-> None]

Words == {"index", "gtc", "fok", "cancel-both", "ref", "own", "auto", "qty", "base", "quote"}

\* An absent field is no value, of a request or of the wire.
ASSUME NoneAssumption ==
    /\ None \notin OrderTypes \cup CloseTypes \cup Words
    /\ None \notin {"static", "quote", "pct"} \cup {"neg", "zero", "pos"}
    /\ None \notin BOOLEAN /\ None \notin Leverages
    /\ None \notin Prices /\ None \notin Times
    /\ \A flags \in SUBSET OFlags : None # flags
    /\ None \notin [prefix : {"", "+", "-"}, pct : BOOLEAN, zero : BOOLEAN]
    /\ None \notin [date : [y : Int, m : Int, d : Int], hh : Int, mi : Int, ss : Int]

LimitPriceBearing == {"limit", "iceberg", "stop-loss-limit",
                      "take-profit-limit", "trailing-stop-limit"}
Trailing == {"trailing-stop", "trailing-stop-limit"}

\* OrderRequest::new and BatchOrderEntry::new: a market order, nothing else set.
NewOrder ==
    [type |-> "market", price |-> None, price2 |-> None, leverage |-> None,
     margin |-> FALSE, oflags |-> {}, reduce |-> None, trigger |-> None,
     tif |-> None, stp |-> None, start |-> None, expire |-> None,
     userref |-> None, id |-> None, close |-> NoClose]

\* What each setter may be given.
Choices ==
    [type |-> OrderTypes, price |-> Prices, price2 |-> Prices,
     leverage |-> Leverages, margin |-> BOOLEAN,
     oflags |-> SUBSET (OFlags \ {"post"}), reduce |-> BOOLEAN,
     trigger |-> {"index"}, tif |-> {"gtc", "fok"}, stp |-> {"cancel-both"},
     start |-> Times, expire |-> Times, userref |-> {"ref"}, id |-> {"own"},
     close |-> Closes]

\* OrderAmendRequest::new: the identity, nothing to change.
NewAmend ==
    [order_qty |-> None, limit_price |-> None, post_only |-> None,
     trigger_price |-> None, display_qty |-> None]

AmendChoices ==
    [order_qty |-> {"qty"}, limit_price |-> Prices, post_only |-> BOOLEAN,
     trigger_price |-> Prices, display_qty |-> {"qty"}]

VARIABLES
    req,     \* the request: [kind, entries, pad, amend, validate, deadline]
    sets,    \* setters applied so far (bound)
    stage,   \* "building", "pending" (a PendingTrade), "sent", "rejected"
    wire     \* what was sent: [transport, rows, validate], or None

vars == <<req, sets, stage, wire>>

Init ==
    /\ \E k \in Kinds :
         req = [kind |-> k, entries |-> <<NewOrder>>, pad |-> 0, amend |-> NewAmend,
                validate |-> FALSE, deadline |-> FALSE]
    /\ sets = 0
    /\ stage = "building"
    /\ wire = None

-----------------------------------------------------------------------------
(* Building.                                                               *)

Building == stage = "building" /\ sets < MaxSets[req.kind]

Last == Len(req.entries)

Put(o) == req' = [req EXCEPT !.entries[Last] = o]

Set ==
    /\ Building /\ req.kind # "amend"
    /\ \E f \in DOMAIN Choices : \E v \in Choices[f] :
         Put([req.entries[Last] EXCEPT ![f] = v])
    /\ sets' = sets + 1
    /\ UNCHANGED <<stage, wire>>

\* set_post_only adds or removes the one flag and leaves the others.
PostOnly(on) ==
    /\ Building /\ req.kind = "order"
    /\ LET o == req.entries[Last]
       IN  Put([o EXCEPT !.oflags = IF on THEN @ \cup {"post"} ELSE @ \ {"post"}])
    /\ sets' = sets + 1
    /\ UNCHANGED <<stage, wire>>

SetAmend ==
    /\ Building /\ req.kind = "amend"
    /\ \E f \in DOMAIN AmendChoices : \E v \in AmendChoices[f] :
         req' = [req EXCEPT !.amend[f] = v]
    /\ sets' = sets + 1
    /\ UNCHANGED <<stage, wire>>

SetValidate ==
    /\ Building /\ req.kind # "amend"
    /\ req' = [req EXCEPT !.validate = TRUE]
    /\ sets' = sets + 1
    /\ UNCHANGED <<stage, wire>>

SetDeadline ==
    /\ Building /\ req.kind # "amend"
    /\ req' = [req EXCEPT !.deadline = TRUE]
    /\ sets' = sets + 1
    /\ UNCHANGED <<stage, wire>>

\* The entries of a batch: one more to fill in, or a run of plain ones.
AddEntry ==
    /\ Building /\ req.kind = "batch" /\ Last = 1
    /\ req' = [req EXCEPT !.entries = Append(@, NewOrder)]
    /\ UNCHANGED <<sets, stage, wire>>

PadBatch ==
    /\ stage = "building" /\ req.kind = "batch" /\ req.pad = 0
    /\ \E n \in Pads : req' = [req EXCEPT !.pad = n]
    /\ UNCHANGED <<sets, stage, wire>>

-----------------------------------------------------------------------------
(* TradeNamespace: client order ids.                                       *)

\* The exchange refuses a client order id beside a userref or a close.
SuppressAutoClOrdId(o) == o.userref # None \/ o.close # NoClose

WithClOrdId(o) ==
    IF o.id = None /\ ~SuppressAutoClOrdId(o) THEN [o EXCEPT !.id = "auto"] ELSE o

Submit ==
    /\ stage = "building"
    /\ stage' = "pending"
    /\ req' = [req EXCEPT !.entries = [i \in DOMAIN @ |-> WithClOrdId(@[i])]]
    /\ UNCHANGED <<sets, wire>>

-----------------------------------------------------------------------------
(* Validation.                                                             *)

\* Fault: a relative limit leg of the close is let through.
WsUnrepresentableFirstLeg(o) == o.leverage # None \/ IsOffset(o.close.price)

WsUnrepresentable(o) ==
    \/ o.leverage # None
    \/ IsOffset(o.close.price)
    \/ IsOffset(o.close.price2)

RestUnrepresentable(o) == o.margin

TrailingPriceOK(type, price, price2) ==
    type \in Trailing =>
        /\ IsOffset(price) /\ price.sign = "pos"
        /\ type = "trailing-stop-limit" => price2 # None
        /\ price2 # None => IsOffset(price2)

OrderGatesOK(o) ==
    /\ o.type # "unknown"
    /\ o.type = "settle-position" => o.leverage \notin {None, 0}
    /\ o.reduce = TRUE => o.margin \/ o.leverage \notin {None, 0, 1}
    /\ o.tif = "fok" => o.type \in LimitPriceBearing

EntryOK(o) ==
    /\ OrderGatesOK(o)
    /\ TrailingPriceOK(o.type, o.price, o.price2)
    /\ o.close # NoClose => TrailingPriceOK(o.close.type, o.close.price, o.close.price2)

AddOrderOK(o) ==
    /\ ~(o.userref # None /\ o.id # None)
    /\ ~(RestUnrepresentable(o) /\ WsUnrepresentable(o))
    /\ EntryOK(o)

Entries == {req.entries[i] : i \in DOMAIN req.entries}

\* Fault: each entry is only compared with itself.
MixUnplaceableAlone ==
    \E o \in Entries : RestUnrepresentable(o) /\ WsUnrepresentable(o)

\* A batch goes out on one transport: no entry may need the other one.
MixUnplaceable ==
    /\ \E o \in Entries : RestUnrepresentable(o)
    /\ \E o \in Entries : WsUnrepresentable(o)

BatchOK ==
    /\ Last + req.pad \in 2..15
    /\ ~MixUnplaceable
    /\ \A o \in Entries : EntryOK(o)

Validates ==
    CASE req.kind = "order" -> ~req.deadline /\ AddOrderOK(req.entries[1])
      [] req.kind = "batch" -> ~req.deadline /\ BatchOK
      [] req.kind = "amend" -> req.amend # NewAmend

\* display_qty is the one amend field the WS composer has no key for.
Representable(t) ==
    IF req.kind = "amend" THEN t = "Rest" \/ req.amend.display_qty = None
    ELSE \A o \in Entries : IF t = "Rest" THEN ~RestUnrepresentable(o) ELSE ~WsUnrepresentable(o)

-----------------------------------------------------------------------------
(* Composition.  A wire row is a set of <<key, value>> pairs.              *)

Opt(key, v) == IF v = None THEN {} ELSE {<<key, v>>}
Flag(key, b) == IF b THEN {<<key, TRUE>>} ELSE {}

\* Price::to_rest_form: an offset always carries its sign, a percentage "%".
RestPrice(p) ==
    IF p = None THEN None
    ELSE [prefix |-> IF p.sign = "neg" THEN "-" ELSE IF p.unit = "static" THEN "" ELSE "+",
          pct |-> p.unit = "pct", zero |-> p.sign = "zero"]

RestRow(o) ==
    {<<"ordertype", o.type>>} \cup Opt("price", RestPrice(o.price))
    \cup Opt("price2", RestPrice(o.price2)) \cup Opt("leverage", o.leverage)
    \cup (IF o.oflags = {} THEN {} ELSE {<<"oflags", o.oflags>>})
    \cup Flag("reduce_only", o.reduce = TRUE)
    \cup Opt("stptype", o.stp) \cup Opt("trigger", o.trigger)
    \cup Opt("timeinforce", o.tif)
    \cup Opt("starttm", o.start) \cup Opt("expiretm", o.expire)
    \cup Opt("userref", o.userref) \cup Opt("cl_ord_id", o.id)
    \cup Opt("close[ordertype]", o.close.type)
    \cup Opt("close[price]", RestPrice(o.close.price))
    \cup Opt("close[price2]", RestPrice(o.close.price2))

\* unix_secs_to_rfc3339_utc: civil date of a day number, by 400-year eras that
\* start on 1 March.
CivilFromDays(day) ==
    LET z == day + 719468
        era == z \div 146097
        doe == z - era * 146097
        yoe == (doe - doe \div 1460 + doe \div 36524 - doe \div 146096) \div 365
        doy == doe - (365 * yoe + yoe \div 4 - yoe \div 100)
        mp == (5 * doy + 2) \div 153
        m == IF mp < 10 THEN mp + 3 ELSE mp - 9
    IN  [y |-> yoe + era * 400 + (IF m <= 2 THEN 1 ELSE 0), m |-> m,
         d |-> doy - (153 * mp + 2) \div 5 + 1]

WsTime(t) ==
    IF t = None THEN None
    ELSE [date |-> CivilFromDays(t.day), hh |-> t.tod \div 3600,
          mi |-> (t.tod % 3600) \div 60, ss |-> t.tod % 60]

\* decimal_to_json and Price::to_ws: the number and its price_type.
TypeKey(key) ==
    CASE key = "limit_price" -> "limit_price_type"
      [] key = "trigger_price" -> "trigger_price_type"
      [] key = "triggers.price" -> "triggers.price_type"

WsPrice(key, p) ==
    IF p = None THEN {}
    ELSE {<<key, p.sign>>, <<TypeKey(key), p.unit>>}

WsTriggerTypes == {"stop-loss", "take-profit", "stop-loss-limit",
                   "take-profit-limit"} \cup Trailing

WsPriceFields(o) ==
    CASE o.type \in {"limit", "iceberg"} -> WsPrice("limit_price", o.price)
      [] o.type \in WsTriggerTypes ->
           WsPrice("triggers.price", o.price) \cup Opt("triggers.reference", o.trigger)
           \cup (IF o.type \in LimitPriceBearing THEN WsPrice("limit_price", o.price2)
                 ELSE {})
      [] OTHER -> {}

\* The WS conditional has no price_type: its prices are absolute.
WsClose(c) ==
    Opt("conditional.order_type", c.type) \cup
    CASE c.type \in {"stop-loss", "take-profit", "stop-loss-limit",
                     "take-profit-limit"} ->
           Opt("conditional.trigger_price", IF c.price = None THEN None ELSE c.price.sign)
           \cup Opt("conditional.limit_price",
                    IF c.price2 = None THEN None ELSE c.price2.sign)
      [] c.type = "limit" -> {<<"conditional.limit_price", c.price.sign>>}
      [] OTHER -> {}

WsFlags(flags) ==
    Flag("post_only", "post" \in flags) \cup Flag("no_mpp", "nompp" \in flags) \cup
    Opt("fee_preference", IF "fcib" \in flags THEN "base"
                          ELSE IF "fciq" \in flags THEN "quote" ELSE None)

WsRow(o) ==
    {<<"order_type", o.type>>} \cup WsPriceFields(o) \cup WsFlags(o.oflags)
    \cup Flag("margin", o.margin) \cup Flag("reduce_only", o.reduce = TRUE)
    \cup Opt("stp_type", o.stp) \cup Opt("time_in_force", o.tif)
    \cup Opt("effective_time", WsTime(o.start)) \cup Opt("expire_time", WsTime(o.expire))
    \cup Opt("order_userref", o.userref) \cup Opt("cl_ord_id", o.id)
    \cup WsClose(o.close)

\* Amends carry flat keys, post_only also when it is false.
RestAmend(a) ==
    Opt("order_qty", a.order_qty) \cup Opt("limit_price", RestPrice(a.limit_price))
    \cup Opt("post_only", a.post_only)
    \cup Opt("trigger_price", RestPrice(a.trigger_price))
    \cup Opt("display_qty", a.display_qty)

WsAmend(a) ==
    Opt("order_qty", a.order_qty) \cup WsPrice("limit_price", a.limit_price)
    \cup Opt("post_only", a.post_only) \cup WsPrice("trigger_price", a.trigger_price)

Compose(t) ==
    IF req.kind = "amend"
    THEN <<IF t = "Rest" THEN RestAmend(req.amend) ELSE WsAmend(req.amend)>>
    ELSE [i \in DOMAIN req.entries |->
             IF t = "Rest" THEN RestRow(req.entries[i]) ELSE WsRow(req.entries[i])]

Await(t) ==
    /\ stage = "pending"
    /\ IF Validates /\ Representable(t)
       THEN /\ stage' = "sent"
            /\ wire' = [transport |-> t, rows |-> Compose(t), validate |-> req.validate]
       ELSE /\ stage' = "rejected"
            /\ UNCHANGED wire
    /\ UNCHANGED <<req, sets>>

Next ==
    \/ Set \/ PostOnly(TRUE) \/ PostOnly(FALSE) \/ SetAmend \/ SetValidate
    \/ SetDeadline \/ AddEntry \/ PadBatch \/ Submit
    \/ \E t \in Transports : Await(t)

Spec == Init /\ [][Next]_vars

-----------------------------------------------------------------------------
(* How the exchange reads a row.                                           *)

Get(row, key) ==
    IF \E p \in row : p[1] = key THEN (CHOOSE p \in row : p[1] = key)[2] ELSE None

\* A REST price with a sign is an offset, one without is absolute.
ReadRestPrice(r) ==
    IF r = None THEN None
    ELSE [unit |-> IF r.prefix = "" THEN "static" ELSE IF r.pct THEN "pct" ELSE "quote",
          sign |-> IF r.zero THEN "zero" ELSE IF r.prefix = "-" THEN "neg" ELSE "pos"]

ReadWsPrice(row, key) ==
    IF Get(row, key) = None THEN None
    ELSE [unit |-> Get(row, TypeKey(key)), sign |-> Get(row, key)]

ReadWsClosePrice(v) == IF v = None THEN None ELSE [unit |-> "static", sign |-> v]

\* The Gregorian calendar by counting: the reference for CivilFromDays.
IsLeap(y) == y % 4 = 0 /\ (y % 100 # 0 \/ y % 400 = 0)

MonthStart(y, m) ==
    <<0, 31, 59, 90, 120, 151, 181, 212, 243, 273, 304, 334>>[m]
    + (IF m > 2 /\ IsLeap(y) THEN 1 ELSE 0)

ReadWsTime(t) ==
    IF t = None THEN None
    ELSE [day |-> 365 * (t.date.y - 1970)
                  + Cardinality({y \in 1970..(t.date.y - 1) : IsLeap(y)})
                  + MonthStart(t.date.y, t.date.m) + t.date.d - 1,
          tod |-> t.hh * 3600 + t.mi * 60 + t.ss]

ReadRest(row) ==
    [type |-> Get(row, "ordertype"), price |-> ReadRestPrice(Get(row, "price")),
     price2 |-> ReadRestPrice(Get(row, "price2")), leverage |-> Get(row, "leverage"),
     margin |-> FALSE,
     oflags |-> IF Get(row, "oflags") = None THEN {} ELSE Get(row, "oflags"),
     reduce |-> Get(row, "reduce_only"), trigger |-> Get(row, "trigger"),
     tif |-> Get(row, "timeinforce"), stp |-> Get(row, "stptype"),
     start |-> Get(row, "starttm"), expire |-> Get(row, "expiretm"),
     userref |-> Get(row, "userref"), id |-> Get(row, "cl_ord_id"),
     close |-> [type |-> Get(row, "close[ordertype]"),
                price |-> ReadRestPrice(Get(row, "close[price]")),
                price2 |-> ReadRestPrice(Get(row, "close[price2]"))]]

ReadWs(row) ==
    LET type == Get(row, "order_type")
        closeType == Get(row, "conditional.order_type")
        limit == ReadWsClosePrice(Get(row, "conditional.limit_price"))
    IN  [type |-> type,
         price |-> IF type \in WsTriggerTypes THEN ReadWsPrice(row, "triggers.price")
                   ELSE ReadWsPrice(row, "limit_price"),
         price2 |-> IF type \in WsTriggerTypes THEN ReadWsPrice(row, "limit_price")
                    ELSE None,
         leverage |-> None, margin |-> Get(row, "margin") # None,
         oflags |-> (IF Get(row, "post_only") = None THEN {} ELSE {"post"}) \cup
                    (IF Get(row, "no_mpp") = None THEN {} ELSE {"nompp"}) \cup
                    (CASE Get(row, "fee_preference") = "base" -> {"fcib"}
                       [] Get(row, "fee_preference") = "quote" -> {"fciq"}
                       [] OTHER -> {}),
         reduce |-> Get(row, "reduce_only"), trigger |-> Get(row, "triggers.reference"),
         tif |-> Get(row, "time_in_force"), stp |-> Get(row, "stp_type"),
         start |-> ReadWsTime(Get(row, "effective_time")),
         expire |-> ReadWsTime(Get(row, "expire_time")),
         userref |-> Get(row, "order_userref"), id |-> Get(row, "cl_ord_id"),
         close |-> [type |-> closeType,
                    price |-> IF closeType = "limit" THEN limit
                              ELSE ReadWsClosePrice(Get(row, "conditional.trigger_price")),
                    price2 |-> IF closeType = "limit" THEN None ELSE limit]]

\* What an order means: the fields its type uses.  Both fee currencies at once
\* mean the base currency.
Meaning(o) ==
    [o EXCEPT
       !.price = IF o.type \in {"market", "settle-position"} THEN None ELSE @,
       !.price2 = IF o.type \in WsTriggerTypes \cap LimitPriceBearing THEN @ ELSE None,
       !.trigger = IF o.type \in WsTriggerTypes THEN @ ELSE None,
       !.reduce = (@ = TRUE),
       !.oflags = IF "fcib" \in @ THEN @ \ {"fciq"} ELSE @,
       !.close.price2 = IF o.close.type \in {None, "limit"} THEN None ELSE @]

-----------------------------------------------------------------------------
(* Properties.                                                             *)

\* An amend as the exchange reads it.
ReadAmend(row) ==
    LET price(key) == IF wire.transport = "Rest" THEN ReadRestPrice(Get(row, key))
                      ELSE ReadWsPrice(row, key)
    IN  [order_qty |-> Get(row, "order_qty"), limit_price |-> price("limit_price"),
         post_only |-> Get(row, "post_only"), trigger_price |-> price("trigger_price"),
         display_qty |-> Get(row, "display_qty")]

\* REST spells a negative absolute price like an offset, and neither a setter
\* nor a validation refuses one: what carries it there is misread.
Misread(prices) ==
    wire.transport = "Rest" /\ [unit |-> "static", sign |-> "neg"] \in prices

OrderPrices(o) == {o.price, o.price2, o.close.price, o.close.price2}
AmendPrices(a) == {a.limit_price, a.trigger_price}

\* Whatever the caller set, in whatever order, a request that was sent reads
\* back on the exchange's side as the one the caller described: no relative
\* price turns absolute, no leg of a conditional close and no field of an amend
\* is lost, margin and leverage are never dropped, dates are the same instant.
\* It holds of every entry on the WS, and on REST of every entry without a
\* negative absolute price, which Price::to_rest_form writes as an offset
\* (add_order_to_form, compose_add_order_params, compose_batch_add_params,
\* compose_amend_order_params).
WireMeansOrder ==
    stage = "sent" =>
        IF req.kind = "amend"
        THEN Misread(AmendPrices(req.amend)) \/ ReadAmend(wire.rows[1]) = req.amend
        ELSE \A i \in DOMAIN req.entries :
                LET row == wire.rows[i]
                    read == IF wire.transport = "Rest" THEN ReadRest(row) ELSE ReadWs(row)
                IN  \/ Misread(OrderPrices(req.entries[i]))
                    \/ Meaning(read) = Meaning(req.entries[i])

\* A request that validates can be sent on at least one transport: margin (WS
\* only) never meets leverage or a relative close (REST only) in an order, nor
\* across the entries of one batch (validate_add_order,
\* AddOrderBatchRequest::validate).
SomeTransportTakesIt ==
    stage = "pending" /\ Validates => \E t \in Transports : Representable(t)

=============================================================================
