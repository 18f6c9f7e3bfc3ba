----------------------------- MODULE EventParser -----------------------------
(***************************************************************************)
(* From recorded envelopes to normalized rows: EventParser of              *)
(* normalization/parser.py and the row builders of                         *)
(* normalization/normalizer.py.                                            *)
(*                                                                         *)
(* An envelope is                                                          *)
(*   [id, src, hint, cond, token, at, seq, form, msgs]                     *)
(* where form says what its text decodes to ("object", "list", "pong",     *)
(* "empty" or "garbage") and msgs are the decoded messages.  Prices, sizes *)
(* and labels are left out; kept is what decides which rows are written    *)
(* and what one message leaves behind for the next: the token mapping and  *)
(* the tick of each token.  A message's "bad" says where its decoding      *)
(* raises: "no", "early" (before the handler has changed anything) or      *)
(* "late" (after).                                                         *)
(***************************************************************************)
EXTENDS Integers, Sequences, FiniteSets, SequencesExt

CONSTANTS Tokens,      \* token ids
          Conditions,  \* condition ids
          TokensOf,    \* the pair of tokens of a condition
          BaseTick,    \* tick_size_scaled of a token's market record
          EnvelopeIds, \* what tells two envelopes apart
          TradeIds     \* and two trades

ASSUME ParserAssumption ==
    /\ TokensOf \in [Conditions -> SUBSET Tokens]
    /\ BaseTick \in [Tokens -> Nat \ {0}]

NoTick == 0

Change == [token : Tokens, bad : BOOLEAN, top : BOOLEAN]

Message ==
    [type : STRING, token : Tokens, cond : Conditions, tick : Nat, bad : {"no", "early", "late"},
     imprecise : BOOLEAN, trade : TradeIds, changes : Seq(Change)]

RecordedEnvelope ==
    [id : EnvelopeIds, src : {"gamma", "clob_rest", "clob_market_ws", "rtds", "data_api", "internal"},
     hint : STRING, cond : Conditions, token : Tokens, at : Nat, seq : Nat,
     form : {"object", "list", "pong", "empty", "garbage"}, msgs : Seq(Message)]

\* A row: its dataset, the message (and part of it) it came from, the identity
\* the batch deduplicates by, and the columns the model tells apart.
Row(env, ds, i, j, token, tick) ==
    [ds |-> ds, key |-> <<env.id, i, j>>, id |-> <<env.id, i, j>>,
     token |-> token, at |-> env.at, seq |-> env.seq, tick |-> tick]

Quality(env, i, j) == Row(env, "data_quality_events", i, j, env.token, NoTick)

\* What parsing carries along: the rows so far, EventParser._tick_size_by_token
\* and Normalizer.token_market.
Context(rows, ticks, known) == [rows |-> rows, ticks |-> ticks, known |-> known]

\* The element of a singleton.  Folds bind the context they carry with it, so
\* that it is evaluated once a step.
Only(S) == CHOOSE x \in S : TRUE

NoTicks == [t \in Tokens |-> NoTick]

Emit(ctx, rows) == [ctx EXCEPT !.rows = @ \o rows]

SetTickSize(ctx, t, tick) == [ctx EXCEPT !.ticks[t] = tick]

\* An exception inside one message: what it emitted stays, a quality row follows.
MessageFails(ctx, env, i) == Emit(ctx, <<Quality(env, i, 0)>>)

-----------------------------------------------------------------------------
(* _parse_clob_message, one operator per event type. *)

TickOfBook(ctx, m) ==
    IF m.tick # NoTick THEN m.tick
    ELSE IF ctx.ticks[m.token] # NoTick THEN ctx.ticks[m.token]
    ELSE BaseTick[m.token]

SnapshotRows(env, i, t, tick) ==
    << Row(env, "book_snapshots", i, 0, t, tick),
       Row(env, "book_snapshot_levels", i, 0, t, NoTick),
       Row(env, "top_of_book", i, 0, t, NoTick) >>

BookMessage(ctx, env, i, m) ==
    IF m.token \notin ctx.known \/ m.bad = "early"
    THEN MessageFails(ctx, env, i)
    ELSE LET tick == TickOfBook(ctx, m)
             next == SetTickSize(ctx, m.token, tick)
         IN  IF m.bad = "late" THEN MessageFails(next, env, i)
             ELSE Emit(next, SnapshotRows(env, i, m.token, tick))

ChangeRows(env, i, j, change) ==
    << Row(env, "book_updates", i, j, change.token, NoTick) >> \o
    (IF change.top THEN << Row(env, "top_of_book", i, j, change.token, NoTick) >>
                   ELSE << >>)

\* Faulty variant: the changes decoded before the failing one are thrown away
\* and nothing is recorded in their place.
PriceChangeMessageForgets(ctx, env, i, m) ==
    LET failing == {j \in 1..Len(m.changes) :
                      m.changes[j].bad \/ m.changes[j].token \notin ctx.known}
    IN  IF m.bad # "no" \/ failing # {} THEN ctx
        ELSE Emit(ctx, FlattenSeq([j \in 1..Len(m.changes) |->
                                     ChangeRows(env, i, j, m.changes[j])]))

\* The changes before the first one that raises are kept.
PriceChangeMessage(ctx, env, i, m) ==
    LET failing == {j \in 1..Len(m.changes) :
                      m.changes[j].bad \/ m.changes[j].token \notin ctx.known}
        n == IF failing = {} THEN Len(m.changes) ELSE Min(failing) - 1
        kept == Emit(ctx, FlattenSeq([j \in 1..n |-> ChangeRows(env, i, j, m.changes[j])]))
    IN  IF m.bad # "no" THEN MessageFails(ctx, env, i)
        ELSE IF failing # {} THEN MessageFails(kept, env, i)
        ELSE kept

\* A notional beyond the scale is noted before the row is complete.
TradeMessage(ctx, env, i, m) ==
    LET noted == IF m.imprecise THEN Emit(ctx, <<Quality(env, i, 1)>>) ELSE ctx
        row   == [Row(env, "trades", i, 0, m.token, NoTick) EXCEPT !.id = <<"trade", m.trade>>]
    IN  IF m.token \notin ctx.known \/ m.bad = "early" THEN MessageFails(ctx, env, i)
        ELSE IF m.bad = "late" THEN MessageFails(noted, env, i)
        ELSE Emit(noted, <<row>>)

TickRow(env, i, m) == Row(env, "tick_size_changes", i, 0, m.token, m.tick)

\* No mapping is asked for: a tick of an unknown token is taken as well.
TickSizeMessage(ctx, env, i, m) ==
    IF m.bad # "no" THEN MessageFails(ctx, env, i)
    ELSE Emit(SetTickSize(ctx, m.token, m.tick), <<TickRow(env, i, m)>>)

ResolutionMessage(ctx, env, i, m) ==
    IF \/ m.bad # "no"
       \/ m.token \in ctx.known /\ m.token \notin TokensOf[m.cond]
    THEN MessageFails(ctx, env, i)
    ELSE Emit(ctx, <<Row(env, "market_resolutions", i, 0, m.token, NoTick)>>)

BestBidAskMessage(ctx, env, i, m) ==
    IF m.token \notin ctx.known \/ m.bad # "no" THEN MessageFails(ctx, env, i)
    ELSE Emit(ctx, <<Row(env, "top_of_book", i, 0, m.token, NoTick)>>)

ClobMessage(ctx, env, i, m) ==
    CASE m.type = "book"             -> BookMessage(ctx, env, i, m)
      [] m.type = "price_change"     -> PriceChangeMessage(ctx, env, i, m)
      [] m.type = "last_trade_price" -> TradeMessage(ctx, env, i, m)
      [] m.type = "tick_size_change" -> TickSizeMessage(ctx, env, i, m)
      [] m.type = "market_resolved"  -> ResolutionMessage(ctx, env, i, m)
      [] m.type = "best_bid_ask"     -> BestBidAskMessage(ctx, env, i, m)
      [] m.type = "new_market"       -> ctx
      [] OTHER                       -> MessageFails(ctx, env, i)

-----------------------------------------------------------------------------
(* The parser's entry points. *)

ParseClob(ctx, env) ==
    IF env.form = "pong" THEN ctx
    ELSE IF env.form \in {"garbage", "empty"} THEN MessageFails(ctx, env, 0)
    ELSE LET parsed[i \in 0..Len(env.msgs)] ==
               IF i = 0 THEN ctx
               ELSE Only({ClobMessage(c, env, i, env.msgs[i]) : c \in {parsed[i-1]}})
         IN  parsed[Len(env.msgs)]

\* A subscription's history is kept raw only.
ParseRtds(ctx, env) ==
    LET m == env.msgs[1] IN
    IF env.form \in {"pong", "empty"} THEN ctx
    ELSE IF env.form # "object" THEN MessageFails(ctx, env, 0)
    ELSE CASE m.type = "subscribe" -> ctx
           [] m.type = "update" /\ m.bad = "no" ->
                Emit(ctx, <<Row(env, "btc_prices", 1, 0, env.token, NoTick)>>)
           [] OTHER -> MessageFails(ctx, env, 1)

-----------------------------------------------------------------------------
(* The normalizer's own row builders. *)

\* An exception that leaves an envelope's handler: rows it had collected
\* are lost with it and one normalization_error row is written.
EnvelopeFails(ctx, env) == Emit(ctx, <<Quality(env, 0, 0)>>)

OperationalDataset ==
    [connection_event   |-> "connection_events",
     heartbeat_event    |-> "heartbeat_events",
     rest_request       |-> "rest_requests",
     data_quality_event |-> "data_quality_events"]

IsOperational(env) ==
    env.hint \in DOMAIN OperationalDataset /\ env.form \notin {"list"}

OperationalRow(ctx, env) ==
    IF env.form # "object" \/ env.msgs[1].bad # "no" THEN EnvelopeFails(ctx, env)
    ELSE Emit(ctx, <<Row(env, OperationalDataset[env.hint], 1, 0, env.token, NoTick)>>)

\* One Gamma event with a market the matcher accepts.
GammaRows(env, i, c) ==
    << [Row(env, "markets", i, 0, c, NoTick) EXCEPT !.id = <<"market", c>>],
       Row(env, "market_execution_metadata", i, 0, c, NoTick) >> \o
    [j \in 1..2 |-> [Row(env, "market_outcomes", i, j, c, NoTick)
                       EXCEPT !.id = <<"outcome", c, j>>]]

\* The mapping is learnt event by event; the rows only count if no event raises.
MarketRows(ctx, env) ==
    LET accepted == {i \in 1..Len(env.msgs) : env.msgs[i].type = "btc_15m"}
        failing  == {i \in accepted : env.msgs[i].bad # "no"}
        read     == IF failing = {} THEN accepted
                    ELSE {i \in accepted : i < Min(failing)}
        learnt   == [ctx EXCEPT !.known =
                       @ \cup UNION {TokensOf[env.msgs[i].cond] : i \in read}]
    IN  IF env.form \notin {"object", "list"} THEN EnvelopeFails(ctx, env)
        ELSE IF failing # {} THEN EnvelopeFails(learnt, env)
        ELSE Emit(learnt, FlattenSeq([k \in 1..Len(env.msgs) |->
                    IF k \in accepted THEN GammaRows(env, k, env.msgs[k].cond) ELSE << >>]))

RestMarketExecutionMetadata(ctx, env) ==
    IF env.form # "object" \/ env.msgs[1].bad # "no" THEN EnvelopeFails(ctx, env)
    ELSE Emit(ctx, <<Row(env, "market_execution_metadata", 1, 0, env.cond, NoTick)>>)

\* A REST book takes its tick from the answer.  Without a market nothing is
\* written: neither a row nor a quality row; a token that is not the market's
\* raises.
RestSnapshot(ctx, env, registered) ==
    IF env.token \notin ctx.known /\ env.cond \notin registered THEN ctx
    ELSE IF env.form = "list" THEN ctx
    ELSE IF \/ env.form # "object" \/ env.msgs[1].bad # "no"
            \/ env.token \notin ctx.known \cup TokensOf[env.cond] THEN EnvelopeFails(ctx, env)
    ELSE Emit(ctx, SnapshotRows(env, 1, env.token, env.msgs[1].tick))

RestRows(ctx, env, registered) ==
    CASE env.hint \in {"clob_market_info", "clob_market_details"} ->
            RestMarketExecutionMetadata(ctx, env)
      [] env.hint = "book" -> RestSnapshot(ctx, env, registered)
      [] OTHER -> ctx

\* REST answers of which no rows are made.
RawOnly == {"books", "prices_history"}

\* The dispatch of normalize() on an envelope's source; "registered" are the
\* conditions the registry holds, in whatever state.
EnvelopeRows(ctx, env, registered) ==
    CASE env.src = "gamma" -> MarketRows(ctx, env)
      [] env.src \notin {"gamma", "data_api"} /\ IsOperational(env) -> OperationalRow(ctx, env)
      [] env.src = "clob_rest" /\ ~IsOperational(env) -> RestRows(ctx, env, registered)
      [] env.src = "clob_market_ws" /\ ~IsOperational(env) -> ParseClob(ctx, env)
      [] env.src = "rtds" /\ ~IsOperational(env) -> ParseRtds(ctx, env)
      [] OTHER -> ctx

-----------------------------------------------------------------------------
\* What the collector records: an object is one message, a source has its own
\* hints, only the market channel tells of ticks, and the changes of a price
\* change are of its one market, which the message names once for all of them.
WellFormed(env) ==
    /\ env.form = "object" => Len(env.msgs) = 1
    /\ env.src = "clob_rest" =>
          env.hint \in {"book", "clob_market_info", "clob_market_details"} \cup RawOnly
                       \cup DOMAIN OperationalDataset
    /\ \A i \in DOMAIN env.msgs :
          /\ env.src = "gamma" /\ env.form \in {"object", "list"} =>
                env.msgs[i].type \in {"btc_15m", "other_event"}
          /\ env.msgs[i].type = "tick_size_change" =>
                /\ env.src = "clob_market_ws" /\ ~IsOperational(env)
                /\ env.form \in {"object", "list"}
          /\ env.msgs[i].type = "price_change" =>
                \A c \in Conditions : \A j, k \in DOMAIN env.msgs[i].changes :
                   env.msgs[i].changes[j].token \in TokensOf[c]
                      => env.msgs[i].changes[k].token \in TokensOf[c]

\* Messages that are meant to leave no row: control frames, announcements,
\* subscription history, Gamma events that are not the market looked for,
\* price changes without a change, answers that are kept raw only and internal
\* envelopes that are not operational.
Silent(env, i) ==
    \/ env.form \in {"pong", "empty"} /\ ~IsOperational(env) /\ env.src \in {"clob_market_ws", "rtds"}
    \/ env.form \in {"object", "list"} /\ env.msgs[i].type \in {"new_market", "subscribe", "other_event"}
    \/ env.form = "list" /\ env.src = "clob_rest"
    \/ env.src = "clob_rest" /\ env.hint \in RawOnly
    \/ env.src = "data_api"
    \/ env.src = "internal" /\ ~IsOperational(env)
    \/ env.form \in {"object", "list"} /\ env.msgs[i].type = "price_change"
                                      /\ env.msgs[i].changes = << >>

=============================================================================
