----------------------------- MODULE MC_Normalizer -----------------------------
(***************************************************************************)
(* One condition with two tokens.  "old", "gam" and "rtds" were normalized *)
(* before ticks had a dataset; "ws1", "rest" and "ws2" are finalized while *)
(* runs are under way and fall into one second of the chart.  "ws1" holds  *)
(* the messages that fail half way.                                        *)
(***************************************************************************)
EXTENDS Normalizer

MCTokensOf == [c \in {"c1"} |-> {"up", "down"}]
MCBaseTick == [t \in {"up", "down"} |-> 10]

Msg(type, token) ==
    [type |-> type, token |-> token, cond |-> "c1", tick |-> 0, bad |-> "no",
     imprecise |-> FALSE, trade |-> "t1", changes |-> << >>]

Env(id, src, hint, at, form, msgs) ==
    [id |-> id, src |-> src, hint |-> hint, cond |-> "c1", token |-> "up",
     at |-> at, seq |-> at, form |-> form, msgs |-> msgs]

OneChange(token, bad) == [token |-> token, bad |-> bad, top |-> TRUE]

OldFile ==
    << Env("o1", "clob_market_ws", "none", 1, "list",
           << [Msg("tick_size_change", "up") EXCEPT !.tick = 1], Msg("best_bid_ask", "up") >>) >>

WsFile1 ==
    << Env("a1", "clob_market_ws", "none", 2, "list",
           << Msg("book", "up"),
              [Msg("price_change", "up") EXCEPT !.changes = <<OneChange("up", FALSE), OneChange("down", TRUE)>>],
              [Msg("last_trade_price", "up") EXCEPT !.imprecise = TRUE],
              Msg("new_market", "up") >>),
       Env("a2", "clob_market_ws", "none", 4, "object", << Msg("best_bid_ask", "up") >>) >>

WsFile2 ==
    << Env("b1", "clob_market_ws", "none", 3, "list",
           << Msg("last_trade_price", "down"), Msg("best_bid_ask", "up"), Msg("surprise", "up"),
              [Msg("book", "down") EXCEPT !.bad = "late"],
              [Msg("tick_size_change", "down") EXCEPT !.tick = 1] >>) >>

RestFile ==
    << Env("r1", "clob_rest", "book", 5, "object", << [Msg("book", "up") EXCEPT !.tick = 10] >>),
       Env("r2", "clob_rest", "rest_request", 5, "object", << [Msg("request", "up") EXCEPT !.bad = "early"] >>) >>

GammaFile ==
    << Env("g1", "gamma", "gamma_response", 1, "list",
           << Msg("btc_15m", "up"), Msg("other_event", "up") >>),
       Env("g2", "gamma", "gamma_response", 1, "garbage", << Msg("garbage", "up") >>) >>

RtdsFile ==
    << Env("p1", "rtds", "none", 1, "object", << Msg("update", "up") >>),
       Env("p2", "rtds", "none", 1, "garbage", << Msg("garbage", "up") >>),
       Env("p3", "rtds", "heartbeat_event", 1, "object", << Msg("heartbeat", "up") >>) >>

MCFiles == {"old", "gam", "rtds", "ws1", "rest", "ws2"}

File(src, date, closed, envelopes) ==
    [src |-> src, date |-> date, closed |-> closed, envelopes |-> envelopes]

MCFileOf ==
    [f \in MCFiles |->
        CASE f = "old"  -> File("clob_market_ws", "d1", 1, OldFile)
          [] f = "gam"  -> File("gamma", "d1", 2, GammaFile)
          [] f = "rtds" -> File("rtds", "d1", 3, RtdsFile)
          [] f = "ws1"  -> File("clob_market_ws", "d1", 4, WsFile1)
          [] f = "rest" -> File("clob_rest", "d2", 5, RestFile)
          [] f = "ws2"  -> File("clob_market_ws", "d2", 6, WsFile2)]

MCEnvelopeIds == {"o1", "a1", "a2", "b1", "r1", "r2", "g1", "g2", "p1", "p2", "p3"}

MCTimer == [max |-> 2, newest |-> TRUE, date |-> "any"]
MCOptions == {MCTimer, [max |-> 0, newest |-> FALSE, date |-> "d1"]}
=============================================================================
